-------------------------- MODULE TestClientProofs --------------------------
(***************************************************************************)
(* Proofs about TestClient, for any functions, signatures, texts and       *)
(* files: what the page shows is what its script keeps and sends.          *)
(***************************************************************************)
EXTENDS TestClient, SequenceTheorems, TLAPS

Shown == Seq(Inputs) \cup Seq(Files)
Kept == Seq(Texts) \cup {None}

(* The form is that of the selected function, and so are func and          *)
(* func_params.                                                            *)
FormInv ==
    /\ name \in Names
    /\ func = name
    /\ form \in Seq(Shown)
    /\ Len(form) = Len(Sig[func])
    /\ func_params \in Seq(Kept)
    /\ Len(func_params) = Len(Sig[func])

\* the one input of a String has what was typed, or was not touched
IsTextItem(item) ==
    item \in Seq(Inputs) /\ Len(item) = 1 /\ item[1] \in Texts \cup {Undefined}

\* an input that shows t as it is, or as it is drawn
Shows(x, t) == x \in {t, Drawn(t)}

\* what the inputs of a parameter show
ItemsInv ==
    \A i \in 1 .. Len(form) :
        /\ IsText(func, i) => IsTextItem(form[i])
        /\ IsList(func, i) => form[i] \in Seq(Inputs) /\ func_params[i] \in Seq(Texts)

\* the input being edited is one of a list that is shown, and shows what was typed
FocusInv ==
    focus # None =>
        /\ focus \in Nat \X Nat
        /\ focus[1] \in 1 .. Len(form)
        /\ IsList(func, focus[1])
        /\ focus[2] \in 1 .. Len(form[focus[1]])
        /\ form[focus[1]][focus[2]] \in Texts

PageInv == FormInv /\ ItemsInv /\ FocusInv /\ DisplayedIsKept

-----------------------------------------------------------------------------
(* The form *)

LEMMA SigType == ASSUME NEW f \in Names PROVE Sig[f] \in Seq(Param) /\ Len(Sig[f]) \in Nat
  BY ClientAssumption

\* a sequence by its domain and its items
LEMMA MakesSeq ==
  ASSUME NEW n \in Nat, NEW S, NEW g(_), \A i \in 1 .. n : g(i) \in S
  PROVE  /\ [i \in 1 .. n |-> g(i)] \in Seq(S)
         /\ Len([i \in 1 .. n |-> g(i)]) = n
  OBVIOUS

LEMMA EmptyItems ==
  /\ << >> \in Seq(Texts) /\ << >> \in Seq(Inputs) /\ << >> \in Shown /\ Len(<< >>) = 0
  /\ << Undefined >> \in Shown /\ IsTextItem(<< Undefined >>)
<1>1. Undefined \in Inputs
  BY DEF Inputs
<1> HIDE DEF Undefined
<1>2. << Undefined >> \in Seq(Inputs) /\ Len(<< Undefined >>) = 1
      /\ << Undefined >>[1] = Undefined
  BY <1>1
<1>3. QED
  BY <1>2 DEF Shown, IsTextItem

LEMMA TextsAreInputs == Texts \subseteq Inputs /\ \A t \in Texts : Drawn(t) \in Inputs
  BY DEF Inputs

LEMMA NotNone == None \notin Seq(Texts) /\ None \notin Nat \X Nat
  BY ClientAssumption

LEMMA NewFormType ==
  ASSUME NEW f \in Names
  PROVE  /\ NewForm(f) \in Seq(Shown) /\ Len(NewForm(f)) = Len(Sig[f])
         /\ NewParams(f) \in Seq(Kept) /\ Len(NewParams(f)) = Len(Sig[f])
         /\ \A i \in 1 .. Len(Sig[f]) :
               /\ IsText(f, i) => NewForm(f)[i] = << Undefined >>
               /\ ~ IsText(f, i) => NewForm(f)[i] = << >>
               /\ IsList(f, i) => NewParams(f)[i] = << >>
<1> DEFINE n == Len(Sig[f])
           g(i) == IF IsText(f, i) THEN << Undefined >> ELSE << >>
           h(i) == IF IsList(f, i) THEN << >> ELSE None
<1>1. n \in Nat
  BY SigType
<1>2. \A i \in 1 .. n : g(i) \in Shown /\ h(i) \in Kept
  BY EmptyItems DEF Shown, Kept
<1>3. NewForm(f) = [i \in 1 .. n |-> g(i)] /\ NewParams(f) = [i \in 1 .. n |-> h(i)]
  BY DEF NewForm, NewParams
<1> HIDE DEF n
<1>4. NewForm(f) \in Seq(Shown) /\ Len(NewForm(f)) = n
  <2> HIDE DEF g
  <2>1. [i \in 1 .. n |-> g(i)] \in Seq(Shown) /\ Len([i \in 1 .. n |-> g(i)]) = n
    BY <1>1, <1>2
  <2>2. QED
    BY <1>3, <2>1
<1>5. NewParams(f) \in Seq(Kept) /\ Len(NewParams(f)) = n
  <2> HIDE DEF h
  <2>1. [i \in 1 .. n |-> h(i)] \in Seq(Kept) /\ Len([i \in 1 .. n |-> h(i)]) = n
    BY <1>1, <1>2
  <2>2. QED
    BY <1>3, <2>1
<1>6. \A i \in 1 .. n : NewForm(f)[i] = g(i) /\ NewParams(f)[i] = h(i)
  BY <1>3
<1>7. QED
  BY <1>4, <1>5, <1>6 DEF n

LEMMA TextIsNoList ==
  ASSUME NEW f, NEW i PROVE ~ (IsText(f, i) /\ IsList(f, i)) /\ ~ (IsText(f, i) /\ IsBlobs(f, i))
                             /\ ~ (IsList(f, i) /\ IsBlobs(f, i))
  BY DEF IsText, IsList, IsBlobs

\* whenever a form is made anew, script and document agree
LEMMA PreparePage ==
  ASSUME NEW f \in Names, prepare_call(f), name' = f
  PROVE  PageInv'
<1>1. func' = f /\ func_params' = NewParams(f) /\ form' = NewForm(f) /\ focus' = None
  BY DEF prepare_call
<1>2. FormInv'
  BY <1>1, NewFormType DEF FormInv
<1>3. ItemsInv'
  <2>1. SUFFICES ASSUME NEW i \in 1 .. Len(form')
                 PROVE  /\ IsText(f, i) => IsTextItem(form'[i])
                        /\ IsList(f, i) => form'[i] \in Seq(Inputs) /\ func_params'[i] \in Seq(Texts)
    BY <1>1 DEF ItemsInv, IsTextItem, IsText, IsList, In
  <2>2. QED
    BY <1>1, NewFormType, EmptyItems, TextIsNoList
<1>4. FocusInv'
  BY <1>1 DEF FocusInv
<1>5. DisplayedIsKept'
  <2>1. SUFFICES ASSUME NEW i \in 1 .. Len(form'), IsList(f, i)
                 PROVE  /\ Len(form'[i]) = Len(func_params'[i])
                        /\ \A k \in 1 .. Len(form'[i]) :
                              << i, k >> # focus' => Shows(form'[i][k], func_params'[i][k])
    BY <1>1 DEF DisplayedIsKept, Shows, IsList, In
  <2>2. form'[i] = << >> /\ func_params'[i] = << >>
    BY <1>1, <2>1, NewFormType, TextIsNoList
  <2>3. QED
    BY <2>2
<1>6. QED
  BY <1>2, <1>3, <1>4, <1>5 DEF PageInv

\* an item of the form is replaced, and the script is told or need not be
LEMMA ItemStep ==
  ASSUME PageInv, UNCHANGED << name, func >>,
         NEW i \in 1 .. Len(form), NEW shown \in Shown, NEW kept,
         form' = [form EXCEPT ![i] = shown],
         \/ ~ IsList(func, i) /\ UNCHANGED << func_params, focus >>
         \/ /\ IsList(func, i) /\ shown \in Seq(Inputs)
            /\ kept \in Seq(Texts)
            /\ func_params' = [func_params EXCEPT ![i] = kept]
            /\ focus' # None => focus' \in Nat \X Nat /\ focus'[1] = i
                                /\ focus'[2] \in 1 .. Len(shown)
                                /\ shown[focus'[2]] \in Texts
            /\ Len(shown) = Len(kept)
            /\ \A k \in 1 .. Len(shown) : << i, k >> # focus' => Shows(shown[k], kept[k])
            /\ focus = None \/ focus[1] = i,
         IsText(func, i) => IsTextItem(shown)
  PROVE  PageInv'
<1>1. /\ func \in Names /\ form \in Seq(Shown) /\ func_params \in Seq(Kept)
      /\ Len(func_params) = Len(form) /\ Len(form) \in Nat
  BY DEF PageInv, FormInv
<1>2. /\ form' \in Seq(Shown) /\ Len(form') = Len(form)
      /\ form'[i] = shown /\ \A j \in 1 .. Len(form) : j # i => form'[j] = form[j]
  BY <1>1
<1>3. /\ func_params' \in Seq(Kept) /\ Len(func_params') = Len(form)
      /\ \A j \in 1 .. Len(form) : j # i => func_params'[j] = func_params[j]
  <2>1. CASE func_params' = func_params
    BY <1>1, <2>1
  <2>2. CASE func_params' = [func_params EXCEPT ![i] = kept] /\ kept \in Seq(Texts)
    BY <1>1, <2>2 DEF Kept
  <2>3. QED
    BY <2>1, <2>2
<1>4. /\ \A j : IsText(func, j)' = IsText(func, j)
      /\ \A j : IsList(func, j)' = IsList(func, j)
  BY DEF IsText, IsList, In
<1>5. FormInv'
  BY <1>2, <1>3 DEF PageInv, FormInv
<1>6. IsList(func, i) =>
        /\ shown \in Seq(Inputs)
        /\ func_params'[i] \in Seq(Texts)
        /\ Len(func_params'[i]) = Len(shown)
        /\ \A k \in 1 .. Len(shown) : << i, k >> # focus' => Shows(shown[k], func_params'[i][k])
  <2>1. SUFFICES ASSUME IsList(func, i)
                 PROVE  /\ shown \in Seq(Inputs)
                        /\ func_params'[i] \in Seq(Texts)
                        /\ Len(func_params'[i]) = Len(shown)
                        /\ \A k \in 1 .. Len(shown) :
                              << i, k >> # focus' => Shows(shown[k], func_params'[i][k])
    OBVIOUS
  <2>2. func_params' = [func_params EXCEPT ![i] = kept]
    BY <2>1
  <2>3. func_params'[i] = kept
    BY <1>1, <2>2
  <2>4. QED
    BY <2>1, <2>3
<1>7. ItemsInv'
  <2>1. SUFFICES ASSUME NEW j \in 1 .. Len(form)
                 PROVE  /\ IsText(func, j) => IsTextItem(form'[j])
                        /\ IsList(func, j) => form'[j] \in Seq(Inputs)
                                              /\ func_params'[j] \in Seq(Texts)
    BY <1>2, <1>4 DEF ItemsInv, IsTextItem
  <2>2. CASE j = i
    BY <1>2, <1>6, <2>2
  <2>3. CASE j # i
    BY <1>2, <1>3, <2>3 DEF PageInv, ItemsInv
  <2>4. QED
    BY <2>2, <2>3
<1>8. FocusInv'
  <2>1. SUFFICES ASSUME focus' # None
                 PROVE  /\ focus' \in Nat \X Nat
                        /\ focus'[1] \in 1 .. Len(form)
                        /\ IsList(func, focus'[1])
                        /\ focus'[2] \in 1 .. Len(form'[focus'[1]])
                        /\ form'[focus'[1]][focus'[2]] \in Texts
    BY <1>2, <1>4 DEF FocusInv
  <2>2. CASE ~ IsList(func, i)
    <3>1. focus' = focus /\ FocusInv
      BY <2>2 DEF PageInv
    <3>2. focus[1] # i
      BY <2>1, <2>2, <3>1 DEF FocusInv
    <3>3. QED
      BY <1>2, <2>1, <3>1, <3>2 DEF FocusInv
  <2>3. CASE IsList(func, i)
    BY <1>2, <2>1, <2>3
  <2>4. QED
    BY <2>2, <2>3
<1>9. DisplayedIsKept'
  <2>1. SUFFICES ASSUME NEW j \in 1 .. Len(form), IsList(func, j)
                 PROVE  /\ Len(form'[j]) = Len(func_params'[j])
                        /\ \A k \in 1 .. Len(form'[j]) :
                              << j, k >> # focus' => Shows(form'[j][k], func_params'[j][k])
    BY <1>2, <1>4 DEF DisplayedIsKept, Shows
  <2>2. CASE j = i
    BY <1>2, <1>6, <2>1, <2>2
  <2>3. CASE j # i
    <3>1. form'[j] = form[j] /\ func_params'[j] = func_params[j]
      BY <1>2, <1>3, <2>3
    <3>2. /\ Len(form[j]) = Len(func_params[j])
          /\ \A k \in 1 .. Len(form[j]) :
                << j, k >> # focus => Shows(form[j][k], func_params[j][k])
      BY <2>1 DEF PageInv, DisplayedIsKept, Shows
    <3>3. ASSUME NEW k \in 1 .. Len(form[j]), << j, k >> # focus'
          PROVE  << j, k >> # focus \/ Shows(form[j][k], func_params[j][k])
      <4>1. CASE focus' = focus
        BY <3>3, <4>1
      <4>2. CASE focus = None \/ focus[1] = i
        <5>1. None # << j, k >>
          BY NotNone, <1>1, <3>3
        <5>2. QED
          BY <2>3, <4>2, <5>1
      <4>3. QED
        BY <4>1, <4>2
    <3>4. QED
      BY <3>1, <3>2, <3>3
  <2>4. QED
    BY <2>2, <2>3
<1>10. QED
  BY <1>5, <1>7, <1>8, <1>9 DEF PageInv

LEMMA InForm == ASSUME PageInv, NEW i \in 1 .. Len(form)
                PROVE  /\ form[i] \in Shown /\ i \in 1 .. Len(func_params) /\ func_params[i] \in Kept
                       /\ func_params = [func_params EXCEPT ![i] = func_params[i]]
                       /\ IsList(func, i) =>
                             /\ form[i] \in Seq(Inputs) /\ func_params[i] \in Seq(Texts)
                             /\ Len(form[i]) = Len(func_params[i])
                             /\ \A k \in 1 .. Len(form[i]) :
                                   << i, k >> # focus => Shows(form[i][k], func_params[i][k])
<1>1. form[i] \in Shown /\ i \in 1 .. Len(func_params) /\ func_params[i] \in Kept
  BY DEF PageInv, FormInv
<1>2. func_params = [func_params EXCEPT ![i] = func_params[i]]
  BY <1>1 DEF PageInv, FormInv
<1>3. ASSUME IsList(func, i)
      PROVE  /\ form[i] \in Seq(Inputs) /\ func_params[i] \in Seq(Texts)
             /\ Len(form[i]) = Len(func_params[i])
             /\ \A k \in 1 .. Len(form[i]) :
                   << i, k >> # focus => Shows(form[i][k], func_params[i][k])
  BY <1>3 DEF PageInv, ItemsInv, DisplayedIsKept, Shows
<1>4. QED
  BY <1>1, <1>2, <1>3

LEMMA TypeTextPage ==
  ASSUME PageInv, NEW i \in 1 .. Len(form), NEW t \in Texts, TypeText(i, t) PROVE PageInv'
<1>1. /\ UNCHANGED << name, func, func_params, focus >>
      /\ form' = [form EXCEPT ![i] = << t >>] /\ IsText(func, i)
  BY DEF TypeText
<1>2. ~ IsList(func, i)
  BY <1>1, TextIsNoList
<1>3. << t >> \in Shown /\ IsTextItem(<< t >>)
  <2>1. << t >> \in Seq(Inputs) /\ Len(<< t >>) = 1 /\ << t >>[1] = t
    BY TextsAreInputs
  <2>2. QED
    BY <2>1 DEF Shown, IsTextItem
<1>4. QED
  BY <1>1, <1>2, <1>3, ItemStep

LEMMA TypeStringPage ==
  ASSUME PageInv, NEW i \in 1 .. Len(form), NEW k, NEW t \in Texts, TypeString(i, k, t)
  PROVE  PageInv'
<1> DEFINE shown == [form[i] EXCEPT ![k] = t]
           kept == func_params[i]
<1>1. /\ UNCHANGED << name, func, func_params >>
      /\ form' = [form EXCEPT ![i] = shown] /\ IsList(func, i)
      /\ focus' = << i, k >> /\ focus \in {None, << i, k >>} /\ k \in DOMAIN form[i]
  BY DEF TypeString
<1>2. /\ form[i] \in Seq(Inputs) /\ kept \in Seq(Texts) /\ Len(form[i]) = Len(kept)
      /\ \A j \in 1 .. Len(form[i]) : << i, j >> # focus => Shows(form[i][j], kept[j])
      /\ func_params = [func_params EXCEPT ![i] = kept]
  BY <1>1, InForm
<1>3. k \in 1 .. Len(form[i])
  BY <1>1, <1>2
<1>4. /\ shown \in Seq(Inputs) /\ Len(shown) = Len(form[i]) /\ shown[k] = t
      /\ \A j \in 1 .. Len(form[i]) : j # k => shown[j] = form[i][j]
  BY <1>2, <1>3, TextsAreInputs
<1>5. shown \in Shown /\ ~ IsText(func, i)
  BY <1>1, <1>4, TextIsNoList DEF Shown
<1>6. focus = None \/ focus[1] = i
  BY <1>1
<1>7. ASSUME NEW j \in 1 .. Len(shown), << i, j >> # focus'
      PROVE  Shows(shown[j], kept[j])
  <2>1. j # k /\ << i, j >> # << i, k >>
    BY <1>1, <1>7
  <2>2. << i, j >> # focus
    <3>1. Len(form) \in Nat
      BY DEF PageInv, FormInv
    <3>2. << i, j >> # None
      BY <1>2, <1>4, <3>1, NotNone
    <3>3. QED
      BY <1>1, <2>1, <3>2
  <2>3. Shows(form[i][j], kept[j])
    BY <1>2, <1>4, <2>2
  <2>4. QED
    BY <1>4, <2>1, <2>3
<1>8. /\ Len(form) \in Nat /\ focus' \in Nat \X Nat /\ focus'[1] = i
      /\ focus'[2] \in 1 .. Len(shown) /\ shown[focus'[2]] \in Texts
  BY <1>1, <1>2, <1>3, <1>4 DEF PageInv, FormInv
<1>9. func_params' = [func_params EXCEPT ![i] = kept]
  BY <1>1, <1>2
<1>10. Len(shown) = Len(kept) /\ kept \in Seq(Texts)
  BY <1>2, <1>4
<1> HIDE DEF shown, kept
<1>11. QED
  BY <1>1, <1>4, <1>5, <1>6, <1>7, <1>8, <1>9, <1>10, ItemStep

LEMMA ChangePage == ASSUME PageInv, onChange PROVE PageInv'
<1> DEFINE i == focus[1]
           k == focus[2]
           kept == [func_params[i] EXCEPT ![k] = form[i][k]]
<1>1. /\ focus # None /\ focus' = None /\ UNCHANGED << name, func, form >>
      /\ func_params' = [func_params EXCEPT ![i] = kept]
  BY DEF onChange
<1>2. /\ focus \in Nat \X Nat /\ i \in 1 .. Len(form) /\ IsList(func, i)
      /\ k \in 1 .. Len(form[i]) /\ form[i][k] \in Texts
  BY <1>1 DEF PageInv, FocusInv
<1>3. focus = << i, k >>
  BY <1>2
<1>4. /\ form[i] \in Seq(Inputs) /\ func_params[i] \in Seq(Texts) /\ form[i] \in Shown
      /\ Len(form[i]) = Len(func_params[i])
      /\ \A j \in 1 .. Len(form[i]) : << i, j >> # focus => Shows(form[i][j], func_params[i][j])
  BY <1>2, InForm
<1>5. form \in Seq(Shown)
  BY DEF PageInv, FormInv
<1>6. /\ kept \in Seq(Texts) /\ Len(form[i]) = Len(kept) /\ kept[k] = form[i][k]
      /\ \A j \in 1 .. Len(form[i]) : j # k => kept[j] = func_params[i][j]
  BY <1>2, <1>4
<1>7. ASSUME NEW j \in 1 .. Len(form[i]) PROVE Shows(form[i][j], kept[j])
  <2>1. CASE j = k
    BY <1>6, <2>1 DEF Shows
  <2>2. CASE j # k
    <3>1. << i, j >> # focus
      BY <1>3, <2>2
    <3>2. QED
      BY <1>4, <1>6, <2>2, <3>1
  <2>3. QED
    BY <2>1, <2>2
<1>8. form' = [form EXCEPT ![i] = form[i]]
  BY <1>1, <1>2, <1>5
<1>9. ~ IsText(func, i)
  BY <1>2, TextIsNoList
<1> HIDE DEF i, k, kept
<1>10. focus[1] = i
  BY DEF i
<1>11. QED
  BY <1>1, <1>2, <1>4, <1>6, <1>7, <1>8, <1>9, <1>10, ItemStep

\* the list is changed in the script and drawn again
LEMMA ListPage ==
  ASSUME PageInv, NEW i \in 1 .. Len(form), IsList(func, i), focus = None,
         NEW strings \in Seq(Texts),
         func_params' = [func_params EXCEPT ![i] = strings],
         genStringList(i, func_params'[i]), UNCHANGED << name, func, focus >>
  PROVE  PageInv'
<1>1. func_params \in Seq(Kept) /\ i \in 1 .. Len(func_params)
  BY InForm DEF PageInv, FormInv
<1>2. genStringList(i, strings)
  <2>1. func_params'[i] = strings
    BY <1>1
  <2>2. QED
    BY <2>1
<1> DEFINE n == Len(strings)
           g(k) == Drawn(strings[k])
           shown == [k \in 1 .. n |-> g(k)]
<1>3. form' = [form EXCEPT ![i] = shown]
  BY <1>2 DEF genStringList
<1>4. n \in Nat /\ \A k \in 1 .. n : strings[k] \in Texts /\ g(k) \in Inputs
  BY TextsAreInputs
<1>5. \A k \in 1 .. n : shown[k] = g(k) /\ Shows(g(k), strings[k])
  BY DEF Shows
<1> HIDE DEF g, n
<1>6. shown \in Seq(Inputs) /\ Len(shown) = n
  BY <1>4
<1> HIDE DEF shown
<1>7. /\ Len(shown) = Len(strings)
      /\ \A k \in 1 .. Len(shown) : Shows(shown[k], strings[k])
  BY <1>5, <1>6 DEF n
<1>8. shown \in Shown /\ ~ IsText(func, i)
  BY <1>6, TextIsNoList DEF Shown
<1>9. QED
  BY <1>3, <1>6, <1>7, <1>8, ItemStep

LEMMA RemovedType ==
  ASSUME NEW S, NEW s \in Seq(S), NEW k \in 1 .. Len(s) PROVE RemoveAt(s, k) \in Seq(S)
<1>1. SubSeq(s, 1, k - 1) \in Seq(S)
  BY SubSeqProperties
<1>2. SubSeq(s, k + 1, Len(s)) \in Seq(S)
  BY SubSeqProperties
<1>3. QED
  BY <1>1, <1>2, ConcatProperties DEF RemoveAt

LEMMA AddStringPage ==
  ASSUME PageInv, NEW i \in 1 .. Len(form), addString(i) PROVE PageInv'
<1>1. /\ focus = None /\ IsList(func, i) /\ UNCHANGED << name, func, focus >>
      /\ func_params' = [func_params EXCEPT ![i] = Append(func_params[i], << >>)]
      /\ genStringList(i, func_params'[i])
  BY DEF addString
<1>2. Append(func_params[i], << >>) \in Seq(Texts)
  BY <1>1, InForm, ClientAssumption
<1>3. QED
  BY <1>1, <1>2, ListPage

LEMMA RemoveStringPage ==
  ASSUME PageInv, NEW i \in 1 .. Len(form), NEW k, removeString(i, k) PROVE PageInv'
<1>1. /\ focus = None /\ IsList(func, i) /\ UNCHANGED << name, func, focus >>
      /\ func_params' = [func_params EXCEPT ![i] = RemoveAt(func_params[i], k)]
      /\ genStringList(i, func_params'[i]) /\ k \in DOMAIN form[i]
  BY DEF removeString
<1>2. /\ form[i] \in Seq(Inputs) /\ func_params[i] \in Seq(Texts)
      /\ Len(form[i]) = Len(func_params[i])
  BY <1>1, InForm
<1>3. k \in 1 .. Len(func_params[i])
  BY <1>1, <1>2
<1>4. RemoveAt(func_params[i], k) \in Seq(Texts)
  BY <1>2, <1>3, RemovedType
<1>5. QED
  BY <1>1, <1>4, ListPage

LEMMA ChoicesType == FileChoices \subseteq Shown
  BY ClientAssumption DEF FileChoices, SeqOf, Shown

LEMMA ChangeBlobPage ==
  ASSUME PageInv, NEW i \in 1 .. Len(form), NEW files \in FileChoices, changeBlob(i, files)
  PROVE  PageInv'
<1>1. /\ IsBlobs(func, i) /\ UNCHANGED << name, func, func_params, focus >>
      /\ form' = [form EXCEPT ![i] = files]
  BY DEF changeBlob
<1>2. ~ IsText(func, i) /\ ~ IsList(func, i) /\ files \in Shown
  BY <1>1, TextIsNoList, ChoicesType
<1>3. QED
  BY <1>1, <1>2, ItemStep

LEMMA SamePage == ASSUME PageInv, UNCHANGED formVars PROVE PageInv'
<1>1. UNCHANGED << name, func, func_params, form, focus >>
  BY DEF formVars
<1>2. /\ \A j : IsText(func, j)' = IsText(func, j)
      /\ \A j : IsList(func, j)' = IsList(func, j)
  BY <1>1 DEF IsText, IsList, In
<1>3. FormInv' /\ ItemsInv'
  BY <1>1, <1>2 DEF PageInv, FormInv, ItemsInv
<1>4. FocusInv' /\ DisplayedIsKept'
  BY <1>1, <1>2 DEF PageInv, FocusInv, DisplayedIsKept
<1>5. QED
  BY <1>3, <1>4 DEF PageInv

LEMMA InitPage == Init => PageInv
<1>1. SUFFICES ASSUME Init PROVE PageInv
  OBVIOUS
<1>2. /\ name = First /\ func = First /\ func_params = NewParams(First)
      /\ form = NewForm(First) /\ focus = None /\ First \in Names
  BY <1>1, ClientAssumption DEF Init
<1>3. FormInv
  BY <1>2, NewFormType DEF FormInv
<1>4. ItemsInv
  BY <1>2, NewFormType, EmptyItems, TextIsNoList DEF ItemsInv
<1>5. DisplayedIsKept
  <2>1. SUFFICES ASSUME NEW i \in 1 .. Len(form), IsList(func, i)
                 PROVE  form[i] = << >> /\ func_params[i] = << >>
    BY DEF DisplayedIsKept
  <2>2. QED
    BY <1>2, <2>1, NewFormType, TextIsNoList
<1>6. QED
  BY <1>2, <1>3, <1>4, <1>5 DEF PageInv, FocusInv

LEMMA EditPage == ASSUME PageInv, EditForm PROVE PageInv'
<1>1. CASE onChange
  BY <1>1, ChangePage
<1>2. ASSUME NEW i \in 1 .. Len(form), NEW t \in Texts, TypeText(i, t) PROVE PageInv'
  BY <1>2, TypeTextPage
<1>3. ASSUME NEW i \in 1 .. Len(form), CheckEscapes(i) PROVE PageInv'
  <2>1. UNCHANGED << name, func, func_params, form, focus >>
    BY <1>3 DEF CheckEscapes
  <2>2. /\ i \in 1 .. Len(form) /\ form[i] \in Shown /\ form \in Seq(Shown)
        /\ ~ IsList(func, i)
    BY <1>3, InForm, TextIsNoList DEF CheckEscapes, PageInv, FormInv
  <2>3. form' = [form EXCEPT ![i] = form[i]]
    BY <2>1, <2>2
  <2>4. IsText(func, i) => IsTextItem(form[i])
    BY DEF PageInv, ItemsInv
  <2>5. QED
    BY <2>1, <2>2, <2>3, <2>4, ItemStep
<1>4. ASSUME NEW i \in 1 .. Len(form), NEW k, NEW t \in Texts, TypeString(i, k, t)
      PROVE  PageInv'
  BY <1>4, TypeStringPage
<1>5. ASSUME NEW i \in 1 .. Len(form), addString(i) PROVE PageInv'
  BY <1>5, AddStringPage
<1>6. ASSUME NEW i \in 1 .. Len(form), NEW k, removeString(i, k) PROVE PageInv'
  BY <1>6, RemoveStringPage
<1>7. ASSUME NEW i \in 1 .. Len(form), NEW files \in FileChoices, changeBlob(i, files)
      PROVE  PageInv'
  BY <1>7, ChangeBlobPage
<1>8. QED
  BY <1>1, <1>2, <1>3, <1>4, <1>5, <1>6, <1>7 DEF EditForm

LEMMA PageStep == ASSUME PageInv, [Next]_vars PROVE PageInv'
<1>1. ASSUME NEW f \in Names, Select(f) PROVE PageInv'
  BY <1>1, PreparePage DEF Select
<1>2. CASE EditForm
  BY <1>2, EditPage
<1>3. CASE FileRead
  BY <1>3, SamePage DEF FileRead, onload, ReaderFails
<1>4. ASSUME NEW state, button_click(state) PROVE PageInv'
  BY <1>4, SamePage DEF button_click
<1>5. CASE Answered
  <2>1. ASSUME NEW c, NEW what, done(c, what) PROVE PageInv'
    <3>1. name' = name /\ name \in Names /\ prepare_call(name)
      BY <2>1 DEF done, PageInv, FormInv
    <3>2. QED
      BY <3>1, PreparePage
  <2>2. ASSUME NEW c, doneThrows(c) \/ fail(c) PROVE PageInv'
    BY <2>2, SamePage DEF doneThrows, fail
  <2>3. QED
    BY <1>5, <2>1, <2>2 DEF Answered
<1>6. CASE UNCHANGED vars
  BY <1>6, SamePage DEF vars
<1>7. QED
  BY <1>1, <1>2, <1>3, <1>4, <1>5, <1>6 DEF Next

LEMMA PageInvHolds == Spec => []PageInv
  BY InitPage, PageStep, PTL DEF Spec

(* For any signatures and texts, a list shows an input for each string of  *)
(* the script, in its place, with the string or with what the browser has  *)
(* drawn of it, however strings are added, removed and edited while forms  *)
(* are made anew by answers (interactive.js:34-36, 42-80, 330-338): a new  *)
(* form comes with new func_params, and a list that is drawn again is      *)
(* drawn from what is kept.                                                *)
THEOREM DisplayedIsKeptHolds == Spec => []DisplayedIsKept
<1>1. PageInv => DisplayedIsKept
  BY DEF PageInv
<1>2. QED
  BY <1>1, PageInvHolds, PTL

-----------------------------------------------------------------------------
(* Calls *)

\* the texts that a request may have for a text of the form
Sendable ==
    Texts \cup {de_backslash(t) : t \in Texts} \cup {<< >>, Undefined, de_backslash(Undefined)}

Kinds == {"OutputParam", "text", "list", "blobs", "undefined", "Unknown"}

\* a request as far as the proof looks at it
Request == [method : Names, params : Seq([kind : Kinds, text : Sendable]),
            state : {"pending", "failed at once", "failed", "answered"}]

CallsInv ==
    /\ calls \in Seq(Request)
    /\ Len(calls) = call_ID
    /\ resultpre \in [base : {"Banana!", "sent", "answer", "cklickiii"},
                      id : Nat, errors : SUBSET Nat]
    /\ resultpre.base = "sent" => resultpre.id \in 1 .. Len(calls)

LEMMA Form2ParamType ==
  ASSUME PageInv, NEW i \in 1 .. Len(form)
  PROVE  Form2Param(i) \in [kind : Kinds, text : Sendable]
<1>1. IsText(func, i) => TextOf(i) \in Sendable
  <2>1. SUFFICES ASSUME IsText(func, i) PROVE TextOf(i) \in Sendable
    OBVIOUS
  <2>2. form[i][1] \in Texts \cup {Undefined}
    BY <2>1 DEF PageInv, ItemsInv, IsTextItem
  <2>3. QED
    BY <2>2, Zenon DEF TextOf, Sendable
<1>2. << >> \in Sendable
  BY DEF Sendable
<1>3. QED
  BY <1>1, <1>2 DEF Form2Param, Kinds

LEMMA ParamsType ==
  ASSUME PageInv
  PROVE  /\ Len(Sig[func]) \in Nat /\ Len(form) = Len(Sig[func])
         /\ [i \in 1 .. Len(Sig[func]) |-> Form2Param(i)] \in Seq([kind : Kinds, text : Sendable])
         /\ Len([i \in 1 .. Len(Sig[func]) |-> Form2Param(i)]) = Len(Sig[func])
<1>1. Len(Sig[func]) \in Nat /\ Len(form) = Len(Sig[func])
  BY DEF PageInv, FormInv
<1> DEFINE n == Len(Sig[func])
           S == [kind : Kinds, text : Sendable]
           g(i) == Form2Param(i)
<1>2. n \in Nat /\ \A i \in 1 .. n : g(i) \in S
  BY <1>1, Form2ParamType
<1> HIDE DEF n, S, g
<1>3. [i \in 1 .. n |-> g(i)] \in Seq(S) /\ Len([i \in 1 .. n |-> g(i)]) = n
  BY <1>2
<1>4. QED
  BY <1>1, <1>3 DEF n, S, g

SentStates == {"pending", "failed at once"}

\* a click on the button
LEMMA ClickStep ==
  ASSUME PageInv, CallsInv, NEW state \in SentStates, button_click(state)
  PROVE  CallsInv' /\ FieldIsTrue'
<1> DEFINE c == [method |-> name, state |-> state,
                 params |-> [i \in 1 .. Len(Sig[func]) |-> Form2Param(i)]]
<1>1. /\ calls' = Append(calls, c) /\ call_ID' = call_ID + 1
      /\ resultpre' = [base |-> "sent", id |-> call_ID', errors |-> {}]
  BY DEF button_click
<1>2. c \in Request /\ c.state = state
  BY ParamsType DEF Request, SentStates, PageInv, FormInv
<1> HIDE DEF c
<1>3. calls \in Seq(Request) /\ Len(calls) = call_ID /\ Len(calls) \in Nat
  BY LenProperties DEF CallsInv
<1>4. /\ calls' \in Seq(Request) /\ Len(calls') = Len(calls) + 1
      /\ calls'[Len(calls) + 1] = c
  BY <1>1, <1>2, <1>3, AppendProperties
<1>5. /\ Len(calls') = call_ID' /\ calls'[call_ID'] = c
      /\ call_ID' \in Nat /\ call_ID' \in 1 .. call_ID'
  <2>1. call_ID' = Len(calls) + 1
    BY <1>1, <1>3
  <2>2. QED
    BY <1>3, <1>4, <2>1
<1>6. CallsInv'
  <2>1. resultpre' \in [base : {"Banana!", "sent", "answer", "cklickiii"},
                        id : Nat, errors : SUBSET Nat]
    BY <1>1, <1>5
  <2>2. resultpre'.id = call_ID'
    BY <1>1
  <2>3. QED
    BY <1>4, <1>5, <2>1, <2>2 DEF CallsInv
<1>7. FieldIsTrue'
  BY <1>1, <1>2, <1>5 DEF FieldIsTrue, SentStates
<1>8. QED
  BY <1>6, <1>7

\* an answer of any kind
LEMMA AnswerStep ==
  ASSUME CallsInv, FieldIsTrue, NEW c \in 1 .. Len(calls), NEW s \in {"failed", "answered"},
         calls' = [calls EXCEPT ![c].state = s], call_ID' = call_ID,
         \/ s = "answered" /\ \E what \in {"answer", "cklickiii"} : displayResult(c, what)
         \/ s = "failed" /\ resultpre' = [resultpre EXCEPT !.errors = @ \cup {c}]
  PROVE  CallsInv' /\ FieldIsTrue'
<1>1. calls \in Seq(Request) /\ Len(calls) \in Nat /\ calls[c] \in Request
  BY DEF CallsInv
<1> DEFINE answered == [calls[c] EXCEPT !.state = s]
<1>2. answered \in Request /\ answered.state = s
  BY <1>1 DEF Request
<1>3. calls' = [calls EXCEPT ![c] = answered]
  OBVIOUS
<1> HIDE DEF answered
<1>4. /\ calls' \in Seq(Request) /\ Len(calls') = Len(calls) /\ calls'[c] = answered
      /\ \A d \in 1 .. Len(calls) : d # c => calls'[d] = calls[d]
  BY <1>1, <1>2, <1>3
<1>5. CASE s = "answered" /\ \E what \in {"answer", "cklickiii"} : displayResult(c, what)
  <2>1. PICK what \in {"answer", "cklickiii"} :
           resultpre' = [base |-> what, id |-> c, errors |-> {}]
    BY <1>5 DEF displayResult
  <2>2. resultpre'.base # "sent" /\ c \in Nat
    BY <1>1, <2>1
  <2>3. CallsInv'
    BY <1>4, <2>1, <2>2 DEF CallsInv
  <2>4. QED
    BY <2>2, <2>3 DEF FieldIsTrue
<1>6. CASE s = "failed" /\ resultpre' = [resultpre EXCEPT !.errors = @ \cup {c}]
  <2>1. /\ resultpre'.base = resultpre.base /\ resultpre'.id = resultpre.id
        /\ resultpre'.errors = resultpre.errors \cup {c}
        /\ resultpre' \in [base : {"Banana!", "sent", "answer", "cklickiii"},
                           id : Nat, errors : SUBSET Nat]
    BY <1>1, <1>6 DEF CallsInv
  <2>2. CallsInv'
    BY <1>4, <2>1 DEF CallsInv
  <2>3. FieldIsTrue'
    <3>1. SUFFICES ASSUME resultpre.base = "sent"
                   PROVE  \/ calls'[resultpre.id].state \in {"pending", "failed at once"}
                          \/ calls'[resultpre.id].state = "failed"
                             /\ resultpre.id \in resultpre.errors \cup {c}
      BY <2>1 DEF FieldIsTrue
    <3>2. CASE resultpre.id = c
      BY <1>2, <1>4, <1>6, <3>2
    <3>3. CASE resultpre.id # c
      BY <1>4, <3>1, <3>3 DEF FieldIsTrue, CallsInv
    <3>4. QED
      BY <3>2, <3>3
  <2>4. QED
    BY <2>2, <2>3
<1>7. QED
  BY <1>5, <1>6

LEMMA SameCalls ==
  ASSUME CallsInv, FieldIsTrue, UNCHANGED << call_ID, calls, resultpre >>
  PROVE  CallsInv' /\ FieldIsTrue'
  BY DEF CallsInv, FieldIsTrue

LEMMA CallsStep ==
  ASSUME PageInv, CallsInv, FieldIsTrue, [Next]_vars PROVE CallsInv' /\ FieldIsTrue'
<1>1. ASSUME NEW f \in Names, Select(f) PROVE CallsInv' /\ FieldIsTrue'
  BY <1>1, SameCalls DEF Select
<1>2. CASE EditForm
  <2>1. UNCHANGED << call_ID, calls, resultpre >>
    BY <1>2 DEF EditForm, onChange, TypeText, CheckEscapes, TypeString, addString,
                removeString, changeBlob
  <2>2. QED
    BY <2>1, SameCalls
<1>3. CASE FileRead
  BY <1>3, SameCalls DEF FileRead, onload, ReaderFails
<1>4. ASSUME NEW state \in SentStates, button_click(state) PROVE CallsInv' /\ FieldIsTrue'
  BY <1>4, ClickStep
<1>5. CASE Answered
  <2>1. ASSUME NEW c \in 1 .. Len(calls), NEW what \in {"answer", "cklickiii"}, done(c, what)
        PROVE  CallsInv' /\ FieldIsTrue'
    BY <2>1, AnswerStep DEF done
  <2>2. ASSUME NEW c \in 1 .. Len(calls), doneThrows(c) PROVE CallsInv' /\ FieldIsTrue'
    BY <2>2, AnswerStep DEF doneThrows
  <2>3. ASSUME NEW c \in 1 .. Len(calls), fail(c) PROVE CallsInv' /\ FieldIsTrue'
    BY <2>3, AnswerStep DEF fail
  <2>4. QED
    BY <1>5, <2>1, <2>2, <2>3 DEF Answered
<1>6. CASE UNCHANGED vars
  BY <1>6, SameCalls DEF vars
<1>7. QED
  BY <1>1, <1>2, <1>3, <1>4, <1>5, <1>6 DEF Next, SentStates

LEMMA CallsInit == Init => CallsInv /\ FieldIsTrue
  BY DEF Init, CallsInv, FieldIsTrue

(* The result field never says that a call was sent when its answer has    *)
(* come, and shows its failure, for any number of calls and any order of   *)
(* their answers (interactive.js:410-426, 469-507): only a click writes    *)
(* "sent", and every answer writes over it or adds its failure.            *)
THEOREM FieldIsTrueHolds == Spec => []FieldIsTrue
  BY CallsInit, CallsStep, PageInvHolds, PTL DEF Spec

-----------------------------------------------------------------------------
(* Parameters *)

\* what the user means by an escape sequence is what de_backslash makes of it, and
\* "undefined" has none
EscapesMeant ==
    /\ \A t \in Texts : Meant[t] = de_backslash(t)
    /\ de_backslash(Undefined) = Undefined

LEMMA ParamFits ==
  ASSUME PageInv, EscapesMeant, NEW i \in 1 .. Len(Sig[name])
  PROVE  Fits(Form2Param(i), Sig[name][i])
<1>1. func = name /\ i \in 1 .. Len(form)
  BY DEF PageInv, FormInv
<1> DEFINE sig == Sig[func][i]
<1>2. IsText(func, i) => \E t \in Texts : TextOf(i) \in {t, Meant[t], Undefined}
  <2>1. SUFFICES ASSUME IsText(func, i)
                 PROVE  \E t \in Texts : TextOf(i) \in {t, Meant[t], Undefined}
    OBVIOUS
  <2>2. form[i][1] \in Texts \cup {Undefined}
    BY <1>1, <2>1 DEF PageInv, ItemsInv, IsTextItem
  <2>3. CASE form[i][1] \in Texts
    <3>1. TextOf(i) \in {form[i][1], Meant[form[i][1]]}
      BY <2>3, Zenon DEF TextOf, EscapesMeant
    <3>2. QED
      BY <2>3, <3>1
  <2>4. CASE form[i][1] = Undefined
    <3>1. TextOf(i) = Undefined
      BY <2>4, Zenon DEF TextOf, EscapesMeant
    <3>2. << >> \in Texts
      BY ClientAssumption
    <3>3. QED
      BY <3>1, <3>2
  <2>5. QED
    BY <2>2, <2>3, <2>4
<1>3. CASE sig.dir = "Out"
  <2>1. Form2Param(i).kind = "OutputParam"
    BY <1>3 DEF Form2Param, In, IsText, IsList, IsBlobs
  <2>2. QED
    BY <1>1, <1>3, <2>1 DEF Fits
<1>4. CASE sig.dir # "Out" /\ sig.type = "text"
  <2>1. IsText(func, i) /\ In(func, i)
    BY <1>4 DEF IsText, In
  <2>2. Form2Param(i).kind = "text" /\ Form2Param(i).text = TextOf(i)
    BY <2>1, TextIsNoList DEF Form2Param
  <2>3. QED
    BY <1>1, <1>2, <1>4, <2>1, <2>2 DEF Fits
<1>5. CASE sig.dir # "Out" /\ sig.type = "list"
  <2>1. IsList(func, i) /\ In(func, i) /\ ~ IsText(func, i)
    BY <1>5 DEF IsList, IsText, In
  <2>2. Form2Param(i).kind = "list"
    BY <2>1, TextIsNoList DEF Form2Param
  <2>3. QED
    BY <1>1, <1>5, <2>2 DEF Fits
<1>6. CASE sig.dir # "Out" /\ sig.type = "blobs"
  <2>1. IsBlobs(func, i) /\ In(func, i) /\ ~ IsText(func, i) /\ ~ IsList(func, i)
    BY <1>6 DEF IsBlobs, IsList, IsText, In
  <2>2. Form2Param(i).kind \in {"blobs", "undefined"}
    BY <2>1 DEF Form2Param
  <2>3. QED
    BY <1>1, <1>6, <2>2 DEF Fits
<1>7. CASE sig.dir # "Out" /\ sig.type \notin {"text", "list", "blobs"}
  <2>1. In(func, i) /\ ~ IsText(func, i) /\ ~ IsList(func, i) /\ ~ IsBlobs(func, i)
    BY <1>7 DEF IsBlobs, IsList, IsText, In
  <2>2. Form2Param(i).kind = "Unknown"
    BY <2>1 DEF Form2Param
  <2>3. QED
    BY <1>1, <1>7, <2>2 DEF Fits
<1>8. QED
  BY <1>3, <1>4, <1>5, <1>6, <1>7

\* of a request, its parameters and the signature of its method
RequestInv(c) ==
    /\ Len(c.params) = Len(Sig[c.method])
    /\ \A i \in 1 .. Len(c.params) : Fits(c.params[i], Sig[c.method][i])

LEMMA RequestsFit == RequestFits <=> \A c \in 1 .. Len(calls) : RequestInv(calls[c])
  BY DEF RequestFits, RequestInv

LEMMA ClickFits ==
  ASSUME PageInv, EscapesMeant, CallsInv, RequestFits, NEW state, button_click(state)
  PROVE  RequestFits'
<1> DEFINE params == [i \in 1 .. Len(Sig[func]) |-> Form2Param(i)]
           c == [method |-> name, state |-> state, params |-> params]
<1>1. calls' = Append(calls, c)
  BY DEF button_click
<1>2. RequestInv(c)
  <2>1. func = name
    BY DEF PageInv, FormInv
  <2>2. Len(params) = Len(Sig[name])
    BY <2>1, ParamsType
  <2>3. \A i \in 1 .. Len(Sig[name]) : params[i] = Form2Param(i)
    BY <2>1
  <2>4. \A i \in 1 .. Len(Sig[name]) : Fits(params[i], Sig[name][i])
    BY <2>3, ParamFits
  <2>5. c.method = name /\ c.params = params
    OBVIOUS
  <2> HIDE DEF c, params
  <2>6. QED
    BY <2>2, <2>4, <2>5 DEF RequestInv
<1> HIDE DEF c
<1>3. calls \in Seq(Request) /\ Len(calls) \in Nat
  BY LenProperties DEF CallsInv
<1>4. \A d \in 1 .. Len(calls') :
         calls'[d] = c \/ (d \in 1 .. Len(calls) /\ calls'[d] = calls[d])
  BY <1>1, <1>3
<1>5. \A d \in 1 .. Len(calls') : RequestInv(calls'[d])
  BY <1>2, <1>4, RequestsFit
<1>6. QED
  BY <1>5 DEF RequestFits, RequestInv

\* an answer leaves the request as it was
LEMMA AnswerFits ==
  ASSUME CallsInv, RequestFits, NEW c \in 1 .. Len(calls), NEW s,
         calls' = [calls EXCEPT ![c].state = s]
  PROVE  RequestFits'
<1>1. calls \in Seq(Request) /\ calls[c] \in Request
  BY DEF CallsInv
<1> DEFINE answered == [calls[c] EXCEPT !.state = s]
<1>2. answered.method = calls[c].method /\ answered.params = calls[c].params
  BY <1>1 DEF Request
<1>3. calls' = [calls EXCEPT ![c] = answered]
  OBVIOUS
<1> HIDE DEF answered
<1>4. DOMAIN calls' = DOMAIN calls /\ Len(calls') = Len(calls)
  BY <1>1, <1>3
<1>5. \A d \in 1 .. Len(calls) :
         calls'[d].method = calls[d].method /\ calls'[d].params = calls[d].params
  BY <1>1, <1>2, <1>3
<1>6. QED
  BY <1>4, <1>5 DEF RequestFits

LEMMA FitsStep ==
  ASSUME PageInv, EscapesMeant, CallsInv, RequestFits, [Next]_vars PROVE RequestFits'
<1>1. CASE calls' = calls
  BY <1>1 DEF RequestFits
<1>2. CASE \E state : button_click(state)
  BY <1>2, ClickFits
<1>3. ASSUME NEW c \in 1 .. Len(calls), NEW what, done(c, what) PROVE RequestFits'
  BY <1>3, AnswerFits DEF done
<1>4. ASSUME NEW c \in 1 .. Len(calls), doneThrows(c) PROVE RequestFits'
  BY <1>4, AnswerFits DEF doneThrows
<1>5. ASSUME NEW c \in 1 .. Len(calls), fail(c) PROVE RequestFits'
  BY <1>5, AnswerFits DEF fail
<1>6. calls' = calls \/ (\E state : button_click(state)) \/ Answered
  <2>1. ASSUME NEW f \in Names, Select(f) PROVE calls' = calls
    BY <2>1 DEF Select
  <2>2. CASE EditForm
    BY <2>2 DEF EditForm, onChange, TypeText, CheckEscapes, TypeString, addString,
                removeString, changeBlob
  <2>3. CASE FileRead
    BY <2>3 DEF FileRead, onload, ReaderFails
  <2>4. CASE UNCHANGED vars
    BY <2>4 DEF vars
  <2>5. QED
    BY <2>1, <2>2, <2>3, <2>4 DEF Next
<1>7. QED
  BY <1>1, <1>2, <1>3, <1>4, <1>5, <1>6 DEF Answered

(* Every request has the parameters of the function that it names, for any *)
(* signatures: func is the selected function whenever the button can be    *)
(* clicked, although answers make forms anew (interactive.js:258-316,      *)
(* 449-467, 512-568).  What de_backslash makes of a text is assumed.       *)
THEOREM RequestFitsHolds == EscapesMeant => (Spec => []RequestFits)
<1> SUFFICES ASSUME EscapesMeant PROVE Spec => []RequestFits
  OBVIOUS
<1>1. Init => RequestFits
  BY DEF Init, RequestFits
<1>2. PageInv /\ CallsInv /\ FieldIsTrue /\ RequestFits /\ [Next]_vars => RequestFits'
  BY FitsStep
<1>3. Init => CallsInv /\ FieldIsTrue
  BY CallsInit
<1>4. PageInv /\ CallsInv /\ FieldIsTrue /\ [Next]_vars => CallsInv' /\ FieldIsTrue'
  BY CallsStep
<1>5. QED
  BY <1>1, <1>2, <1>3, <1>4, PageInvHolds, PTL DEF Spec

-----------------------------------------------------------------------------
(* Files *)

Reader == [nr : Nat, f : Files]

\* what is read and what has been read are files
FilesInv ==
    /\ readers \in Seq(Reader)
    /\ \A i \in DOMAIN fileInputs : fileInputs[i] \in Seq(Files)

InputInv(i) ==
    /\ IsInjective(There(i))
    /\ \A j, k \in Reading(i) : readers[j].f = readers[k].f => j = k
    /\ \A k \in Reading(i) : readers[k].f \in ToSet(form[i]) \ ToSet(There(i))
    /\ ToSet(There(i)) \subseteq ToSet(form[i])

LEMMA OnlyByInput ==
  OnlyTheChosen <=> (~ overlap => \A i \in 1 .. Len(form) : IsBlobs(func, i) => InputInv(i))
  BY DEF OnlyTheChosen, InputInv

LEMMA RemovedItems ==
  ASSUME NEW S, NEW s \in Seq(S), NEW k \in 1 .. Len(s)
  PROVE  /\ Len(RemoveAt(s, k)) = Len(s) - 1
         /\ \A j \in 1 .. Len(s) - 1 : RemoveAt(s, k)[j] = s[IF j < k THEN j ELSE j + 1]
<1>1. Len(s) \in Nat
  OBVIOUS
<1> DEFINE u == SubSeq(s, 1, k - 1)
           v == SubSeq(s, k + 1, Len(s))
<1>2. u \in Seq(S) /\ Len(u) = k - 1 /\ \A j \in 1 .. k - 1 : u[j] = s[j]
  BY <1>1
<1>3. v \in Seq(S) /\ Len(v) = Len(s) - k /\ \A j \in 1 .. Len(s) - k : v[j] = s[j + k]
  BY <1>1
<1>4. RemoveAt(s, k) = u \o v
  BY DEF RemoveAt
<1> HIDE DEF u, v
<1>5. /\ Len(u \o v) = Len(u) + Len(v)
      /\ \A j \in 1 .. Len(u) + Len(v) :
            (u \o v)[j] = IF j <= Len(u) THEN u[j] ELSE v[j - Len(u)]
  BY <1>2, <1>3, ConcatProperties
<1>6. ASSUME NEW j \in 1 .. Len(s) - 1
      PROVE  (u \o v)[j] = s[IF j < k THEN j ELSE j + 1]
  <2>1. CASE j < k
    BY <1>1, <1>2, <1>3, <1>5, <2>1
  <2>2. CASE ~ (j < k)
    <3>1. j - Len(u) \in 1 .. Len(s) - k /\ (j - Len(u)) + k = j + 1
      BY <1>1, <1>2, <2>2
    <3>2. (u \o v)[j] = v[j - Len(u)]
      BY <1>1, <1>2, <1>3, <1>5, <2>2
    <3>3. QED
      BY <1>3, <2>2, <3>1, <3>2
  <2>3. QED
    BY <2>1, <2>2
<1>7. QED
  BY <1>1, <1>2, <1>3, <1>4, <1>5, <1>6

LEMMA ThereType == ASSUME FilesInv, NEW i PROVE There(i) \in Seq(Files)
  BY DEF FilesInv, There

\* a reader has ended: the others are those that were there
LEMMA ReaderGone ==
  ASSUME FilesInv, NEW k \in 1 .. Len(readers), readers' = RemoveAt(readers, k), NEW i
  PROVE  /\ readers' \in Seq(Reader)
         /\ \A j \in Reading(i)' :
               \E m \in Reading(i) : m # k /\ m = (IF j < k THEN j ELSE j + 1)
                                     /\ j \in Nat /\ readers'[j] = readers[m]
<1>1. readers \in Seq(Reader) /\ Len(readers) \in Nat
  BY DEF FilesInv
<1>2. readers' \in Seq(Reader)
  BY <1>1, RemovedType
<1>3. Len(readers') = Len(readers) - 1
  BY <1>1, RemovedItems
<1>4. ASSUME NEW j \in Reading(i)'
      PROVE  \E m \in Reading(i) : m # k /\ m = (IF j < k THEN j ELSE j + 1)
                                   /\ j \in Nat /\ readers'[j] = readers[m]
  <2>1. j \in 1 .. Len(readers) - 1 /\ readers'[j].nr = i
    BY <1>1, <1>2, <1>3 DEF Reading
  <2> DEFINE m == IF j < k THEN j ELSE j + 1
  <2>2. m \in 1 .. Len(readers) /\ m # k
    BY <1>1, <2>1
  <2>3. readers'[j] = readers[m]
    BY <1>1, <2>1, RemovedItems
  <2>4. m \in Reading(i)
    BY <1>1, <2>1, <2>2, <2>3 DEF Reading
  <2>5. QED
    BY <2>1, <2>2, <2>3, <2>4
<1>5. QED
  BY <1>2, <1>4

LEMMA OnloadInput ==
  ASSUME FilesInv, NEW k \in 1 .. Len(readers), onload(k), NEW i, InputInv(i)
  PROVE  InputInv(i)'
<1>1. readers' = RemoveAt(readers, k) /\ form' = form
  BY DEF onload, formVars
<1> DEFINE r == readers[k]
<1>2. readers \in Seq(Reader) /\ r \in Reader /\ Len(readers) \in Nat
  BY DEF FilesInv
<1>3. There(i) \in Seq(Files)
  BY ThereType
<1>4. \/ There(i)' = There(i)
      \/ There(i)' = Append(There(i), r.f) /\ k \in Reading(i)
  BY <1>2 DEF onload, There, Reading
<1>5. \A j, l \in Reading(i)' : readers'[j].f = readers'[l].f => j = l
  <2>1. SUFFICES ASSUME NEW j \in Reading(i)', NEW l \in Reading(i)',
                        readers'[j].f = readers'[l].f
                 PROVE  j = l
    OBVIOUS
  <2>2. PICK m \in Reading(i) : m # k /\ m = (IF j < k THEN j ELSE j + 1)
                                /\ j \in Nat /\ readers'[j] = readers[m]
    BY <1>1, ReaderGone
  <2>3. PICK n \in Reading(i) : n # k /\ n = (IF l < k THEN l ELSE l + 1)
                                /\ l \in Nat /\ readers'[l] = readers[n]
    BY <1>1, ReaderGone
  <2>4. m = n
    BY <2>1, <2>2, <2>3 DEF InputInv
  <2>5. QED
    BY <1>2, <2>2, <2>3, <2>4
<1>6. ASSUME NEW j \in Reading(i)'
      PROVE  readers'[j].f \in ToSet(form[i]) \ ToSet(There(i)')
  <2>1. PICK m \in Reading(i) : m # k /\ readers'[j] = readers[m]
    BY <1>1, ReaderGone
  <2>2. readers[m].f \in ToSet(form[i]) \ ToSet(There(i))
    BY <2>1 DEF InputInv
  <2>3. CASE There(i)' = There(i)
    BY <2>1, <2>2, <2>3
  <2>4. CASE There(i)' = Append(There(i), r.f) /\ k \in Reading(i)
    <3>1. readers[m].f # r.f
      BY <2>1, <2>4 DEF InputInv
    <3>2. ToSet(There(i)') \subseteq ToSet(There(i)) \cup {r.f}
      BY <1>3, <2>4, <1>2 DEF ToSet, Reader
    <3>3. QED
      BY <2>1, <2>2, <3>1, <3>2
  <2>5. QED
    BY <1>4, <2>3, <2>4
<1>7. IsInjective(There(i)') /\ ToSet(There(i)') \subseteq ToSet(form[i])
  <2>1. CASE There(i)' = There(i)
    BY <2>1 DEF InputInv
  <2>2. CASE There(i)' = Append(There(i), r.f) /\ k \in Reading(i)
    <3>1. r.f \in ToSet(form[i]) \ ToSet(There(i)) /\ r.f \in Files
      BY <1>2, <2>2 DEF InputInv, Reader
    <3>2. ToSet(There(i)') \subseteq ToSet(There(i)) \cup {r.f}
      BY <1>3, <2>2, <3>1 DEF ToSet
    <3>3. IsInjective(There(i)) /\ ToSet(There(i)) \subseteq ToSet(form[i])
      BY DEF InputInv
    <3> DEFINE t == There(i)
    <3>4. t \in Seq(Files) /\ Len(t) \in Nat
      BY <1>3
    <3>5. \A a \in 1 .. Len(t) : t[a] # r.f
      BY <3>1, <3>4 DEF ToSet
    <3>6. \A a, b \in 1 .. Len(t) : t[a] = t[b] => a = b
      BY <3>3, <3>4 DEF IsInjective
    <3> HIDE DEF t, r
    <3>7. IsInjective(Append(t, r.f))
      BY <3>1, <3>4, <3>5, <3>6 DEF IsInjective
    <3>8. QED
      BY <2>2, <3>1, <3>2, <3>3, <3>7 DEF t
  <2>3. QED
    BY <1>4, <2>1, <2>2
<1>8. QED
  BY <1>1, <1>5, <1>6, <1>7 DEF InputInv

LEMMA FailsInput ==
  ASSUME FilesInv, NEW k \in 1 .. Len(readers), ReaderFails(k), NEW i, InputInv(i)
  PROVE  InputInv(i)'
<1>1. readers' = RemoveAt(readers, k) /\ form' = form /\ There(i)' = There(i)
  BY DEF ReaderFails, formVars, There
<1>2. Len(readers) \in Nat
  BY DEF FilesInv
<1>3. \A j, l \in Reading(i)' : readers'[j].f = readers'[l].f => j = l
  <2>1. SUFFICES ASSUME NEW j \in Reading(i)', NEW l \in Reading(i)',
                        readers'[j].f = readers'[l].f
                 PROVE  j = l
    OBVIOUS
  <2>2. PICK m \in Reading(i) : m # k /\ m = (IF j < k THEN j ELSE j + 1)
                                /\ j \in Nat /\ readers'[j] = readers[m]
    BY <1>1, ReaderGone
  <2>3. PICK n \in Reading(i) : n # k /\ n = (IF l < k THEN l ELSE l + 1)
                                /\ l \in Nat /\ readers'[l] = readers[n]
    BY <1>1, ReaderGone
  <2>4. m = n
    BY <2>1, <2>2, <2>3 DEF InputInv
  <2>5. QED
    BY <1>2, <2>2, <2>3, <2>4
<1>4. ASSUME NEW j \in Reading(i)'
      PROVE  readers'[j].f \in ToSet(form[i]) \ ToSet(There(i))
  <2>1. PICK m \in Reading(i) : readers'[j] = readers[m]
    BY <1>1, ReaderGone
  <2>2. QED
    BY <2>1 DEF InputInv
<1>5. QED
  BY <1>1, <1>3, <1>4 DEF InputInv

\* nothing will be read and nothing has been
LEMMA NothingRead ==
  ASSUME NEW i, readers' = << >>, There(i)' = << >> PROVE InputInv(i)'
<1>1. DOMAIN << >> = {} /\ ToSet(<< >>) = {} /\ Reading(i)' = {}
  BY DEF ToSet, Reading
<1>2. QED
  BY <1>1 DEF InputInv, IsInjective

LEMMA PreparedFiles ==
  ASSUME NEW f, FilesInv, prepare_call(f), readers' = readers
  PROVE  FilesInv' /\ OnlyTheChosen'
<1>1. fileInputs' = << >> /\ overlap' = (overlap \/ readers # << >>)
  BY DEF prepare_call
<1>2. FilesInv'
  BY <1>1 DEF FilesInv
<1>3. \A i : There(i)' = << >>
  BY <1>1 DEF There
<1>4. ASSUME ~ overlap', NEW i PROVE InputInv(i)'
  <2>1. readers' = << >> /\ There(i)' = << >>
    BY <1>1, <1>3, <1>4
  <2>2. QED
    BY <2>1, NothingRead
<1>5. OnlyTheChosen'
  BY <1>4 DEF OnlyTheChosen, InputInv
<1>6. QED
  BY <1>2, <1>5

LEMMA ChoiceType == ASSUME NEW files \in FileChoices PROVE files \in Seq(Files) /\ IsInjective(files)
  BY ClientAssumption DEF FileChoices, SeqOf

LEMMA ChosenFiles ==
  ASSUME PageInv, FilesInv, OnlyTheChosen, NEW i \in 1 .. Len(form), NEW files \in FileChoices,
         changeBlob(i, files)
  PROVE  FilesInv' /\ OnlyTheChosen'
<1>1. /\ form' = [form EXCEPT ![i] = files]
      /\ fileInputs' = [j \in DOMAIN fileInputs \cup {i} |-> IF j = i THEN << >> ELSE fileInputs[j]]
      /\ readers' = readers \o Readers(i, files)
      /\ overlap' = (overlap \/ readers # << >>)
  BY DEF changeBlob
<1>2. i \in Nat /\ Len(form) \in Nat /\ form \in Seq(Shown)
  BY DEF PageInv, FormInv
<1>3. files \in Seq(Files) /\ IsInjective(files) /\ Len(files) \in Nat
  BY ChoiceType
<1> DEFINE new == Readers(i, files)
<1>4. /\ new \in Seq(Reader) /\ Len(new) = Len(files)
      /\ \A k \in 1 .. Len(files) : new[k].nr = i /\ new[k].f = files[k]
  <2> DEFINE g(k) == [nr |-> i, f |-> files[k]]
  <2>1. \A k \in 1 .. Len(files) : g(k) \in Reader /\ g(k).nr = i /\ g(k).f = files[k]
    BY <1>2, <1>3 DEF Reader
  <2>2. new = [k \in 1 .. Len(files) |-> g(k)]
    BY DEF Readers, FileOf
  <2> HIDE DEF g, new
  <2>3. QED
    BY <1>3, <2>1, <2>2
<1> HIDE DEF new
<1>5. FilesInv'
  <2>1. readers' \in Seq(Reader)
    BY <1>1, <1>4, ConcatProperties DEF FilesInv, new
  <2>2. \A j \in DOMAIN fileInputs' : fileInputs'[j] \in Seq(Files)
    BY <1>1 DEF FilesInv
  <2>3. QED
    BY <2>1, <2>2 DEF FilesInv
<1>6. ASSUME ~ overlap', NEW j \in 1 .. Len(form'), IsBlobs(func, j) PROVE InputInv(j)'
  <2>1. ~ overlap /\ readers = << >> /\ readers' = new
    <3>1. ~ overlap /\ readers = << >>
      BY <1>1, <1>6
    <3>2. << >> \o new = new
      BY <1>4, ConcatEmptySeq
    <3>3. QED
      BY <1>1, <3>1, <3>2 DEF new
  <2>2. CASE j = i
    <3>1. form'[j] = files /\ There(j)' = << >>
      BY <1>1, <1>2, <2>2 DEF There
    <3>2. ToSet(<< >>) = {} /\ IsInjective(<< >>)
      BY DEF ToSet, IsInjective
    <3>3. Reading(j)' = 1 .. Len(files)
      BY <1>4, <2>1, <2>2 DEF Reading
    <3>4. \A k, l \in 1 .. Len(files) : readers'[k].f = readers'[l].f => k = l
      BY <1>3, <1>4, <2>1 DEF IsInjective
    <3>5. \A k \in 1 .. Len(files) : readers'[k].f \in ToSet(files)
      BY <1>3, <1>4, <2>1 DEF ToSet
    <3>6. QED
      BY <3>1, <3>2, <3>3, <3>4, <3>5 DEF InputInv
  <2>3. CASE j # i
    <3>1. Reading(j)' = {}
      BY <1>4, <2>1, <2>3 DEF Reading
    <3>2. j \in 1 .. Len(form) /\ form'[j] = form[j] /\ There(j)' = There(j)
      BY <1>1, <1>2, <1>6, <2>3 DEF There
    <3>3. InputInv(j)
      BY <1>6, <2>1, <3>2 DEF OnlyTheChosen, InputInv
    <3>4. QED
      BY <3>1, <3>2, <3>3 DEF InputInv
  <2>4. QED
    BY <2>2, <2>3
<1>7. QED
  <2>1. func' = func
    BY DEF changeBlob
  <2>2. \A j : IsBlobs(func, j)' = IsBlobs(func, j)
    BY <2>1 DEF IsBlobs, In
  <2>3. QED
    BY <1>5, <1>6, <2>2 DEF OnlyTheChosen, InputInv

\* a step that reads no files and leaves the inputs of files as they are
LEMMA SameFiles ==
  ASSUME FilesInv, OnlyTheChosen, UNCHANGED << fileVars, func >>, Len(form') = Len(form),
         \A i \in 1 .. Len(form) : IsBlobs(func, i) => form'[i] = form[i]
  PROVE  FilesInv' /\ OnlyTheChosen'
<1>1. /\ UNCHANGED << fileInputs, readers, overlap >>
      /\ \A i : There(i)' = There(i) /\ Reading(i)' = Reading(i)
      /\ \A i : IsBlobs(func, i)' = IsBlobs(func, i)
  BY DEF fileVars, There, Reading, IsBlobs, In
<1>2. FilesInv'
  BY <1>1 DEF FilesInv
<1>3. OnlyTheChosen'
  BY <1>1 DEF OnlyTheChosen
<1>4. QED
  BY <1>2, <1>3

LEMMA EditFiles ==
  ASSUME PageInv, FilesInv, OnlyTheChosen, EditForm PROVE FilesInv' /\ OnlyTheChosen'
<1>1. form \in Seq(Shown)
  BY DEF PageInv, FormInv
<1>2. ASSUME UNCHANGED << fileVars, func, form >> PROVE FilesInv' /\ OnlyTheChosen'
  BY <1>2, SameFiles
<1>3. ASSUME NEW i \in 1 .. Len(form), ~ IsBlobs(func, i), NEW x, form' = [form EXCEPT ![i] = x],
             UNCHANGED << fileVars, func >>
      PROVE  FilesInv' /\ OnlyTheChosen'
  <2>1. Len(form') = Len(form) /\ \A j \in 1 .. Len(form) : j # i => form'[j] = form[j]
    BY <1>1, <1>3
  <2>2. QED
    BY <1>3, <2>1, SameFiles
<1>4. CASE onChange
  BY <1>2, <1>4 DEF onChange
<1>5. ASSUME NEW i \in 1 .. Len(form), NEW t \in Texts, TypeText(i, t)
      PROVE  FilesInv' /\ OnlyTheChosen'
  BY <1>3, <1>5, TextIsNoList DEF TypeText
<1>6. ASSUME NEW i \in 1 .. Len(form), CheckEscapes(i) PROVE FilesInv' /\ OnlyTheChosen'
  BY <1>2, <1>6 DEF CheckEscapes
<1>7. ASSUME NEW i \in 1 .. Len(form), NEW k, NEW t, TypeString(i, k, t)
      PROVE  FilesInv' /\ OnlyTheChosen'
  <2>1. form' = [form EXCEPT ![i] = [form[i] EXCEPT ![k] = t]] /\ ~ IsBlobs(func, i)
    BY <1>7, TextIsNoList DEF TypeString
  <2>2. QED
    BY <1>3, <1>7, <2>1 DEF TypeString
<1>8. ASSUME NEW i \in 1 .. Len(form), addString(i) PROVE FilesInv' /\ OnlyTheChosen'
  BY <1>3, <1>8, TextIsNoList DEF addString, genStringList
<1>9. ASSUME NEW i \in 1 .. Len(form), NEW k, removeString(i, k)
      PROVE  FilesInv' /\ OnlyTheChosen'
  BY <1>3, <1>9, TextIsNoList DEF removeString, genStringList
<1>10. ASSUME NEW i \in 1 .. Len(form), NEW files \in FileChoices, changeBlob(i, files)
       PROVE  FilesInv' /\ OnlyTheChosen'
  BY <1>10, ChosenFiles
<1>11. QED
  BY <1>4, <1>5, <1>6, <1>7, <1>8, <1>9, <1>10 DEF EditForm

\* a reader has ended
LEMMA ReadFiles ==
  ASSUME PageInv, FilesInv, OnlyTheChosen, FileRead PROVE FilesInv' /\ OnlyTheChosen'
<1>1. PICK k \in 1 .. Len(readers) : onload(k) \/ ReaderFails(k)
  BY DEF FileRead
<1>2. /\ readers' = RemoveAt(readers, k) /\ UNCHANGED << func, form, overlap >>
      /\ readers[k] \in Reader
  BY <1>1 DEF onload, ReaderFails, formVars, FilesInv
<1>3. FilesInv'
  <2>1. readers' \in Seq(Reader)
    BY <1>2, RemovedType DEF FilesInv
  <2>2. \A i \in DOMAIN fileInputs' : fileInputs'[i] \in Seq(Files)
    <3>1. CASE fileInputs' = fileInputs
      BY <3>1 DEF FilesInv
    <3>2. CASE readers[k].nr \in DOMAIN fileInputs
               /\ fileInputs' = [fileInputs EXCEPT ![readers[k].nr] = Append(@, readers[k].f)]
      <4>1. readers[k].f \in Files
        BY <1>2 DEF Reader
      <4>2. Append(fileInputs[readers[k].nr], readers[k].f) \in Seq(Files)
        BY <3>2, <4>1 DEF FilesInv
      <4>3. QED
        BY <3>2, <4>2 DEF FilesInv
    <3>3. QED
      BY <1>1, <3>1, <3>2 DEF onload, ReaderFails
  <2>3. QED
    BY <2>1, <2>2 DEF FilesInv
<1>4. ASSUME NEW i, InputInv(i) PROVE InputInv(i)'
  BY <1>1, <1>4, OnloadInput, FailsInput
<1>5. \A i : IsBlobs(func, i)' = IsBlobs(func, i)
  BY <1>2 DEF IsBlobs, In
<1>6. OnlyTheChosen'
  <2>1. SUFFICES ASSUME ~ overlap, NEW i \in 1 .. Len(form), IsBlobs(func, i)
                 PROVE  InputInv(i)'
    BY <1>2, <1>5 DEF OnlyTheChosen, InputInv
  <2>2. InputInv(i)
    BY <2>1 DEF OnlyTheChosen, InputInv
  <2>3. QED
    BY <1>4, <2>2
<1>7. QED
  BY <1>3, <1>6

LEMMA FilesStep ==
  ASSUME PageInv, FilesInv, OnlyTheChosen, [Next]_vars PROVE FilesInv' /\ OnlyTheChosen'
<1>1. ASSUME UNCHANGED << formVars, fileVars >> PROVE FilesInv' /\ OnlyTheChosen'
  <2>1. UNCHANGED << fileVars, func, form >>
    BY <1>1 DEF formVars
  <2>2. QED
    BY <2>1, SameFiles
<1>2. ASSUME NEW f, Select(f) PROVE FilesInv' /\ OnlyTheChosen'
  BY <1>2, PreparedFiles DEF Select
<1>3. CASE EditForm
  BY <1>3, EditFiles
<1>4. CASE FileRead
  BY <1>4, ReadFiles
<1>5. ASSUME NEW state, button_click(state) PROVE FilesInv' /\ OnlyTheChosen'
  BY <1>1, <1>5 DEF button_click
<1>6. CASE Answered
  <2>1. ASSUME NEW c, NEW what, done(c, what) PROVE FilesInv' /\ OnlyTheChosen'
    BY <2>1, PreparedFiles DEF done
  <2>2. ASSUME NEW c, doneThrows(c) \/ fail(c) PROVE FilesInv' /\ OnlyTheChosen'
    BY <1>1, <2>2 DEF doneThrows, fail
  <2>3. QED
    BY <1>6, <2>1, <2>2 DEF Answered
<1>7. CASE UNCHANGED vars
  BY <1>1, <1>7 DEF vars
<1>8. QED
  BY <1>2, <1>3, <1>4, <1>5, <1>6, <1>7 DEF Next

LEMMA FilesInit == Init => FilesInv /\ OnlyTheChosen
<1>1. SUFFICES ASSUME Init PROVE FilesInv /\ OnlyTheChosen
  OBVIOUS
<1>2. readers = << >> /\ fileInputs = << >>
  BY <1>1 DEF Init
<1>3. FilesInv
  BY <1>2 DEF FilesInv
<1>4. ASSUME NEW i PROVE InputInv(i)
  <2>1. Reading(i) = {} /\ There(i) = << >> /\ ToSet(<< >>) = {} /\ IsInjective(<< >>)
    BY <1>2 DEF Reading, There, ToSet, IsInjective
  <2>2. QED
    BY <2>1 DEF InputInv
<1>5. QED
  BY <1>3, <1>4 DEF OnlyTheChosen, InputInv

(* If nothing was chosen or replaced while files were read, the list of an *)
(* input holds chosen files only, each once, and none that is still being  *)
(* read: for any files, and in whatever order their readers end or fail    *)
(* (interactive.js:83-106, 514).                                           *)
THEOREM OnlyTheChosenHolds == Spec => []OnlyTheChosen
  BY FilesInit, FilesStep, PageInvHolds, PTL DEF Spec
=============================================================================
