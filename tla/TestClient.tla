----------------------------- MODULE TestClient -----------------------------
(***************************************************************************)
(* The page html/interactive.js from which a user calls the functions of   *)
(* the server by hand.  The page keeps everything twice: func and          *)
(* func_params of the script against the selected option and the inputs    *)
(* of the document, fileInputs against the files chosen in an input.       *)
(* Handlers run one at a time, but answers and file contents arrive        *)
(* whenever they want, also while the user fills in the form of the next   *)
(* call.                                                                   *)
(*                                                                         *)
(* A parameter has a direction and one of the types "text" (String, whose  *)
(* input has a check mark), "list" (StringList), "blobs" (BlobList, also   *)
(* as part of a Message) and "unknown".                                    *)
(*                                                                         *)
(* A text is a sequence of characters; an entity of HTML, such as &lt;,    *)
(* counts as one.                                                          *)
(***************************************************************************)
EXTENDS Integers, Sequences, SequencesExt, TLC

CONSTANTS
    Names,        \* the functions of pEp_functions that can be selected
    Sig,          \* their parameters
    First,        \* the one that the browser selects at the beginning
    Texts,        \* what the user types, sequences of characters
    Meant,        \* what he means by it, if its escape sequences are parsed
    Files,        \* files on the disk of the user
    MaxCalls,     \* bound: clicks on the button
    MaxStrings,   \* bound: inputs of a StringList
    MaxReaders,   \* bound: files that are read at a time
    None          \* JavaScript's undefined

Param == [dir : {"In", "Out", "InOut"}, type : {"text", "list", "blobs", "unknown"}]

ASSUME ClientAssumption ==
    /\ First \in Names
    /\ Sig \in [Names -> Seq(Param)]
    /\ << >> \in Texts
    /\ DOMAIN Meant = Texts
    /\ MaxCalls \in Nat /\ MaxStrings \in Nat /\ MaxReaders \in Nat
    /\ None \notin Names \cup Seq(Texts) \cup Seq(Files) \cup (Nat \X Nat)

VARIABLES
    name,         \* the selected option of fn_name
    func,         \* the name of the function in the variable func
    func_params,
    form,         \* td_param: for each parameter what its inputs show
    escaped,      \* the inputs with a check mark at "parse esc seq."
    focus,        \* the input of a StringList that is being edited
    fileInputs,
    readers,      \* the FileReaders under way: the input's number and the file
    call_ID,
    calls,        \* the requests that were made
    resultpre,    \* the text in the result field, and the errors added to it
    overlap       \* history: files were chosen, or the form was replaced,
                  \* while files were read

formVars == << name, func, func_params, form, escaped, focus >>
fileVars == << fileInputs, readers, overlap >>
vars == << formVars, fileVars, call_ID, calls, resultpre >>

In(f, i) == Sig[f][i].dir # "Out"
IsList(f, i) == In(f, i) /\ Sig[f][i].type = "list"
IsBlobs(f, i) == In(f, i) /\ Sig[f][i].type = "blobs"
IsText(f, i) == In(f, i) /\ Sig[f][i].type = "text"

\* what JavaScript makes of an undefined value that is added to a string
Undefined == << "undefined" >>

\* the entities that are looked at, by what the browser shows for them
Entities == "&quot;" :> "\"" @@ "&lt;" :> "<" @@ "&amp;" :> "&"

\* what an input shows if s was written into the page as its value="...": it ends
\* at the first quote of s, and entities are taken for what they stand for
Drawn(s) ==
    LET shown == {k \in 1 .. Len(s) : \A j \in 1 .. k : s[j] # "\""}
    IN [k \in shown |-> IF s[k] \in DOMAIN Entities THEN Entities[s[k]] ELSE s[k]]

\* what an input may show
Inputs == Texts \cup {Drawn(t) : t \in Texts} \cup {Undefined}

\* what a request has for a parameter, and the text if it is one
Sent == [kind : {"OutputParam", "text", "list", "blobs", "undefined", "Unknown"},
         text : Seq(STRING)]

Call == [method : Names, params : Seq(Sent),
         state : {"pending", "failed at once", "failed", "answered"}]

TypeOK ==
    /\ name \in Names
    /\ func \in Names
    /\ func_params \in Seq(Seq(Texts) \cup {None})
    /\ form \in Seq(Seq(Inputs) \cup Seq(Files))
    /\ escaped \subseteq 1 .. Len(Sig[func])
    /\ focus \in (Nat \X Nat) \cup {None}
    /\ DOMAIN fileInputs \subseteq 1 .. Len(Sig[func])
    /\ \A i \in DOMAIN fileInputs : fileInputs[i] \in Seq(Files)
    /\ \A k \in 1 .. Len(readers) : readers[k].nr \in Nat /\ readers[k].f \in Files
    /\ call_ID \in 0 .. MaxCalls
    /\ calls \in Seq(Call)
    /\ resultpre \in [base : {"Banana!", "sent", "answer", "cklickiii"},
                      id : 0 .. MaxCalls, errors : SUBSET (1 .. MaxCalls)]
    /\ overlap \in BOOLEAN

-----------------------------------------------------------------------------
(* The form *)

\* the inputs of function f when its form is new.  A String has no value yet, and
\* genInput writes "undefined"
NewForm(f) == [i \in 1 .. Len(Sig[f]) |-> IF IsText(f, i) THEN << Undefined >> ELSE << >>]

\* new Array, of which genStringList fills in the items of StringLists
NewParams(f) == [i \in 1 .. Len(Sig[f]) |-> IF IsList(f, i) THEN << >> ELSE None]

prepare_call(f) ==
    /\ fileInputs' = << >>
    /\ func' = f
    /\ func_params' = NewParams(f)
    /\ form' = NewForm(f)
    /\ escaped' = {}
    /\ focus' = None
    /\ overlap' = (overlap \/ readers # << >>)

\* mutant of Select: the script does not learn of it
SelectUnheard(f) ==
    /\ focus = None
    /\ f # name
    /\ name' = f
    /\ UNCHANGED << func, func_params, form, escaped, focus, fileVars, call_ID, calls, resultpre >>

\* the user selects a function: on_select_change looks for its name
Select(f) ==
    /\ focus = None
    /\ f # name
    /\ name' = f
    /\ prepare_call(f)
    /\ UNCHANGED << readers, call_ID, calls, resultpre >>

TypeText(i, t) ==
    /\ focus = None
    /\ IsText(func, i)
    /\ form' = [form EXCEPT ![i] = << t >>]
    /\ UNCHANGED << name, func, func_params, escaped, focus, fileVars, call_ID, calls,
                    resultpre >>

\* the check mark next to the input is set or removed
CheckEscapes(i) ==
    /\ focus = None
    /\ IsText(func, i)
    /\ escaped' = SymDiff(escaped, {i})
    /\ UNCHANGED << name, func, func_params, form, focus, fileVars, call_ID, calls,
                    resultpre >>

\* an input of a list is edited.  Its onChange comes when the user leaves it,
\* which he does before everything else
TypeString(i, k, t) ==
    /\ focus \in {None, << i, k >>}
    /\ IsList(func, i)
    /\ k \in DOMAIN form[i]
    /\ form' = [form EXCEPT ![i][k] = t]
    /\ focus' = << i, k >>
    /\ UNCHANGED << name, func, func_params, escaped, fileVars, call_ID, calls, resultpre >>

\* the code that genStringList has put into onChange
onChange ==
    /\ focus # None
    /\ func_params' = [func_params EXCEPT ![focus[1]][focus[2]] = form[focus[1]][focus[2]]]
    /\ focus' = None
    /\ UNCHANGED << name, func, form, escaped, fileVars, call_ID, calls, resultpre >>

\* mutant of genStringList: the new input is added to those that are there
genStringListKept(i, strings) ==
    form' = [form EXCEPT ![i] = IF Len(@) < Len(strings) THEN Append(@, << >>) ELSE @]

\* the inputs of list i are drawn anew for these strings
genStringList(i, strings) ==
    form' = [form EXCEPT ![i] = [k \in 1 .. Len(strings) |-> Drawn(strings[k])]]

addString(i) ==
    /\ focus = None
    /\ IsList(func, i)
    /\ Len(func_params[i]) < MaxStrings
    /\ func_params' = [func_params EXCEPT ![i] = Append(@, << >>)]
    /\ genStringList(i, func_params'[i])
    /\ UNCHANGED << name, func, escaped, focus, fileVars, call_ID, calls, resultpre >>

removeString(i, k) ==
    /\ focus = None
    /\ IsList(func, i)
    /\ k \in DOMAIN form[i]
    /\ func_params' = [func_params EXCEPT ![i] = RemoveAt(@, k)]
    /\ genStringList(i, func_params'[i])
    /\ UNCHANGED << name, func, escaped, focus, fileVars, call_ID, calls, resultpre >>

-----------------------------------------------------------------------------
(* Files *)

\* mutant of FileOf: all readers of a loop share the variable f
FileOfLast(files, k) == files[Len(files)]

\* the file whose name and type the k-th reader puts into its blob
FileOf(files, k) == files[k]

Readers(i, files) == [k \in 1 .. Len(files) |-> [nr |-> i, f |-> FileOf(files, k)]]

\* the user chooses files; one reader is started for each
changeBlob(i, files) ==
    /\ focus = None
    /\ IsBlobs(func, i)
    /\ Len(readers) + Len(files) <= MaxReaders
    /\ form' = [form EXCEPT ![i] = files]
    /\ fileInputs' = [j \in DOMAIN fileInputs \cup {i} |->
                         IF j = i THEN << >> ELSE fileInputs[j]]
    /\ readers' = readers \o Readers(i, files)
    /\ overlap' = (overlap \/ readers # << >>)
    /\ UNCHANGED << name, func, func_params, escaped, focus, call_ID, calls, resultpre >>

\* the blob goes into the list with the number of its input, if there is one;
\* otherwise push throws
onload(k) ==
    /\ readers' = RemoveAt(readers, k)
    /\ fileInputs' = IF readers[k].nr \in DOMAIN fileInputs
                       THEN [fileInputs EXCEPT ![readers[k].nr] = Append(@, readers[k].f)]
                       ELSE fileInputs
    /\ UNCHANGED << formVars, overlap, call_ID, calls, resultpre >>

\* the file cannot be read: nobody listens to onerror
ReaderFails(k) ==
    /\ readers' = RemoveAt(readers, k)
    /\ UNCHANGED << formVars, fileInputs, overlap, call_ID, calls, resultpre >>

-----------------------------------------------------------------------------
(* Calls *)

\* what a character after a backslash stands for.  In JavaScript "\a" is an a
Escapes ==
    "0" :> "NUL" @@ "a" :> "a" @@ "b" :> "BS" @@ "f" :> "FF" @@ "n" :> "LF"
      @@ "r" :> "CR" @@ "t" :> "HT" @@ "v" :> "VT" @@ "?" :> "DEL"
      @@ "\\" :> "\\" @@ "\"" :> "\""

\* Other characters are lost together with their backslash.  After a u four
\* characters make one by their codes (not as hexadecimal digits), and a fifth
\* one is lost
de_backslash(input) ==
    LET ret[i \in 1 .. Len(input) + 7] ==
            CASE i > Len(input) -> << >>
              [] i <= Len(input) /\ input[i] # "\\" -> << input[i] >> \o ret[i + 1]
              [] i = Len(input) /\ input[i] = "\\" -> << >>
              [] OTHER ->
                   CASE input[i + 1] = "u" -> << "code" >> \o ret[i + 7]
                     [] input[i + 1] \in DOMAIN Escapes -> << Escapes[input[i + 1]] >> \o ret[i + 2]
                     [] OTHER -> ret[i + 2]
    IN ret[1]

TextOf(i) == IF i \in escaped THEN de_backslash(form[i][1]) ELSE form[i][1]

\* Form2Param and button_click: what is sent of parameter i.  The blobs are those
\* that have arrived so far
Form2Param(i) ==
    [kind |-> CASE ~ In(func, i) -> "OutputParam"
                [] IsText(func, i) -> "text"
                [] IsList(func, i) -> "list"
                [] IsBlobs(func, i) -> IF i \in DOMAIN fileInputs THEN "blobs" ELSE "undefined"
                [] OTHER -> "Unknown",
     text |-> IF IsText(func, i) THEN TextOf(i) ELSE << >>]

\* Form2Param reads an input of the document for each string of func_params, and
\* throws if there is none
InputsThere ==
    \A i \in 1 .. Len(Sig[func]) :
        IsList(func, i) => Len(func_params[i]) <= Len(form[i])

\* $.post has called neither done nor fail, or fail already: the address is not
\* one to which a request can be sent
button_click(state) ==
    /\ focus = None
    /\ call_ID < MaxCalls
    /\ InputsThere
    /\ call_ID' = call_ID + 1
    /\ calls' = Append(calls, [method |-> name, state |-> state,
                               params |-> [i \in 1 .. Len(Sig[func]) |-> Form2Param(i)]])
    /\ resultpre' = [base |-> "sent", id |-> call_ID', errors |-> {}]
    /\ UNCHANGED << formVars, fileVars >>

\* mutant of displayResult: an answer is added to what is shown
displayResultAdded(c, what) == resultpre' = [resultpre EXCEPT !.errors = @ \cup {c}]

\* the result or the error of the answer; "cklickiii" stays for a result that
\* JavaScript takes for false
displayResult(c, what) == resultpre' = [base |-> what, id |-> c, errors |-> {}]

\* done: the answer is shown, and the form of the selected function is made anew
done(c, what) ==
    /\ calls[c].state = "pending"
    /\ calls' = [calls EXCEPT ![c].state = "answered"]
    /\ displayResult(c, what)
    /\ prepare_call(name)
    /\ UNCHANGED << name, readers, call_ID >>

\* the same, for an answer that is null: displayResult throws halfway
doneThrows(c) ==
    /\ calls[c].state = "pending"
    /\ calls' = [calls EXCEPT ![c].state = "answered"]
    /\ displayResult(c, "cklickiii")
    /\ UNCHANGED << formVars, fileVars, call_ID >>

\* fail adds its message to what the field shows
fail(c) ==
    /\ calls[c].state = "pending"
    /\ calls' = [calls EXCEPT ![c].state = "failed"]
    /\ resultpre' = [resultpre EXCEPT !.errors = @ \cup {c}]
    /\ UNCHANGED << formVars, fileVars, call_ID >>

-----------------------------------------------------------------------------

\* on_select_change is called when the page has been loaded
Init ==
    /\ name = First
    /\ func = First
    /\ func_params = NewParams(First)
    /\ form = NewForm(First)
    /\ escaped = {}
    /\ focus = None
    /\ fileInputs = << >>
    /\ readers = << >>
    /\ call_ID = 0
    /\ calls = << >>
    /\ resultpre = [base |-> "Banana!", id |-> 0, errors |-> {}]
    /\ overlap = FALSE

\* the lists of files that can be chosen at once
FileChoices == {s \in SeqOf(Files, MaxReaders) : s # << >> /\ IsInjective(s)}

EditForm ==
    \/ onChange
    \/ \E i \in 1 .. Len(form) :
          \/ \E t \in Texts : TypeText(i, t)
          \/ CheckEscapes(i)
          \/ \E k \in 1 .. MaxStrings, t \in Texts : TypeString(i, k, t)
          \/ addString(i)
          \/ \E k \in 1 .. MaxStrings : removeString(i, k)
          \/ \E files \in FileChoices : changeBlob(i, files)

FileRead == \E k \in 1 .. Len(readers) : onload(k) \/ ReaderFails(k)

Answered ==
    \E c \in 1 .. Len(calls) :
       \/ \E what \in {"answer", "cklickiii"} : done(c, what)
       \/ doneThrows(c)
       \/ fail(c)

Next ==
    \/ \E f \in Names : Select(f)
    \/ EditForm
    \/ FileRead
    \/ \E state \in {"pending", "failed at once"} : button_click(state)
    \/ Answered

Spec == Init /\ [][Next]_vars

-----------------------------------------------------------------------------
(* Properties *)

(* Every request has the parameters of the function that it names, each of *)
(* them of its type: the script's variable never lags behind the option    *)
(* that is selected, whatever answers come while the user selects.  Texts  *)
(* are sent as they were typed, or as they were meant; an input that was   *)
(* not touched is sent as the text "undefined".                            *)
\* interactive.js:258-316, 449-467, 512-568
Fits(p, sig) ==
    CASE sig.dir = "Out" -> p.kind = "OutputParam"
      [] sig.dir # "Out" /\ sig.type = "text" ->
            p.kind = "text" /\ \E t \in Texts : p.text \in {t, Meant[t], Undefined}
      [] sig.dir # "Out" /\ sig.type = "list" -> p.kind = "list"
      [] sig.dir # "Out" /\ sig.type = "blobs" -> p.kind \in {"blobs", "undefined"}
      [] OTHER -> p.kind = "Unknown"

RequestFits ==
    \A c \in 1 .. Len(calls) :
        /\ Len(calls[c].params) = Len(Sig[calls[c].method])
        /\ \A i \in 1 .. Len(calls[c].params) :
              Fits(calls[c].params[i], Sig[calls[c].method][i])

(* However the strings of a list are added, removed and changed, the user  *)
(* sees an input for each string that the script keeps, in its place: none *)
(* is missing in the request, and the buttons remove the one they stand    *)
(* next to.  The input shows the string as it is kept, or, if the list was *)
(* drawn again, what the browser makes of it as an attribute: a string     *)
(* with a quote is cut there, and is sent like that.                       *)
\* interactive.js:34-36, 42-80, 330-338
DisplayedIsKept ==
    \A i \in 1 .. Len(form) : IsList(func, i) =>
        /\ Len(form[i]) = Len(func_params[i])
        /\ \A k \in 1 .. Len(form[i]) :
              << i, k >> # focus => form[i][k] \in {func_params[i][k], Drawn(func_params[i][k])}

(* An input of a list shows the string that the script has kept.  (It does *)
(* not: tc_cut.cfg.)                                                       *)
\* interactive.js:36, 71, 335
ShownAsKept ==
    \A i \in 1 .. Len(form) : IsList(func, i) =>
        \A k \in 1 .. Len(form[i]) : << i, k >> # focus => form[i][k] = func_params[i][k]

(* If nothing was chosen or replaced while files were read, an input's     *)
(* list holds chosen files only and each of them once, together with those *)
(* that are still being read.  (Otherwise files of the former choice show  *)
(* up in the new list, even in another function's call.)                   *)
\* interactive.js:83-106, 514
There(i) == IF i \in DOMAIN fileInputs THEN fileInputs[i] ELSE << >>

Reading(i) == {k \in DOMAIN readers : readers[k].nr = i}

OnlyTheChosen ==
    ~ overlap => \A i \in 1 .. Len(form) : IsBlobs(func, i) =>
        /\ IsInjective(There(i))
        /\ \A j, k \in Reading(i) : readers[j].f = readers[k].f => j = k
        /\ \A k \in Reading(i) : readers[k].f \in ToSet(form[i]) \ ToSet(There(i))
        /\ ToSet(There(i)) \subseteq ToSet(form[i])

(* While the result field says of a call that it was sent, its answer has  *)
(* not come, and a failure is reported there: answers may come in any      *)
(* order, those of former calls included.  (The exception: a call that     *)
(* fails at once, of which "sent" is written over the message.)            *)
\* interactive.js:410-426, 469-507
FieldIsTrue ==
    resultpre.base = "sent" =>
        \/ calls[resultpre.id].state \in {"pending", "failed at once"}
        \/ calls[resultpre.id].state = "failed" /\ resultpre.id \in resultpre.errors
=============================================================================
