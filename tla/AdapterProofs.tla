---------------------------- MODULE AdapterProofs ----------------------------
(***************************************************************************)
(* Proofs about what the adapter does with its connections and with the    *)
(* requests on them.                                                       *)
(*                                                                         *)
(* RpcDispatch, for any functions, signatures and requests: what the place *)
(* in the code says of the request that got there (DispatchInv), and what  *)
(* the function object has extracted, kept and put out so far (WorkInv).   *)
(*                                                                         *)
(* AdapterLifecycle, for any number of connections: the flags, threads and *)
(* the listen queue fit each other (LifecycleInv).                         *)
(*                                                                         *)
(* SessionRegistry, for any sets of threads and clients, any timeout and   *)
(* any number of calls: what an active client configured stays cached      *)
(* (RegistryInv).                                                          *)
(***************************************************************************)
EXTENDS RpcDispatch, AdapterLifecycle, SessionRegistry, FiniteSetTheorems,
        SequenceTheorems, TLAPS

\* after all checks of the request
Working == {"wrapped", "size", "extract", "unwind", "crashed"}

Untouched == passphrases = << >> /\ cached = None /\ executed = 0

(* Each check that was passed has held, and nothing was done before the    *)
(* last of them.                                                           *)
CheckedInv ==
    /\ pc \notin {"read", "answered"} => IsRequest
    /\ pc \in {"token", "method", "id", "params"} \cup Working => body.jsonrpc
    /\ pc \in {"method", "id", "params"} \cup Working => body.token
    /\ pc \in {"id", "params"} \cup Working => body.method \in Functions
    /\ pc \in {"params"} \cup Working =>
          body.id.type \in {"null", "int"} /\ request_id = OwnId
    /\ pc \in Working => body.params # None
    /\ pc \in {"read", "jsonrpc", "token", "method", "id"} => request_id = -1

TraceInv ==
    /\ pc \notin Working \cup {"answered"} => Untouched
    /\ pc \in Working => executed = IF pc = "unwind" THEN 1 ELSE 0
    /\ pc = "answered" /\ ~ Dispatched => Untouched
    /\ pc = "answered" /\ answer.code = "result" => executed = 1

DispatchInv == CheckedInv /\ TraceInv /\ AnswerFits

LEMMA WorkingDispatched == CheckedInv /\ pc \in Working => Dispatched /\ request_id = OwnId
  BY DEF CheckedInv, Working, Dispatched

LEMMA DispatchInit == Init => DispatchInv
  BY DEF Init, DispatchInv, CheckedInv, TraceInv, AnswerFits, Untouched, Working

\* an error is answered of a request that was not dispatched
LEMMA RefuseStep ==
  ASSUME TraceInv, pc \notin Working \cup {"answered"}, ~ Dispatched,
         NEW code \in {"PARSE_ERROR", "INVALID_REQUEST", "METHOD_NOT_FOUND", "INTERNAL_ERROR"},
         NEW id, Reply(Error(code, id)),
         code = "PARSE_ERROR" <=> body = Other,
         code = "INTERNAL_ERROR" => ~ IsRequest,
         code = "METHOD_NOT_FOUND" =>
            body.method # None /\ body.jsonrpc /\ body.token /\ id = -1
  PROVE  DispatchInv'
<1>1. /\ pc' = "answered" /\ answer'.code = code /\ answer'.id = id
      /\ UNCHANGED << body, passphrases, cached, executed >>
  BY DEF Reply, Error, traces
<1>2. Dispatched' = Dispatched /\ IsRequest' = IsRequest /\ OwnId' = OwnId
  BY <1>1 DEF Dispatched, IsRequest, OwnId
<1>3. CheckedInv'
  BY <1>1 DEF CheckedInv, Working
<1>4. TraceInv'
  BY <1>1, <1>2 DEF TraceInv, Untouched, Working
<1>5. AnswerFits'
  BY <1>1, <1>2 DEF AnswerFits
<1>6. QED
  BY <1>3, <1>4, <1>5 DEF DispatchInv

\* an answer of a request that was dispatched
LEMMA AnswerStep ==
  ASSUME CheckedInv, TraceInv, pc \in Working,
         NEW code \in {"result", "INTERNAL_ERROR"}, NEW outs,
         answer' = [code |-> code, id |-> request_id, outs |-> outs],
         pc' = "answered", body' = body,
         code = "result" => executed' = 1
  PROVE  DispatchInv'
<1>1. Dispatched' /\ OwnId' = OwnId /\ request_id = OwnId /\ body # Other
  BY WorkingDispatched DEF Dispatched, OwnId, IsRequest
<1>2. IsRequest'
  BY <1>1 DEF Dispatched
<1>3. QED
  BY <1>1, <1>2 DEF DispatchInv, CheckedInv, TraceInv, AnswerFits, Working

LEMMA DispatchStep ==
  ASSUME DispatchInv, [Next]_vars
  PROVE  DispatchInv'
<1>1. CheckedInv /\ TraceInv /\ AnswerFits
  BY DEF DispatchInv
<1>2. Empty # Other
  BY RpcAssumption
<1> USE <1>1, <1>2
<1>3. CASE UNCHANGED vars
  BY <1>3 DEF vars, traces, DispatchInv, CheckedInv, TraceInv, AnswerFits, IsRequest,
              Dispatched, OwnId, Untouched
<1>4. CASE ReadEmpty
  BY <1>4, RefuseStep DEF ReadEmpty, Working, Dispatched, IsRequest
<1>5. CASE ReadOther
  BY <1>5, RefuseStep DEF ReadOther, Working, Dispatched, IsRequest
<1>6. CASE ReadRequest
  BY <1>6 DEF ReadRequest, Goto, traces, DispatchInv, CheckedInv, TraceInv, AnswerFits,
              IsRequest, Untouched, Working
<1>7. CASE CheckVersion
  <2>1. CASE body.jsonrpc
    BY <1>7, <2>1 DEF CheckVersion, Check, Goto, traces, DispatchInv, CheckedInv, TraceInv,
                      AnswerFits, IsRequest, Untouched, Working
  <2>2. CASE ~ body.jsonrpc
    BY <1>7, <2>2, RefuseStep DEF CheckVersion, Check, CheckedInv, Working, Dispatched, IsRequest
  <2>3. QED
    BY <2>1, <2>2
<1>8. CASE CheckToken
  <2>1. CASE body.token
    BY <1>8, <2>1 DEF CheckToken, Check, Goto, traces, DispatchInv, CheckedInv, TraceInv,
                      AnswerFits, IsRequest, Untouched, Working
  <2>2. CASE ~ body.token
    BY <1>8, <2>2, RefuseStep DEF CheckToken, Check, CheckedInv, Working, Dispatched, IsRequest
  <2>3. QED
    BY <2>1, <2>2
<1>9. CASE CheckMethodType
  BY <1>9, RefuseStep, RpcAssumption
     DEF CheckMethodType, CheckedInv, Working, Dispatched, IsRequest
<1>10. CASE FindMethod
  <2>1. CASE body.method \in Functions
    BY <1>10, <2>1 DEF FindMethod, Check, Goto, traces, DispatchInv, CheckedInv, TraceInv,
                       AnswerFits, IsRequest, Untouched, Working
  <2>2. CASE body.method \notin Functions
    BY <1>10, <2>2, RefuseStep DEF FindMethod, Check, CheckedInv, Working, Dispatched, IsRequest
  <2>3. QED
    BY <2>1, <2>2
<1>11. CASE CheckId
  <2>1. CASE body.id.type \in {"null", "int"}
    BY <1>11, <2>1 DEF CheckId, traces, DispatchInv, CheckedInv, TraceInv, AnswerFits,
                       IsRequest, OwnId, Untouched, Working
  <2>2. CASE body.id.type \notin {"null", "int"}
    BY <1>11, <2>2, RefuseStep DEF CheckId, CheckedInv, Working, Dispatched, IsRequest
  <2>3. QED
    BY <2>1, <2>2
<1>12. CASE CheckParams
  <2>1. CASE body.params # None
    <3>1. /\ pc = "params" /\ pc' \in {"size", "wrapped"}
          /\ UNCHANGED << body, request_id, passphrases, cached, executed, answer >>
      BY <1>12, <2>1 DEF CheckParams, traces
    <3>2. QED
      BY <2>1, <3>1 DEF DispatchInv, CheckedInv, TraceInv, AnswerFits, IsRequest, OwnId,
                        Untouched, Working
  <2>2. CASE body.params = None
    BY <1>12, <2>2, RefuseStep DEF CheckParams, CheckedInv, Working, Dispatched, IsRequest
  <2>3. QED
    BY <2>1, <2>2
<1>13. CASE FuncCache \/ FuncCachePassphrase \/ FuncCachePassphrase4NewKeys
  <2>1. pc = "wrapped"
    BY <1>13 DEF FuncCache, FuncCachePassphrase, FuncCachePassphrase4NewKeys
  <2>2. \/ Throw
        \/ /\ pc' \in {"size", "crashed"}
           /\ UNCHANGED << body, request_id, executed, answer >>
    BY <1>13 DEF FuncCache, FuncCachePassphrase, FuncCachePassphrase4NewKeys, Cache, Goto, traces
  <2>3. CASE Throw
    BY <2>1, <2>3, AnswerStep DEF Throw, Reply, Error, Working
  <2>4. CASE ~ Throw
    BY <2>1, <2>2, <2>4 DEF DispatchInv, CheckedInv, TraceInv, AnswerFits, IsRequest, OwnId, Working
  <2>5. QED
    BY <2>3, <2>4
<1>14. CASE CheckSize \/ Extract
  <2>1. pc \in {"size", "extract"}
    BY <1>14 DEF CheckSize, Extract
  <2>2. \/ Throw
        \/ pc' = "extract" /\ UNCHANGED << body, request_id, executed, answer >>
    BY <1>14 DEF CheckSize, Extract, traces
  <2>3. CASE Throw
    BY <2>1, <2>3, AnswerStep DEF Throw, Reply, Error, Working
  <2>4. CASE ~ Throw
    BY <2>1, <2>2, <2>4 DEF DispatchInv, CheckedInv, TraceInv, AnswerFits, IsRequest, OwnId, Working
  <2>5. QED
    BY <2>3, <2>4
<1>15. CASE Execute
  <2>1. pc = "extract" /\ executed' = 1 /\ UNCHANGED << body, request_id >>
    BY <1>15 DEF Execute, TraceInv, Working
  <2>2. CASE pc' = "unwind"
    BY <2>1, <2>2 DEF DispatchInv, CheckedInv, TraceInv, AnswerFits, IsRequest, OwnId, Working
  <2>3. CASE pc' # "unwind"
    BY <1>15, <2>1, <2>3, AnswerStep DEF Execute, Error, Working
  <2>4. QED
    BY <2>2, <2>3
<1>16. CASE Unwind
  <2>1. pc = "unwind" /\ UNCHANGED << body, pc, request_id, executed >>
    BY <1>16 DEF Unwind, traces
  <2>2. QED
    BY <2>1 DEF DispatchInv, CheckedInv, TraceInv, AnswerFits, IsRequest, OwnId, Working
<1>17. CASE Return
  <2>1. pc = "unwind" /\ executed' = 1
    BY <1>17 DEF Return, Reply, traces, TraceInv, Working
  <2>2. QED
    BY <1>17, <2>1, AnswerStep DEF Return, Reply, Result, Working
<1>18. QED
  BY <1>3, <1>4, <1>5, <1>6, <1>7, <1>8, <1>9, <1>10, <1>11, <1>12, <1>13, <1>14, <1>15,
     <1>16, <1>17 DEF Next, Checks

-----------------------------------------------------------------------------
(* Counting inputs. *)

\* the inputs up to parameter i of f, i among them
InputsTo(f, i) == { j \in 1 .. i : need_input(Sig[f][j]) }

LEMMA InputsFinite ==
  ASSUME NEW f, NEW i \in Int
  PROVE  IsFiniteSet(InputsTo(f, i)) /\ Cardinality(InputsTo(f, i)) \in Nat
<1>1. InputsTo(f, i) \in SUBSET (1 .. i)
  BY DEF InputsTo
<1>2. IsFiniteSet(1 .. i)
  BY FS_Interval
<1>3. QED
  BY <1>1, <1>2, FS_Subset, FS_CardinalityType

\* copyParam reads a parameter that is there: the one that is counted
LEMMA InputPlace ==
  ASSUME NEW f \in Functions, NEW i \in 1 .. Len(Sig[f]), need_input(Sig[f][i])
  PROVE  /\ Cardinality(InputsTo(f, i)) = InputsBefore(f, i) + 1
         /\ InputsBefore(f, i) + 1 \in 1 .. nr_of_input_params(f)
<1>1. Len(Sig[f]) \in Nat
  BY RpcAssumption, LenProperties
<1>2. /\ InputsBefore(f, i) = Cardinality(InputsTo(f, i - 1))
      /\ nr_of_input_params(f) = Cardinality(InputsTo(f, Len(Sig[f])))
  <2>1. (Len(Sig[f]) + 1) - 1 = Len(Sig[f])
    BY <1>1
  <2>2. QED
    BY <2>1 DEF InputsBefore, nr_of_input_params, InputsTo
<1>3. /\ InputsTo(f, i) = InputsTo(f, i - 1) \cup {i} /\ i \notin InputsTo(f, i - 1)
  <2>1. \A j : j \in 1 .. i <=> j \in 1 .. i - 1 \/ j = i
    OBVIOUS
  <2>2. i \notin 1 .. i - 1
    OBVIOUS
  <2>3. QED
    BY <2>1, <2>2 DEF InputsTo
<1>4. IsFiniteSet(InputsTo(f, i - 1)) /\ Cardinality(InputsTo(f, i - 1)) \in Nat
  BY InputsFinite
<1>5. Cardinality(InputsTo(f, i)) = Cardinality(InputsTo(f, i - 1)) + 1
  BY <1>3, <1>4, FS_AddElement
<1>6. InputsTo(f, i) \in SUBSET InputsTo(f, Len(Sig[f]))
  BY <1>1 DEF InputsTo
<1>7. Cardinality(InputsTo(f, i)) <= Cardinality(InputsTo(f, Len(Sig[f])))
  BY <1>1, <1>6, InputsFinite, FS_Subset
<1>8. Cardinality(InputsTo(f, Len(Sig[f]))) \in Nat
  BY <1>1, InputsFinite
<1>9. QED
  BY <1>2, <1>4, <1>5, <1>7, <1>8

-----------------------------------------------------------------------------
(* What the function object has done so far. *)

Lengths == {"length", "hidden_length"}
Measured == {"string", "nullable", "binary"}

\* what C arguments can be
ArgValues ==
    Values \cup {Null, None}
        \cup { Size(Octets(k, v)) : k \in Kinds, v \in Values \cup {Null} }

\* the argument for parameter i
Argument(i) ==
    LET k == Sig[fn][i] IN
    CASE k \in Lengths -> Size(Octets(Sig[fn][i - 1], p[i - 1]))
      [] k \in {"session", "out"} -> None
      [] OTHER -> p[i]

\* the parameters are copied, the arguments made of those so far, and the
\* lengths in the store are theirs
ExtractInv ==
    /\ Len(body.params) = nr_of_input_params(fn)
    /\ p = copyParam(fn, body.params)
    /\ args \in Seq(ArgValues) /\ Len(args) <= Len(Sig[fn])
    /\ \A i \in 1 .. Len(args) :
          /\ args[i] = Argument(i)
          /\ Sig[fn][i] \in Lengths => i - 1 \in 1 .. Len(args) /\ Sig[fn][i - 1] \in Measured
    /\ DOMAIN obj_store = { j \in 1 .. Len(args) : Sig[fn][j] \in Measured }
    /\ \A j \in DOMAIN obj_store : obj_store[j] = Octets(Sig[fn][j], p[j])

\* the numbers s are those of the outputs above parameter n, downwards
OutputsAbove(s, n) ==
    /\ s \in Seq(Nat)
    /\ ToSet(s) = { i \in n + 1 .. Len(Sig[fn]) : is_output(Sig[fn][i]) }
    /\ \A i, j \in DOMAIN s : i < j => s[i] > s[j]

\* what the classes with a cache keep
SettingInv ==
    /\ Class[fn] \in {"FuncCache", "FuncCachePassphrase"} =>
          Len(body.params) >= 1 /\ cached = << body.params[1] >>
    /\ Class[fn] = "FuncCachePassphrase4NewKeys" =>
          Len(body.params) >= 2 /\ cached = << body.params[1], body.params[2] >>

\* a passphrase that was cached is in the passphrase cache
PassphraseInv ==
    \/ cached = None /\ passphrases = << >>
    \/ \E b \in Values : b.type = "bool" /\ cached = << b >> /\ passphrases = << >>
    \/ \E v \in Values : v.type = "str" /\ cached = << v >> /\ passphrases = << v >>
    \/ \E b, v \in Values : /\ b.type = "bool" /\ v.type = "str"
                            /\ cached = << b, v >> /\ passphrases = << v >>

Early == {"read", "jsonrpc", "token", "method", "id", "params"}

WorkInv ==
    /\ pc \in Early \cup {"wrapped"} => cached = None /\ passphrases = << >>
    /\ pc \in Early \cup {"wrapped", "size"} => args = << >> /\ obj_store = << >>
    /\ pc \in Early \cup {"wrapped", "size", "extract"} => out_params = << >>
    /\ pc \in {"wrapped", "size"} => p = body.params
    /\ pc \in {"wrapped"} => Class[fn] # "Func"
    /\ pc \in {"size", "extract"} => SettingInv
    /\ pc = "extract" => ExtractInv
    /\ pc = "unwind" => /\ args \in Seq(ArgValues) /\ Len(args) <= Len(Sig[fn])
                        /\ OutputsAbove(out_params, Len(args))
    /\ OutputsFit
    /\ PassphraseInv

LEMMA WorkInit == Init => WorkInv
  BY DEF Init, WorkInv, Early, OutputsFit, PassphraseInv

\* an error ends the call
LEMMA ErrorEnds ==
  ASSUME WorkInv, pc' = "answered", answer'.code # "result",
         UNCHANGED << passphrases, cached >>
  PROVE  WorkInv'
<1>1. PassphraseInv'
  BY DEF WorkInv, PassphraseInv
<1>2. OutputsFit'
  BY DEF OutputsFit
<1>3. QED
  BY <1>1, <1>2 DEF WorkInv, Early

\* a check that is passed leaves everything but the place
LEMMA EarlyStep ==
  ASSUME WorkInv, pc \in Early, pc' \in Early,
         UNCHANGED << args, obj_store, traces, out_params >>
  PROVE  WorkInv'
<1>1. PassphraseInv'
  BY DEF WorkInv, PassphraseInv, traces
<1>2. OutputsFit'
  BY DEF OutputsFit, Early
<1>3. QED
  BY <1>1, <1>2 DEF WorkInv, Early, traces

LEMMA ChecksStep ==
  ASSUME WorkInv, ReadEmpty \/ ReadOther \/ ReadRequest \/ Checks
  PROVE  WorkInv'
<1>1. CASE pc' = "answered"
  BY <1>1, ErrorEnds DEF ReadEmpty, ReadOther, ReadRequest, Checks, CheckVersion, CheckToken,
     CheckMethodType, FindMethod, CheckId, CheckParams, Check, Goto, Reply, Error, traces
<1>2. CASE pc' # "answered" /\ pc # "params"
  BY <1>2, EarlyStep DEF ReadEmpty, ReadOther, ReadRequest, Checks, CheckVersion, CheckToken,
     CheckMethodType, FindMethod, CheckId, CheckParams, Check, Goto, Reply, Error, traces, Early
<1>3. CASE pc' # "answered" /\ pc = "params"
  <2>1. /\ p' = body.params /\ pc' = IF Class[fn] = "Func" THEN "size" ELSE "wrapped"
        /\ UNCHANGED << body, args, obj_store, passphrases, cached, out_params >>
    BY <1>3 DEF ReadEmpty, ReadOther, ReadRequest, Checks, CheckVersion, CheckToken,
       CheckMethodType, FindMethod, CheckId, CheckParams, Check, Goto, Reply, traces
  <2>2. PassphraseInv'
    BY <2>1 DEF WorkInv, PassphraseInv
  <2>3. OutputsFit'
    BY <2>1 DEF OutputsFit
  <2>4. SettingInv' \/ pc' # "size"
    BY <2>1 DEF SettingInv, fn
  <2>5. QED
    BY <1>3, <2>1, <2>2, <2>3, <2>4 DEF WorkInv, Early, fn
<1>4. QED
  BY <1>1, <1>2, <1>3

\* a setting is kept, or is of the wrong type
LEMMA WrappedStep ==
  ASSUME CheckedInv, body \in Requests, WorkInv,
         FuncCache \/ FuncCachePassphrase \/ FuncCachePassphrase4NewKeys
  PROVE  WorkInv'
<1>1. /\ pc = "wrapped" /\ p = body.params /\ cached = None /\ passphrases = << >>
      /\ args = << >> /\ obj_store = << >> /\ out_params = << >>
  BY DEF FuncCache, FuncCachePassphrase, FuncCachePassphrase4NewKeys, WorkInv
<1>2. p \in Seq(Values) /\ Len(p) \in Nat
  <2>1. body.params # None
    BY <1>1 DEF CheckedInv, Working
  <2>2. QED
    BY <1>1, <2>1, RpcAssumption, LenProperties
<1>3. CASE Throw
  BY <1>3, ErrorEnds DEF Throw, Reply, Error, traces
<1>4. CASE Goto("crashed")
  <2>1. PassphraseInv' /\ OutputsFit'
    BY <1>4 DEF Goto, traces, WorkInv, PassphraseInv, OutputsFit
  <2>2. QED
    BY <1>4, <2>1 DEF Goto, WorkInv, Early
<1>5. CASE ~ Throw /\ ~ Goto("crashed")
  <2>1. /\ pc' = "size"
        /\ UNCHANGED << body, p, args, obj_store, out_params >>
    BY <1>5 DEF FuncCache, FuncCachePassphrase, FuncCachePassphrase4NewKeys, Cache
  <2>2. CASE FuncCache
    <3>1. /\ Class[fn] = "FuncCache" /\ p # << >> /\ p[1].type = "bool"
          /\ cached' = << p[1] >> /\ passphrases' = passphrases
      BY <1>5, <2>2 DEF FuncCache, Cache
    <3>2. Len(p) >= 1 /\ p[1] \in Values
      BY <1>2, <3>1, EmptySeq, ElementOfSeq
    <3>3. PassphraseInv'
      BY <1>1, <3>1, <3>2 DEF PassphraseInv
    <3>4. SettingInv'
      BY <1>1, <2>1, <3>1, <3>2 DEF SettingInv, fn
    <3>5. QED
      BY <1>1, <2>1, <3>3, <3>4 DEF WorkInv, Early, OutputsFit
  <2>3. CASE FuncCachePassphrase
    <3>1. /\ Class[fn] = "FuncCachePassphrase" /\ p # << >> /\ p[1].type = "str"
          /\ cached' = << p[1] >> /\ passphrases' = Append(passphrases, p[1])
      BY <1>5, <2>3 DEF FuncCachePassphrase, Cache
    <3>2. Len(p) >= 1 /\ p[1] \in Values
      BY <1>2, <3>1, EmptySeq, ElementOfSeq
    <3>3. passphrases' = << p[1] >>
      BY <1>1, <3>1
    <3>4. PassphraseInv'
      BY <3>1, <3>2, <3>3 DEF PassphraseInv
    <3>5. SettingInv'
      BY <1>1, <2>1, <3>1, <3>2 DEF SettingInv, fn
    <3>6. QED
      BY <1>1, <2>1, <3>4, <3>5 DEF WorkInv, Early, OutputsFit
  <2>4. CASE FuncCachePassphrase4NewKeys
    <3>1. /\ Class[fn] = "FuncCachePassphrase4NewKeys" /\ Len(p) >= 2
          /\ p[1].type = "bool" /\ p[2].type = "str"
          /\ cached' = << p[1], p[2] >> /\ passphrases' = Append(passphrases, p[2])
      BY <1>2, <1>5, <2>4 DEF FuncCachePassphrase4NewKeys, Cache
    <3>2. p[1] \in Values /\ p[2] \in Values
      BY <1>2, <3>1, ElementOfSeq
    <3>3. passphrases' = << p[2] >>
      BY <1>1, <3>1
    <3>4. PassphraseInv'
      BY <3>1, <3>2, <3>3 DEF PassphraseInv
    <3>5. SettingInv'
      BY <1>1, <2>1, <3>1, <3>2 DEF SettingInv, fn
    <3>6. QED
      BY <1>1, <2>1, <3>4, <3>5 DEF WorkInv, Early, OutputsFit
  <2>5. QED
    BY <2>2, <2>3, <2>4
<1>6. QED
  BY <1>3, <1>4, <1>5

\* nothing is extracted yet when the parameters are copied
LEMMA CheckSizeStep ==
  ASSUME WorkInv, CheckSize
  PROVE  WorkInv'
<1>1. CASE Throw
  BY <1>1, ErrorEnds DEF Throw, Reply, Error, traces
<1>2. CASE ~ Throw
  <2>1. /\ pc = "size" /\ pc' = "extract" /\ p = body.params
        /\ Len(p) = nr_of_input_params(fn) /\ p' = copyParam(fn, p)
        /\ args = << >> /\ obj_store = << >> /\ out_params = << >>
        /\ UNCHANGED << body, args, obj_store, passphrases, cached, out_params >>
    BY <1>2 DEF CheckSize, WorkInv, traces
  <2>2. fn' = fn
    BY <2>1 DEF fn
  <2>3. ExtractInv'
    <3>1. Len(body'.params) = nr_of_input_params(fn)' /\ p' = copyParam(fn, body.params)'
      BY <2>1, <2>2 DEF nr_of_input_params, InputsBefore, copyParam
    <3>2. args' = << >> /\ obj_store' = << >> /\ Len(<< >>) = 0
      BY <2>1
    <3>3. << >> \in Seq(ArgValues) /\ DOMAIN << >> = {} /\ 1 .. 0 = {}
      BY EmptySeq
    <3>4. Len(Sig[fn]) \in Nat
      BY <2>1, RpcAssumption, LenProperties
    <3>5. QED
      BY <2>2, <3>1, <3>2, <3>3, <3>4 DEF ExtractInv, ArgValues
  <2>4. SettingInv'
    BY <2>1, <2>2 DEF WorkInv, SettingInv
  <2>5. PassphraseInv' /\ OutputsFit'
    BY <2>1 DEF WorkInv, PassphraseInv, OutputsFit
  <2>6. QED
    BY <2>1, <2>3, <2>4, <2>5 DEF WorkInv, Early
<1>3. QED
  BY <1>1, <1>2

\* copied parameters are values
LEMMA CopyTyped ==
  ASSUME fn \in Functions, ExtractInv, body.params \in Seq(Values),
         NEW i \in 1 .. Len(Sig[fn])
  PROVE  p[i] \in Values \cup {Null}
<1>1. CASE need_input(Sig[fn][i])
  <2>1. InputsBefore(fn, i) + 1 \in 1 .. Len(body.params)
    BY <1>1, InputPlace DEF ExtractInv
  <2>2. p[i] = body.params[InputsBefore(fn, i) + 1]
    BY <1>1 DEF ExtractInv, copyParam
  <2>3. QED
    BY <2>1, <2>2, ElementOfSeq
<1>2. CASE ~ need_input(Sig[fn][i])
  BY <1>2 DEF ExtractInv, copyParam
<1>3. QED
  BY <1>1, <1>2

\* one more argument
LEMMA ExtractStep ==
  ASSUME fn \in Functions, body.params \in Seq(Values), WorkInv, Extract
  PROVE  WorkInv'
<1> DEFINE i == Len(args) + 1
           k == Sig[fn][i]
<1>1. CASE Throw
  BY <1>1, ErrorEnds DEF Throw, Reply, Error, traces
<1>2. CASE ~ Throw
  <2>1. /\ pc = "extract" /\ i <= Len(Sig[fn]) /\ Accepts(k, p[i], i)
        /\ args' = Append(args, CASE k \in {"length", "hidden_length"} -> Size(PreviousLength(i))
                                  [] k \in {"session", "out"} -> None
                                  [] OTHER -> p[i])
        /\ obj_store' = (IF k \in {"string", "nullable", "binary"}
                         THEN [j \in DOMAIN obj_store \cup {i} |->
                                 IF j = i THEN Octets(k, p[i]) ELSE obj_store[j]]
                         ELSE obj_store)
        /\ UNCHANGED << body, pc, p, passphrases, cached, out_params, answer >>
    BY <1>2 DEF Extract, traces
  <2>2. ExtractInv
    BY <2>1 DEF WorkInv
  <2>3. /\ args \in Seq(ArgValues) /\ Len(args) \in Nat /\ Len(Sig[fn]) \in Nat
        /\ i \in 1 .. Len(Sig[fn]) /\ k \in Kinds
    <3>1. args \in Seq(ArgValues) /\ Len(args) \in Nat /\ Sig[fn] \in Seq(Kinds)
      BY <2>2, RpcAssumption, LenProperties DEF ExtractInv
    <3>2. Len(Sig[fn]) \in Nat /\ i \in 1 .. Len(Sig[fn])
      BY <2>1, <3>1, LenProperties
    <3>3. QED
      BY <3>1, <3>2, ElementOfSeq
  <2>4. k \in Lengths =>
           /\ i - 1 \in 1 .. Len(args) /\ Sig[fn][i - 1] \in Measured
           /\ PreviousLength(i) = Octets(Sig[fn][i - 1], p[i - 1])
    <3>1. k \in Lengths => i - 1 \in DOMAIN obj_store
      BY <2>1 DEF Accepts, Lengths
    <3>2. QED
      BY <2>2, <3>1 DEF ExtractInv, PreviousLength
  <2>5. args' = Append(args, Argument(i))
    BY <2>1, <2>4 DEF Argument, Lengths
  <2>6. Argument(i) \in ArgValues
    <3>1. k \in Lengths => Argument(i) \in ArgValues
      <4>1. SUFFICES ASSUME k \in Lengths PROVE Argument(i) \in ArgValues
        OBVIOUS
      <4>2. /\ i - 1 \in 1 .. Len(Sig[fn]) /\ Sig[fn][i - 1] \in Kinds
            /\ Argument(i) = Size(Octets(Sig[fn][i - 1], p[i - 1]))
        BY <2>3, <2>4, <4>1 DEF Argument, Measured, Kinds, Lengths
      <4>3. p[i - 1] \in Values \cup {Null}
        BY <2>2, <4>2, CopyTyped
      <4>4. QED
        BY <4>2, <4>3 DEF ArgValues
    <3>2. k \notin Lengths => Argument(i) \in ArgValues
      BY <2>2, <2>3, CopyTyped DEF Argument, ArgValues
    <3>3. QED
      BY <3>1, <3>2
  <2>7. /\ args' \in Seq(ArgValues) /\ Len(args') = i
        /\ args'[i] = Argument(i) /\ \A j \in 1 .. Len(args) : args'[j] = args[j]
    BY <2>3, <2>5, <2>6, AppendProperties
  <2>8. fn' = fn /\ p' = p /\ body' = body
    BY <2>1 DEF fn
  <2>9. /\ DOMAIN obj_store' = { j \in 1 .. i : Sig[fn][j] \in Measured }
        /\ \A j \in DOMAIN obj_store' : obj_store'[j] = Octets(Sig[fn][j], p[j])
    <3>1. /\ DOMAIN obj_store = { j \in 1 .. Len(args) : Sig[fn][j] \in Measured }
          /\ \A j \in DOMAIN obj_store : obj_store[j] = Octets(Sig[fn][j], p[j])
      BY <2>2 DEF ExtractInv
    <3>2. \A j : j \in 1 .. i <=> j \in 1 .. Len(args) \/ j = i
      BY <2>3
    <3>3. i \notin DOMAIN obj_store
      BY <2>3, <3>1
    <3>4. CASE k \in Measured
      <4>1. obj_store' = [j \in DOMAIN obj_store \cup {i} |->
                            IF j = i THEN Octets(k, p[i]) ELSE obj_store[j]]
        BY <2>1, <3>4 DEF Measured
      <4>2. DOMAIN obj_store' = DOMAIN obj_store \cup {i}
        BY <4>1
      <4>3. DOMAIN obj_store' = { j \in 1 .. i : Sig[fn][j] \in Measured }
        BY <3>1, <3>2, <3>4, <4>2
      <4>4. \A j \in DOMAIN obj_store \cup {i} : obj_store'[j] = Octets(Sig[fn][j], p[j])
        BY <3>1, <4>1
      <4>5. QED
        BY <4>2, <4>3, <4>4
    <3>5. CASE k \notin Measured
      BY <2>1, <3>1, <3>2, <3>5 DEF Measured
    <3>6. QED
      BY <3>4, <3>5
  <2>10. ASSUME NEW j \in 1 .. i
         PROVE  /\ args'[j] = Argument(j)
                /\ Sig[fn][j] \in Lengths => j - 1 \in 1 .. i /\ Sig[fn][j - 1] \in Measured
    <3>1. CASE j = i
      BY <2>3, <2>4, <2>7, <3>1
    <3>2. CASE j # i
      <4>1. j \in 1 .. Len(args)
        BY <2>3, <3>2
      <4>2. QED
        BY <2>2, <2>3, <2>7, <4>1 DEF ExtractInv
    <3>3. QED
      BY <3>1, <3>2
  <2>11. \A j : Argument(j)' = Argument(j)
    BY <2>8 DEF Argument
  <2>12. copyParam(fn, body.params)' = copyParam(fn, body.params)
         /\ nr_of_input_params(fn)' = nr_of_input_params(fn)
    BY <2>8 DEF copyParam, nr_of_input_params, InputsBefore
  <2>13. ExtractInv'
    <3> HIDE DEF i, k
    <3>1. i <= Len(Sig[fn]) /\ Len(args') = i
      BY <2>1, <2>7
    <3>2. /\ Len(body'.params) = nr_of_input_params(fn)'
          /\ p' = copyParam(fn, body.params)'
      BY <2>2, <2>8, <2>12 DEF ExtractInv
    <3>3. QED
      BY <2>7, <2>8, <2>9, <2>10, <2>11, <3>1, <3>2 DEF ExtractInv, ArgValues
  <2>14. SettingInv' /\ PassphraseInv' /\ OutputsFit'
    BY <2>1, <2>8 DEF WorkInv, SettingInv, PassphraseInv, OutputsFit
  <2>15. QED
    BY <2>1, <2>13, <2>14 DEF WorkInv, Early
<1>3. QED
  BY <1>1, <1>2

\* all arguments are there
LEMMA ExecuteStep ==
  ASSUME fn \in Functions, WorkInv, Execute
  PROVE  WorkInv'
<1>1. /\ pc = "extract" /\ Len(args) = Len(Sig[fn]) /\ out_params = << >>
      /\ UNCHANGED << body, args, out_params, passphrases, cached >>
  BY DEF Execute, WorkInv, Early
<1>2. CASE pc' = "unwind"
  <2>1. OutputsAbove(out_params, Len(args))'
    <3>1. fn' = fn /\ Len(Sig[fn]) \in Nat
      BY <1>1, RpcAssumption, LenProperties DEF fn
    <3>2. /\ out_params' \in Seq(Nat) /\ DOMAIN out_params' = {}
          /\ Len(args') + 1 .. Len(Sig[fn]') = {}
      BY <1>1, <3>1, EmptySeq
    <3>3. QED
      BY <3>1, <3>2 DEF OutputsAbove, ToSet
  <2>2. PassphraseInv' /\ OutputsFit'
    BY <1>1, <1>2 DEF WorkInv, PassphraseInv, OutputsFit
  <2>3. args' \in Seq(ArgValues)' /\ Len(args') <= Len(Sig[fn])'
    BY <1>1 DEF WorkInv, ExtractInv, ArgValues, fn
  <2>4. QED
    BY <1>2, <2>1, <2>2, <2>3 DEF WorkInv, Early
<1>3. CASE pc' # "unwind"
  BY <1>1, <1>3, ErrorEnds DEF Execute, Error
<1>4. QED
  BY <1>2, <1>3

\* the output of the last argument is put out
LEMMA UnwindStep ==
  ASSUME fn \in Functions, WorkInv, Unwind
  PROVE  WorkInv'
<1> DEFINE n == Len(args)
           out == is_output(Sig[fn][n])
<1>1. /\ pc = "unwind" /\ args # << >> /\ args' = Front(args)
      /\ out_params' = IF out THEN Append(out_params, n) ELSE out_params
      /\ UNCHANGED << body, pc, passphrases, cached, answer >>
  BY DEF Unwind, traces
<1>2. /\ args \in Seq(ArgValues) /\ n <= Len(Sig[fn]) /\ OutputsAbove(out_params, n)
      /\ fn' = fn /\ n \in Nat \ {0} /\ Len(Sig[fn]) \in Nat
  <2>1. args \in Seq(ArgValues) /\ n <= Len(Sig[fn]) /\ OutputsAbove(out_params, n)
    BY <1>1 DEF WorkInv
  <2>2. QED
    BY <1>1, <2>1, RpcAssumption, LenProperties, EmptySeq DEF fn
<1>3. args' \in Seq(ArgValues) /\ Len(args') = n - 1
  <2>1. \A i \in 1 .. n - 1 : args[i] \in ArgValues
    BY <1>2, ElementOfSeq
  <2>2. args' = SubSeq(args, 1, n - 1) /\ n - 1 \in Int
    BY <1>1, <1>2 DEF Front
  <2>3. args' \in Seq(ArgValues) /\ Len(args') = IF 1 <= n - 1 THEN (n - 1) - 1 + 1 ELSE 0
    <3> HIDE DEF n
    <3>1. QED
      BY <2>1, <2>2, SubSeqProperties
  <2>4. QED
    <3> HIDE DEF n
    <3>1. QED
      BY <1>2, <2>3
<1>4. ToSet(out_params) = { i \in n + 1 .. Len(Sig[fn]) : is_output(Sig[fn][i]) }
  BY <1>2 DEF OutputsAbove
<1>5. \A i : i \in n .. Len(Sig[fn]) <=> i = n \/ i \in n + 1 .. Len(Sig[fn])
  BY <1>2
<1>6. OutputsAbove(out_params, Len(args))'
  <2>1. CASE out
    <3>1. /\ out_params' \in Seq(Nat) /\ Len(out_params') = Len(out_params) + 1
          /\ Len(out_params) \in Nat
          /\ \A j \in 1 .. Len(out_params) : out_params'[j] = out_params[j]
          /\ out_params'[Len(out_params) + 1] = n
      BY <1>1, <1>2, <2>1, AppendProperties, LenProperties DEF OutputsAbove
    <3>2. /\ DOMAIN out_params' = 1 .. Len(out_params) + 1
          /\ DOMAIN out_params = 1 .. Len(out_params)
      BY <1>2, <3>1, LenProperties DEF OutputsAbove
    <3>3. ToSet(out_params') = ToSet(out_params) \cup {n}
      BY <3>1, <3>2 DEF ToSet
    <3>4. ToSet(out_params') = { i \in n .. Len(Sig[fn]) : is_output(Sig[fn][i]) }
      BY <1>4, <1>5, <2>1, <3>3
    <3>5. \A j \in DOMAIN out_params : out_params[j] > n
      <4>1. \A j \in DOMAIN out_params : out_params[j] \in ToSet(out_params)
        BY DEF ToSet
      <4>2. QED
        BY <1>2, <1>4, <4>1
    <3>6. ASSUME NEW i \in DOMAIN out_params', NEW j \in DOMAIN out_params', i < j
          PROVE  out_params'[i] > out_params'[j]
      <4>1. i \in DOMAIN out_params /\ out_params'[i] = out_params[i]
        BY <3>1, <3>2, <3>6
      <4>2. CASE j \in DOMAIN out_params
        <5>1. out_params[i] > out_params[j] /\ out_params'[j] = out_params[j]
          BY <1>2, <3>1, <3>2, <3>6, <4>1, <4>2 DEF OutputsAbove
        <5>2. QED
          BY <4>1, <5>1
      <4>3. CASE j \notin DOMAIN out_params
        <5>1. j = Len(out_params) + 1
          BY <3>1, <3>2, <4>3
        <5>2. QED
          BY <3>1, <3>5, <4>1, <5>1
      <4>4. QED
        BY <4>2, <4>3
    <3>7. (n - 1) + 1 = n
      BY <1>2
    <3>8. QED
      BY <1>2, <1>3, <3>1, <3>4, <3>6, <3>7 DEF OutputsAbove
  <2>2. CASE ~ out
    <3>1. { i \in n .. Len(Sig[fn]) : is_output(Sig[fn][i]) } = ToSet(out_params)
      BY <1>4, <1>5, <2>2
    <3>2. (n - 1) + 1 = n /\ out_params' = out_params
      BY <1>1, <1>2, <2>2
    <3>3. QED
      BY <1>2, <1>3, <3>1, <3>2 DEF OutputsAbove
  <2>3. QED
    BY <2>1, <2>2
<1>7. PassphraseInv' /\ OutputsFit'
  BY <1>1 DEF WorkInv, PassphraseInv, OutputsFit
<1>8. args' \in Seq(ArgValues)' /\ Len(args') <= Len(Sig[fn])'
  BY <1>2, <1>3 DEF ArgValues
<1>9. QED
  BY <1>1, <1>6, <1>7, <1>8 DEF WorkInv, Early

\* all outputs are there
LEMMA ReturnStep ==
  ASSUME fn \in Functions, WorkInv, Return
  PROVE  WorkInv'
<1>1. /\ pc = "unwind" /\ args = << >> /\ pc' = "answered"
      /\ answer'.outs = out_params
      /\ UNCHANGED << body, passphrases, cached >>
  BY DEF Return, Reply, Result, traces
<1>2. OutputsAbove(out_params, 0)
  BY <1>1, EmptySeq DEF WorkInv
<1>3. OutputsFit' /\ PassphraseInv'
  BY <1>1, <1>2 DEF OutputsFit, OutputsAbove, WorkInv, PassphraseInv, fn
<1>4. QED
  BY <1>1, <1>3 DEF WorkInv, Early

LEMMA WorkStutter ==
  ASSUME WorkInv, UNCHANGED vars
  PROVE  WorkInv'
<1> USE DEF vars, traces
<1>1. fn' = fn
  BY DEF fn
<1>2. SettingInv' = SettingInv /\ PassphraseInv' = PassphraseInv /\ OutputsFit' = OutputsFit
  BY DEF SettingInv, PassphraseInv, OutputsFit, fn
<1>3. ExtractInv => ExtractInv'
  <2>1. \A i : Argument(i)' = Argument(i)
    BY <1>1 DEF Argument
  <2>2. /\ copyParam(fn, body.params)' = copyParam(fn, body.params)
        /\ nr_of_input_params(fn)' = nr_of_input_params(fn)
    BY <1>1 DEF copyParam, nr_of_input_params, InputsBefore
  <2>3. QED
    BY <1>1, <2>1, <2>2 DEF ExtractInv, ArgValues
<1>4. OutputsAbove(out_params, Len(args)) => OutputsAbove(out_params, Len(args))'
  BY <1>1 DEF OutputsAbove
<1>5. QED
  BY <1>1, <1>2, <1>3, <1>4 DEF WorkInv, Early, ArgValues

\* the body stays what it was read as
BodyInv == body \in Requests \cup {Empty, Other}

LEMMA WorkStep ==
  ASSUME BodyInv, DispatchInv, WorkInv, [Next]_vars
  PROVE  WorkInv'
<1>1. CheckedInv
  BY DEF DispatchInv
<1>2. pc \in Working => fn \in Functions /\ body \in Requests /\ body.params \in Seq(Values)
  BY <1>1, RpcAssumption DEF CheckedInv, Working, fn, IsRequest, BodyInv
<1>3. CASE UNCHANGED vars
  BY <1>3, WorkStutter
<1>4. CASE ReadEmpty \/ ReadOther \/ ReadRequest \/ Checks
  BY <1>4, ChecksStep
<1>5. CASE FuncCache \/ FuncCachePassphrase \/ FuncCachePassphrase4NewKeys
  <2>1. pc = "wrapped"
    BY <1>5 DEF FuncCache, FuncCachePassphrase, FuncCachePassphrase4NewKeys
  <2>2. QED
    BY <1>1, <1>2, <1>5, <2>1, WrappedStep DEF Working
<1>6. CASE CheckSize
  BY <1>6, CheckSizeStep
<1>7. CASE Extract
  <2>1. pc = "extract"
    BY <1>7 DEF Extract
  <2>2. QED
    BY <1>2, <1>7, <2>1, ExtractStep DEF Working
<1>8. CASE Execute
  <2>1. pc = "extract"
    BY <1>8 DEF Execute
  <2>2. QED
    BY <1>2, <1>8, <2>1, ExecuteStep DEF Working
<1>9. CASE Unwind \/ Return
  <2>1. pc = "unwind"
    BY <1>9 DEF Unwind, Return
  <2>2. QED
    BY <1>2, <1>9, <2>1, UnwindStep, ReturnStep DEF Working
<1>10. QED
  BY <1>3, <1>4, <1>5, <1>6, <1>7, <1>8, <1>9 DEF Next

-----------------------------------------------------------------------------
(* The properties. *)

\* the arguments when the function is called
LEMMA ArgumentsAre ==
  ASSUME fn \in Functions, ExtractInv, NEW i \in 1 .. Len(args)
  PROVE  LET k == Sig[fn][i] IN
         /\ k \in Lengths =>
               args[i] = Size(IF Sig[fn][i - 1] = "binary" THEN args[i - 1].raw
                                                           ELSE args[i - 1].n)
         /\ need_input(k) /\ k \notin {"length", "out"} =>
               args[i] = body.params[Cardinality(InputsTo(fn, i))]
<1> DEFINE k == Sig[fn][i]
<1>1. i \in 1 .. Len(Sig[fn]) /\ Len(args) \in Nat
  BY RpcAssumption, LenProperties DEF ExtractInv
<1>2. ASSUME k \in Lengths
      PROVE  args[i] = Size(IF Sig[fn][i - 1] = "binary" THEN args[i - 1].raw
                                                         ELSE args[i - 1].n)
  <2>1. /\ args[i] = Size(Octets(Sig[fn][i - 1], p[i - 1]))
        /\ i - 1 \in 1 .. Len(args) /\ Sig[fn][i - 1] \in Measured
    BY <1>2 DEF ExtractInv, Argument, Lengths
  <2>2. args[i - 1] = p[i - 1]
    BY <2>1 DEF ExtractInv, Argument, Lengths, Measured
  <2>3. QED
    BY <2>1, <2>2 DEF Octets
<1>3. ASSUME need_input(k), k \notin {"length", "out"}
      PROVE  args[i] = body.params[Cardinality(InputsTo(fn, i))]
  <2>1. args[i] = p[i]
    BY <1>3 DEF ExtractInv, Argument, Lengths, need_input
  <2>2. p[i] = body.params[InputsBefore(fn, i) + 1]
    BY <1>1, <1>3 DEF ExtractInv, copyParam
  <2>3. QED
    BY <1>1, <1>3, <2>1, <2>2, InputPlace
<1>4. QED
  BY <1>2, <1>3

LEMMA ArgumentsSuffice ==
  ASSUME CheckedInv, WorkInv
  PROVE  ArgumentsFit
<1> SUFFICES ASSUME pc = "extract", Len(args) = Len(Sig[fn]), NEW i \in DOMAIN args
             PROVE  LET k == Sig[fn][i] IN
                    /\ k \in {"length", "hidden_length"} =>
                          args[i] = Size(IF Sig[fn][i - 1] = "binary" THEN args[i - 1].raw
                                                                      ELSE args[i - 1].n)
                    /\ need_input(k) /\ k \notin {"length", "out"} =>
                          args[i] = body.params[Cardinality({ j \in 1 .. i : need_input(Sig[fn][j]) })]
  BY DEF ArgumentsFit
<1>1. fn \in Functions /\ ExtractInv
  BY DEF CheckedInv, Working, WorkInv, fn
<1>2. i \in 1 .. Len(args)
  BY <1>1, LenProperties DEF ExtractInv
<1>3. QED
  BY <1>1, <1>2, ArgumentsAre DEF Lengths, InputsTo

LEMMA TailOfTwo ==
  ASSUME NEW S, NEW s \in Seq(S), Len(s) = 2
  PROVE  Tail(s) = << s[2] >>
<1>1. s # << >> /\ s[2] \in S
  BY EmptySeq, ElementOfSeq
<1>2. /\ Tail(s) \in Seq(S) /\ Len(Tail(s)) = Len(s) - 1
      /\ \A i \in 1 .. Len(Tail(s)) : Tail(s)[i] = s[i + 1]
  BY <1>1, HeadTailProperties
<1>3. Len(Tail(s)) = 1
  BY <1>2
<1>4. << s[2] >> \in Seq(S) /\ Len(<< s[2] >>) = 1 /\ << s[2] >>[1] = s[2]
  BY <1>1
<1>5. \A i \in 1 .. 1 : Tail(s)[i] = << s[2] >>[i]
  <2>1. Tail(s)[1] = s[2]
    BY <1>2, <1>3
  <2>2. \A i \in 1 .. 1 : i = 1
    OBVIOUS
  <2>3. QED
    BY <1>4, <2>1, <2>2
<1>6. QED
  BY <1>2, <1>3, <1>4, <1>5, SeqEqual

LEMMA TailOfThree ==
  ASSUME NEW S, NEW s \in Seq(S), Len(s) = 3
  PROVE  Tail(s) = << s[2], s[3] >>
<1>1. s # << >> /\ s[2] \in S /\ s[3] \in S
  <2>1. s # << >>
    BY EmptySeq
  <2>2. 2 \in 1 .. Len(s) /\ 3 \in 1 .. Len(s)
    OBVIOUS
  <2>3. QED
    BY <2>1, <2>2, ElementOfSeq
<1>2. /\ Tail(s) \in Seq(S) /\ Len(Tail(s)) = Len(s) - 1
      /\ \A i \in 1 .. Len(Tail(s)) : Tail(s)[i] = s[i + 1]
  BY <1>1, HeadTailProperties
<1>3. Len(Tail(s)) = 2
  BY <1>2
<1>4. /\ << s[2], s[3] >> \in Seq(S) /\ Len(<< s[2], s[3] >>) = 2
      /\ << s[2], s[3] >>[1] = s[2] /\ << s[2], s[3] >>[2] = s[3]
  BY <1>1
<1>5. \A i \in 1 .. 2 : Tail(s)[i] = << s[2], s[3] >>[i]
  <2>1. Tail(s)[1] = s[2] /\ Tail(s)[2] = s[3]
    BY <1>2, <1>3
  <2>2. \A i \in 1 .. 2 : i = 1 \/ i = 2
    OBVIOUS
  <2>3. QED
    BY <1>4, <2>1, <2>2
<1>6. QED
  BY <1>2, <1>3, <1>4, <1>5, SeqEqual

\* the settings have been called with what is cached
LEMMA SettingApplied ==
  ASSUME fn \in Functions, ExtractInv, SettingInv, Len(args) = Len(Sig[fn]), Class[fn] # "Func"
  PROVE  cached = Tail(args)
<1>1. /\ args \in Seq(ArgValues) /\ 1 \in Int /\ 2 \in Int /\ 3 \in Int
      /\ \A i \in 1 .. Len(args) :
            need_input(Sig[fn][i]) /\ Sig[fn][i] \notin {"length", "out"} =>
               args[i] = body.params[Cardinality(InputsTo(fn, i))]
  BY ArgumentsAre DEF ExtractInv
<1>2. Sig[fn][1] = "session" /\ Sig[fn][2] \in {"bool", "string"} => Cardinality(InputsTo(fn, 2)) = 1
  <2>1. Sig[fn][1] = "session" /\ Sig[fn][2] \in {"bool", "string"} => InputsTo(fn, 2) = {2}
    BY DEF InputsTo, need_input
  <2>2. QED
    BY <2>1, FS_Singleton
<1>3. CASE Class[fn] \in {"FuncCache", "FuncCachePassphrase"}
  <2>1. Sig[fn] \in {<< "session", "bool" >>, << "session", "string" >>}
    BY <1>3, RpcAssumption
  <2>2. Len(args) = 2 /\ Sig[fn][1] = "session" /\ Sig[fn][2] \in {"bool", "string"}
    BY <2>1
  <2>3. args[2] = body.params[1]
    BY <1>1, <1>2, <2>2 DEF need_input
  <2>4. Tail(args) = << args[2] >>
    BY <1>1, <2>2, TailOfTwo
  <2>5. QED
    BY <1>3, <2>3, <2>4 DEF SettingInv
<1>4. CASE Class[fn] = "FuncCachePassphrase4NewKeys"
  <2>1. Sig[fn] = << "session", "bool", "string" >>
    BY <1>4, RpcAssumption
  <2>2. Len(args) = 3 /\ Sig[fn][1] = "session" /\ Sig[fn][2] = "bool" /\ Sig[fn][3] = "string"
    BY <2>1
  <2>3. Cardinality(InputsTo(fn, 3)) = 2
    <3>1. InputsTo(fn, 3) = {2} \cup {3}
      BY <2>2 DEF InputsTo, need_input
    <3>2. IsFiniteSet({2}) /\ Cardinality({2}) = 1
      BY FS_Singleton
    <3>3. 3 \notin {2} /\ 1 + 1 = 2
      OBVIOUS
    <3>4. Cardinality({2} \cup {3}) = 1 + 1
      BY <3>2, <3>3, FS_AddElement
    <3>5. QED
      BY <3>1, <3>3, <3>4
  <2>4. args[2] = body.params[1] /\ args[3] = body.params[2]
    BY <1>1, <1>2, <2>2, <2>3 DEF need_input
  <2>5. Tail(args) = << args[2], args[3] >>
    BY <1>1, <2>2, TailOfThree
  <2>6. QED
    BY <1>4, <2>4, <2>5 DEF SettingInv
<1>5. QED
  BY <1>3, <1>4, RpcAssumption DEF Classes

LEMMA CachedSuffice ==
  ASSUME CheckedInv, WorkInv
  PROVE  CachedIsApplied
<1>1. pc = "extract" /\ Len(args) = Len(Sig[fn]) /\ Class[fn] # "Func" => cached = Tail(args)
  <2>1. pc = "extract" => fn \in Functions /\ ExtractInv /\ SettingInv
    BY DEF CheckedInv, Working, WorkInv, fn
  <2>2. QED
    BY <2>1, SettingApplied
<1>2. \A v : v \in Seq(Values) => v # None
  BY RpcAssumption
<1>3. /\ cached # None => /\ ToSet(passphrases) = { v \in ToSet(cached) : v.type = "str" }
                          /\ Len(passphrases) <= 1
      /\ cached = None => passphrases = << >>
  <2>1. CASE cached = None /\ passphrases = << >>
    BY <2>1
  <2>2. ASSUME NEW b \in Values, b.type = "bool", cached = << b >>, passphrases = << >>
        PROVE  /\ cached # None
               /\ ToSet(passphrases) = { v \in ToSet(cached) : v.type = "str" }
               /\ Len(passphrases) <= 1
    <3>1. cached \in Seq(Values)
      BY <2>2
    <3>2. ToSet(cached) = {b} /\ ToSet(passphrases) = {} /\ Len(passphrases) = 0
      BY <2>2 DEF ToSet
    <3>3. { v \in {b} : v.type = "str" } = {}
      BY <2>2
    <3>4. QED
      BY <1>2, <3>1, <3>2, <3>3
  <2>3. ASSUME NEW w \in Values, w.type = "str", passphrases = << w >>,
               \/ cached = << w >>
               \/ \E b \in Values : b.type = "bool" /\ cached = << b, w >>
        PROVE  /\ cached # None
               /\ ToSet(passphrases) = { v \in ToSet(cached) : v.type = "str" }
               /\ Len(passphrases) <= 1
    <3>1. cached \in Seq(Values)
      <4>1. \A b \in Values : << b, w >> \in Seq(Values)
        OBVIOUS
      <4>2. << w >> \in Seq(Values)
        OBVIOUS
      <4>3. QED
        BY <2>3, <4>1, <4>2
    <3>2. ToSet(passphrases) = {w} /\ Len(passphrases) = 1
      BY <2>3 DEF ToSet
    <3>3. ToSet(cached) = {w} \/ \E b \in Values : b.type = "bool" /\ ToSet(cached) = {b, w}
      BY <2>3 DEF ToSet
    <3>4. QED
      BY <1>2, <2>3, <3>1, <3>2, <3>3
  <2>4. QED
    BY <2>1, <2>2, <2>3 DEF WorkInv, PassphraseInv
<1>4. QED
  BY <1>1, <1>3 DEF CachedIsApplied

LEMMA DispatchHolds == Spec => [](BodyInv /\ DispatchInv /\ WorkInv)
<1>1. Init => BodyInv /\ DispatchInv /\ WorkInv
  BY DispatchInit, WorkInit DEF Init, BodyInv
<1>2. BodyInv /\ [Next]_vars => BodyInv'
  BY DEF BodyInv, Next, vars, ReadEmpty, ReadOther, ReadRequest, Checks, CheckVersion,
     CheckToken, CheckMethodType, FindMethod, CheckId, CheckParams, Check, Goto, Reply,
     FuncCache, FuncCachePassphrase, FuncCachePassphrase4NewKeys, Cache, Throw, CheckSize,
     Extract, Execute, Unwind, Return
<1>3. BodyInv /\ DispatchInv /\ WorkInv /\ [Next]_vars => (BodyInv /\ DispatchInv /\ WorkInv)'
  BY <1>2, DispatchStep, WorkStep
<1>4. QED
  BY <1>1, <1>3, PTL DEF Spec

-----------------------------------------------------------------------------
(* The types. *)

LEMMA TypesInit == Init => TypeOK
  BY RpcAssumption DEF Init, TypeOK, States

\* the id keeps its lower bits
LEMMA TruncatedTyped ==
  ASSUME NEW n \in Int
  PROVE  Truncated(n) \in -IntRange .. IntRange - 1
<1>1. IntRange \in Nat \ {0}
  BY RpcAssumption
<1>2. (n + IntRange) % (2 * IntRange) \in 0 .. 2 * IntRange - 1
  BY <1>1
<1>3. QED
  BY <1>1, <1>2 DEF Truncated

LEMMA TypesStep ==
  ASSUME BodyInv, DispatchInv, WorkInv, TypeOK, [Next]_vars
  PROVE  TypeOK'
<1>1. CheckedInv /\ TraceInv
  BY DEF DispatchInv
<1>2. pc \in {"params"} \cup Working =>
         fn \in Functions /\ body \in Requests /\ (body.params = None \/ body.params \in Seq(Values))
  BY <1>1, RpcAssumption DEF CheckedInv, Working, fn, IsRequest, BodyInv
<1>3. CASE UNCHANGED vars
  BY <1>3 DEF vars, traces, TypeOK
<1>4. ASSUME NEW a, Reply(a), a.code \in Codes
      PROVE  TypeOK'
  BY <1>4 DEF Reply, traces, TypeOK, States
<1>5. ASSUME NEW l \in States, Goto(l)
      PROVE  TypeOK'
  BY <1>5 DEF Goto, traces, TypeOK
<1>6. ASSUME Throw
      PROVE  TypeOK'
  BY <1>4, <1>6 DEF Throw, Error, Codes
<1>7. CASE ReadEmpty \/ ReadOther \/ ReadRequest \/ CheckVersion \/ CheckToken \/ CheckMethodType
             \/ FindMethod
  BY <1>4, <1>5, <1>7 DEF ReadEmpty, ReadOther, ReadRequest, CheckVersion, CheckToken,
     CheckMethodType, FindMethod, Check, Error, Codes, States
<1>8. CASE CheckId
  <2>1. body \in Requests
    BY <1>1, <1>8 DEF CheckId, CheckedInv, Working, IsRequest, BodyInv
  <2>2. Truncated(body.id.n) \in -IntRange .. IntRange - 1
    BY <2>1, RpcAssumption, TruncatedTyped
  <2>3. CASE body.id.type \in {"null", "int"}
    BY <1>8, <2>2, <2>3 DEF CheckId, TypeOK, States, traces
  <2>4. CASE body.id.type \notin {"null", "int"}
    BY <1>4, <1>8, <2>4 DEF CheckId, Error, Codes
  <2>5. QED
    BY <2>3, <2>4
<1>9. CASE CheckParams
  <2>1. CASE body.params = None
    BY <1>4, <1>9, <2>1 DEF CheckParams, Error, Codes
  <2>2. CASE body.params # None
    <3>1. pc = "params" /\ p' = body.params /\ pc' \in {"size", "wrapped"}
          /\ UNCHANGED << body, request_id, args, obj_store, traces, out_params, answer >>
      BY <1>9, <2>2 DEF CheckParams
    <3>2. p' \in Seq(Values)
      BY <1>2, <2>2, <3>1
    <3>3. p' \in Seq(Values \cup {Null})
      BY <3>2, SeqMonotonic
    <3>4. QED
      BY <3>1, <3>3 DEF TypeOK, States, traces
  <2>3. QED
    BY <2>1, <2>2
<1>10. CASE FuncCache \/ FuncCachePassphrase \/ FuncCachePassphrase4NewKeys
  <2>1. CASE Throw
    BY <1>6, <2>1
  <2>2. CASE Goto("crashed")
    BY <1>5, <2>2 DEF States
  <2>3. CASE ~ Throw /\ ~ Goto("crashed")
    <3>1. /\ pc' = "size"
          /\ UNCHANGED << body, request_id, p, args, obj_store, executed, out_params, answer >>
      BY <1>10, <2>3 DEF FuncCache, FuncCachePassphrase, FuncCachePassphrase4NewKeys, Cache
    <3>2. WorkInv'
      BY WorkStep
    <3>3. PassphraseInv'
      BY <3>2 DEF WorkInv
    <3>4. passphrases' \in Seq(Values) /\ cached' \in Seq(Values \cup {Null}) \cup {None}
      <4>1. /\ << >> \in Seq(Values)
            /\ \A v \in Values : << v >> \in Seq(Values) /\ << v >> \in Seq(Values \cup {Null})
            /\ \A b, v \in Values : << b, v >> \in Seq(Values \cup {Null})
        OBVIOUS
      <4>2. QED
        BY <3>3, <4>1 DEF PassphraseInv
    <3>5. QED
      BY <3>1, <3>4 DEF TypeOK, States
  <2>4. QED
    BY <2>1, <2>2, <2>3
<1>11. CASE CheckSize
  <2>1. CASE Throw
    BY <1>6, <2>1
  <2>2. CASE ~ Throw
    <3>1. /\ pc = "size" /\ pc' = "extract" /\ p = body.params /\ p' = copyParam(fn, p)
          /\ Len(p) = nr_of_input_params(fn)
          /\ UNCHANGED << body, request_id, args, obj_store, traces, out_params, answer >>
      BY <1>11, <2>2 DEF CheckSize, WorkInv
    <3>2. fn \in Functions /\ p \in Seq(Values)
      BY <1>1, <1>2, <3>1 DEF CheckedInv, Working
    <3>3. Len(Sig[fn]) \in Nat
      BY <3>2, RpcAssumption, LenProperties
    <3>4. ASSUME NEW i \in 1 .. Len(Sig[fn]), need_input(Sig[fn][i])
          PROVE  p[InputsBefore(fn, i) + 1] \in Values
      BY <3>1, <3>2, <3>4, InputPlace, ElementOfSeq
    <3>5. p' \in [1 .. Len(Sig[fn]) -> Values \cup {Null}]
      BY <3>1, <3>4 DEF copyParam
    <3>6. p' \in Seq(Values \cup {Null})
      BY <3>3, <3>5
    <3>7. QED
      BY <3>1, <3>6 DEF TypeOK, States, traces
  <2>3. QED
    BY <2>1, <2>2
<1>12. CASE Extract
  <2>1. CASE Throw
    BY <1>6, <2>1
  <2>2. CASE ~ Throw
    <3>1. /\ pc = "extract"
          /\ UNCHANGED << body, pc, request_id, p, traces, out_params, answer >>
          /\ DOMAIN obj_store' \subseteq DOMAIN obj_store \cup {Len(args) + 1}
      BY <1>12, <2>2 DEF Extract
    <3>2. ExtractInv'
      BY <3>1, WorkStep DEF WorkInv
    <3>3. args' \in Seq(ArgValues)' /\ Len(args) \in Nat
      BY <3>1, <3>2, LenProperties DEF WorkInv, ExtractInv
    <3>4. \A v \in ArgValues : v \in Values \cup {Null, None} \/ v = Size(v.n)
      BY DEF ArgValues, Size
    <3>5. \A i \in DOMAIN args' :
             args'[i] \in Values \cup {Null, None} \/ args'[i] = Size(args'[i].n)
      <4>1. \A i \in DOMAIN args' : args'[i] \in ArgValues
        BY <3>3, ElementOfSeq, LenProperties DEF ArgValues
      <4>2. QED
        BY <3>4, <4>1
    <3>6. QED
      BY <3>1, <3>3, <3>5 DEF TypeOK, traces
  <2>3. QED
    BY <2>1, <2>2
<1>13. CASE Execute
  <2>1. /\ pc = "extract" /\ executed = 0 /\ executed' = 1 /\ pc' \in {"unwind", "answered"}
        /\ answer' = answer \/ answer' = Error("INTERNAL_ERROR", request_id)
        /\ UNCHANGED << body, request_id, p, args, obj_store, passphrases, cached, out_params >>
    BY <1>1, <1>13 DEF Execute, TraceInv, Working
  <2>2. QED
    BY <2>1 DEF TypeOK, States, Error, Codes
<1>14. CASE Unwind
  <2>1. /\ pc = "unwind" /\ args # << >> /\ args' = Front(args)
        /\ UNCHANGED << body, pc, request_id, p, obj_store, traces, answer >>
    BY <1>14 DEF Unwind
  <2>2. pc' = "unwind" /\ WorkInv'
    BY <2>1, WorkStep
  <2>3. out_params' \in Seq(Nat)
    BY <2>2 DEF WorkInv, OutputsAbove
  <2>4. args' \in Seq(ArgValues)
    BY <2>2 DEF WorkInv, ArgValues
  <2>5. \A v \in ArgValues : v \in Values \cup {Null, None} \/ v = Size(v.n)
    BY DEF ArgValues, Size
  <2>6. \A i \in DOMAIN args' :
           args'[i] \in Values \cup {Null, None} \/ args'[i] = Size(args'[i].n)
    BY <2>4, <2>5, ElementOfSeq, LenProperties
  <2>7. QED
    BY <2>1, <2>3, <2>6 DEF TypeOK, traces
<1>15. CASE Return
  BY <1>4, <1>15 DEF Return, Result, Codes
<1>16. QED
  BY <1>3, <1>7, <1>8, <1>9, <1>10, <1>11, <1>12, <1>13, <1>14, <1>15 DEF Next, Checks

-----------------------------------------------------------------------------
(* The theorems. *)

(* The variables keep their types, the request id within the int of C.     *)
THEOREM TypesHold == Spec => []TypeOK
<1>1. BodyInv /\ DispatchInv /\ WorkInv /\ TypeOK /\ [Next]_vars => TypeOK'
  BY TypesStep
<1>2. QED
  BY <1>1, TypesInit, DispatchHolds, PTL DEF Spec

(* A request that is refused leaves no trace, and a result was computed by *)
(* one call of the C function.                                             *)
\* json_rpc.cc:80-130
THEOREM RefusedChangesNothingHolds == Spec => []RefusedChangesNothing
<1>1. DispatchInv => RefusedChangesNothing
  BY DEF DispatchInv, CheckedInv, TraceInv, Dispatched, Working, Untouched, RefusedChangesNothing
<1>2. QED
  BY <1>1, DispatchHolds, PTL

(* An answer carries the id of its request exactly when its function was   *)
(* looked for with it, and a result has every output once, the last        *)
(* parameter first.                                                        *)
\* json_rpc.cc:79-130, ev_server.cc:380, 404, function_map.hh:119
THEOREM AnswersItsRequestHolds == Spec => []AnswersItsRequest
<1>1. DispatchInv /\ WorkInv => AnswersItsRequest
  BY DEF DispatchInv, WorkInv, AnswersItsRequest
<1>2. QED
  BY <1>1, DispatchHolds, PTL

(* The C function is called with the parameters of the request in their    *)
(* order, and with the lengths of its strings as it sees them: for any     *)
(* signature.                                                              *)
\* function_map.hh:60-180, c_string.hh:4
THEOREM ArgumentsFitHolds == Spec => []ArgumentsFit
<1>1. DispatchInv /\ WorkInv => ArgumentsFit
  BY ArgumentsSuffice DEF DispatchInv
<1>2. QED
  BY <1>1, DispatchHolds, PTL

(* What is cached for the other sessions of the client is what the         *)
(* function is called with, and the passphrase cache gets the passphrase.  *)
\* function_map.hh:238-252, 274-287, 308-323
THEOREM CachedIsAppliedHolds == Spec => []CachedIsApplied
<1>1. DispatchInv /\ WorkInv => CachedIsApplied
  BY CachedSuffice DEF DispatchInv
<1>2. QED
  BY <1>1, DispatchHolds, PTL

-----------------------------------------------------------------------------
(* The threads of the adapter from its start to its end *)

USE ThreadsAssumption

\* The states, as string sets that the provers can compare.
LEMMA Places ==
    /\ { "bind", "token", "run", "start", "loop", "stop", "stopping",
         "release", "exited", "failed", "aborted" } \subseteq MainStates
    /\ { "off", "test", "accept", "ended" } \subseteq RunnerStates
    /\ { "away", "backlog", "init", "test", "read", "call", "stop", "stopping",
         "write", "close", "done" } \subseteq ConnStates
BY DEF MainStates, RunnerStates, ConnStates

\* Connect and Accept keep the listen queue a sequence of connections.
LEMMA BacklogTyped ==
    ASSUME LifecycleTypeOK
    PROVE  /\ \A i \in DOMAIN backlog : backlog[i] \in Conns
           /\ \A c \in Conns : Append(backlog, c) \in Seq(Conns)
           /\ backlog # << >> => /\ Head(backlog) \in Conns
                                 /\ Tail(backlog) \in Seq(Conns)
BY HeadTailProperties, AppendProperties DEF LifecycleTypeOK

LEMMA TypeStep == LifecycleTypeOK /\ [LifecycleNext]_lifecycleVars => LifecycleTypeOK'
<1> SUFFICES ASSUME LifecycleTypeOK, [LifecycleNext]_lifecycleVars PROVE LifecycleTypeOK'
  OBVIOUS
<1> USE DEF LifecycleTypeOK
<1>1. CASE Bind \/ CreateToken \/ PrepareFails \/ RunAdapter \/ RunWebserver
             \/ LoopEnds \/ StopAdapter(Main) \/ StopWebserver(Main) \/ MainReturns
  BY <1>1, Places DEF Bind, CreateToken, PrepareFails, RunAdapter, RunWebserver,
     LoopEnds, StopAdapter, StopWebserver, MainReturns, Go, Threads, flags,
     historyVars
<1>2. CASE Quit \/ RunnerTests \/ AcceptThrows
  BY <1>2, Places DEF Quit, RunnerTests, AcceptThrows, Go, Threads, flags,
     historyVars
<1>3. CASE Accept
  BY <1>3, Places, BacklogTyped DEF Accept, Threads, flags, historyVars
<1>4. ASSUME NEW c \in Conns, Connect(c) PROVE LifecycleTypeOK'
  BY <1>4, Places, BacklogTyped DEF Connect, Go, Threads, flags, historyVars
<1>5. ASSUME NEW c \in Conns, Read(c) PROVE LifecycleTypeOK'
  BY <1>5, Places DEF Read, Go, Threads, flags, historyVars
<1>6. ASSUME NEW c \in Conns, HangUp(c) \/ ConnStep(c) PROVE LifecycleTypeOK'
  BY <1>6, Places DEF HangUp, ConnStep, ThreadInit, SessionTests, StopAdapter,
     StopWebserver, Handle, Write, CloseSocket, ThreadDone, Go, Threads, flags,
     historyVars
<1>7. CASE UNCHANGED lifecycleVars
  BY <1>7 DEF lifecycleVars, flags, historyVars
<1> QED
  BY <1>1, <1>2, <1>3, <1>4, <1>5, <1>6, <1>7 DEF LifecycleNext, MainStep, RunnerStep

-----------------------------------------------------------------------------
(* The parts of LifecycleInv, each kept by every step *)

\* The two flags differ only while they are being set.
LEMMA FlagsStep ==
    LifecycleTypeOK /\ FlagsAgree /\ ThreadsInOrder /\ BacklogInOrder /\ [LifecycleNext]_lifecycleVars
        => FlagsAgree'
<1> SUFFICES ASSUME LifecycleTypeOK, FlagsAgree, ThreadsInOrder, BacklogInOrder, [LifecycleNext]_lifecycleVars
             PROVE  FlagsAgree'
  OBVIOUS
<1> USE DEF LifecycleTypeOK, FlagsAgree, Alive
<1>1. CASE Bind \/ CreateToken \/ PrepareFails \/ LoopEnds \/ Quit \/ MainReturns
  <2>1. UNCHANGED flags /\ place[Main] # "start" /\ place[Main] # "stopping"
           /\ \A t \in Threads \ {Main} : place'[t] = place[t]
    BY <1>1 DEF Bind, CreateToken, PrepareFails, LoopEnds, Quit, MainReturns,
       Go, Threads
  <2> QED
    BY <1>1, <2>1 DEF Bind, CreateToken, PrepareFails, LoopEnds, Quit,
       MainReturns, Go, Threads, flags, ThreadsInOrder
<1>2. CASE RunAdapter
  BY <1>2 DEF RunAdapter, Go, Threads, ThreadsInOrder, Serving, RunnerStates
<1>3. CASE RunWebserver
  BY <1>3 DEF RunWebserver, Threads, ThreadsInOrder
<1>4. ASSUME NEW t \in Conns \cup {Main}, StopAdapter(t) PROVE FlagsAgree'
  BY <1>4 DEF StopAdapter, Go, Threads
<1>5. ASSUME NEW t \in Conns \cup {Main}, StopWebserver(t) PROVE FlagsAgree'
  BY <1>5 DEF StopWebserver, Go, Threads, ThreadsInOrder
<1>6. CASE RunnerTests \/ AcceptThrows
  BY <1>6 DEF RunnerTests, AcceptThrows, Go, Threads, flags, ThreadsInOrder
<1>7. CASE Accept
  <2>1. place[Head(backlog)] = "backlog"
    BY <1>7 DEF Accept, BacklogInOrder
  <2> QED
    BY <1>7, <2>1, BacklogTyped DEF Accept, Threads, flags, ThreadsInOrder
<1>8. ASSUME NEW c \in Conns,
             \/ Connect(c) \/ Read(c) \/ HangUp(c) \/ ThreadInit(c)
             \/ SessionTests(c) \/ Handle(c) \/ Write(c) \/ CloseSocket(c)
             \/ ThreadDone(c)
      PROVE  FlagsAgree'
  BY <1>8 DEF Connect, Read, HangUp, ThreadInit, SessionTests, Handle, Write,
     CloseSocket, ThreadDone, Go, Threads, flags
<1>9. CASE UNCHANGED lifecycleVars
  BY <1>9 DEF lifecycleVars, flags
<1> QED
  BY <1>1, <1>2, <1>3, <1>4, <1>5, <1>6, <1>7, <1>8, <1>9
  DEF LifecycleNext, MainStep, RunnerStep, ConnStep

\* Main and the runner stay where the flags allow them to be.
LEMMA ThreadsStep ==
    LifecycleTypeOK /\ FlagsAgree /\ ThreadsInOrder /\ BacklogInOrder /\ [LifecycleNext]_lifecycleVars
        => ThreadsInOrder'
<1> SUFFICES ASSUME LifecycleTypeOK, FlagsAgree, ThreadsInOrder, BacklogInOrder, [LifecycleNext]_lifecycleVars
             PROVE  ThreadsInOrder'
  OBVIOUS
<1> USE DEF LifecycleTypeOK, ThreadsInOrder, MainStates, RunnerStates, Serving
<1>1. CASE Bind \/ CreateToken \/ PrepareFails \/ RunAdapter
  BY <1>1 DEF Bind, CreateToken, PrepareFails, RunAdapter, Go, Threads, flags,
     historyVars
<1>2. CASE RunWebserver
  BY <1>2 DEF RunWebserver, Threads, historyVars
<1>3. CASE LoopEnds \/ Quit \/ MainReturns
  BY <1>3 DEF LoopEnds, Quit, MainReturns, Go, Threads, flags, historyVars
<1>4. ASSUME NEW t \in Conns \cup {Main}, StopAdapter(t) PROVE ThreadsInOrder'
  BY <1>4 DEF StopAdapter, Go, Threads, historyVars
<1>5. ASSUME NEW t \in Conns \cup {Main}, StopWebserver(t) PROVE ThreadsInOrder'
  BY <1>5 DEF StopWebserver, Go, Threads, historyVars, FlagsAgree
<1>6. CASE RunnerTests \/ AcceptThrows
  BY <1>6 DEF RunnerTests, AcceptThrows, Go, Threads, flags, historyVars
<1>7. CASE Accept
  BY <1>7, BacklogTyped DEF Accept, Threads, flags
<1>8. ASSUME NEW c \in Conns,
             \/ Connect(c) \/ Read(c) \/ HangUp(c) \/ ThreadInit(c)
             \/ SessionTests(c) \/ Handle(c) \/ Write(c) \/ CloseSocket(c)
             \/ ThreadDone(c)
      PROVE  ThreadsInOrder'
  BY <1>8 DEF Connect, Read, HangUp, ThreadInit, SessionTests, Handle, Write,
     CloseSocket, ThreadDone, Go, Alive, Threads, flags, historyVars
<1>9. CASE UNCHANGED lifecycleVars
  BY <1>9 DEF lifecycleVars, flags, historyVars
<1> QED
  BY <1>1, <1>2, <1>3, <1>4, <1>5, <1>6, <1>7, <1>8, <1>9
  DEF LifecycleNext, MainStep, RunnerStep, ConnStep

\* The listen queue holds the waiting connections, each of them once.
LEMMA BacklogStep ==
    LifecycleTypeOK /\ ThreadsInOrder /\ BacklogInOrder /\ [LifecycleNext]_lifecycleVars => BacklogInOrder'
<1> SUFFICES ASSUME LifecycleTypeOK, ThreadsInOrder, BacklogInOrder, [LifecycleNext]_lifecycleVars
             PROVE  BacklogInOrder'
  OBVIOUS
<1> USE DEF LifecycleTypeOK, BacklogInOrder, ConnStates
<1>1. CASE MainStep \/ PrepareFails \/ Quit \/ RunnerTests \/ AcceptThrows
  <2>1. /\ backlog' = backlog
        /\ \A c \in Conns : place'[c] = place[c]
        /\ place'[Main] # "bind"
    BY <1>1 DEF MainStep, Bind, CreateToken, PrepareFails, RunAdapter,
       RunWebserver, LoopEnds, StopAdapter, StopWebserver, MainReturns, Quit,
       RunnerTests, AcceptThrows, Go, Threads, ThreadsInOrder
  <2> QED
    BY <2>1, BacklogTyped
<1>2. CASE Accept
  <2> DEFINE c == Head(backlog)
  <2>1. /\ backlog # << >>
        /\ backlog' = Tail(backlog)
        /\ place' = [place EXCEPT ![Runner] = "test", ![c] = "init"]
        /\ place[Runner] = "accept"
    BY <1>2 DEF Accept
  <2>2. /\ c = backlog[1]
        /\ c \in Conns
        /\ Len(backlog') = Len(backlog) - 1
        /\ \A i \in 1 .. Len(backlog') : backlog'[i] = backlog[i + 1]
        /\ backlog' \in Seq(Conns)
    BY <2>1, HeadTailProperties
  <2>3. \A i \in DOMAIN backlog' : i + 1 \in DOMAIN backlog /\ backlog'[i] # c
    BY <2>1, <2>2
  <2>4. \A i \in DOMAIN backlog' : place'[backlog'[i]] = "backlog"
    BY <2>1, <2>2, <2>3, BacklogTyped DEF Threads
  <2>5. ASSUME NEW i \in DOMAIN backlog', NEW j \in DOMAIN backlog',
               backlog'[i] = backlog'[j]
        PROVE  i = j
    <3>1. DOMAIN backlog' = 1 .. Len(backlog') /\ Len(backlog') \in Nat
      <4>1. backlog' \in Seq(Conns)
        BY <2>2
      <4>2. QED
        BY <4>1, LenProperties
    <3>2. i \in 1 .. Len(backlog') /\ j \in 1 .. Len(backlog')
      BY <3>1, Zenon
    <3>3. backlog[i + 1] = backlog[j + 1]
      BY <2>2, <2>5, <3>2
    <3>4. i + 1 = j + 1
      BY <2>3, <3>3
    <3> QED
      BY <3>1, <3>2, <3>4
  <2>6. ASSUME NEW d \in Conns, place'[d] = "backlog"
        PROVE  \E i \in DOMAIN backlog' : backlog'[i] = d
    <3>1. d # c /\ place[d] = "backlog"
      BY <2>1, <2>2, <2>6 DEF Threads
    <3>2. PICK i \in DOMAIN backlog : backlog[i] = d
      BY <3>1
    <3>3. i # 1 /\ i - 1 \in DOMAIN backlog' /\ backlog'[i - 1] = backlog[(i - 1) + 1]
      BY <2>2, <3>1, <3>2
    <3> QED
      BY <3>2, <3>3
  <2>7. place'[Main] # "bind" /\ \A d \in Conns : place'[d] \in ConnStates
    BY <2>1, <2>2 DEF Threads, ThreadsInOrder
  <2> QED
    BY <2>4, <2>5, <2>6, <2>7
<1>3. ASSUME NEW c \in Conns, Connect(c) PROVE BacklogInOrder'
  <2>1. /\ backlog' = Append(backlog, c)
        /\ place[c] = "away"
        /\ place[Main] # "bind"
        /\ place' = [place EXCEPT ![c] = "backlog"]
    BY <1>3 DEF Connect, Go, Listening
  <2>2. /\ Len(backlog') = Len(backlog) + 1
        /\ backlog'[Len(backlog) + 1] = c
        /\ \A i \in 1 .. Len(backlog) : backlog'[i] = backlog[i]
        /\ backlog' \in Seq(Conns)
    BY <2>1, AppendProperties
  <2>3. \A i \in DOMAIN backlog : backlog[i] # c
    BY <2>1
  <2>4. /\ DOMAIN backlog = 1 .. Len(backlog)
        /\ DOMAIN backlog' = 1 .. Len(backlog) + 1
        /\ Len(backlog) \in Nat
        /\ \A i \in DOMAIN backlog : i \in DOMAIN backlog' /\ backlog'[i] = backlog[i]
        /\ \A i \in DOMAIN backlog' : i \in DOMAIN backlog \/ i = Len(backlog) + 1
    <3>1. /\ DOMAIN backlog = 1 .. Len(backlog)
          /\ DOMAIN backlog' = 1 .. Len(backlog')
          /\ Len(backlog) \in Nat
      BY <2>2, LenProperties
    <3> QED
      BY <2>2, <3>1
  <2>5. \A i \in DOMAIN backlog' : place'[backlog'[i]] = "backlog"
    BY <2>1, <2>2, <2>3, <2>4, BacklogTyped DEF Threads
  <2>6. ASSUME NEW i \in DOMAIN backlog', NEW j \in DOMAIN backlog',
               backlog'[i] = backlog'[j]
        PROVE  i = j
    <3>1. CASE i \in DOMAIN backlog /\ j \in DOMAIN backlog
      BY <2>4, <2>6, <3>1
    <3>2. CASE i \notin DOMAIN backlog
      <4>1. i = Len(backlog) + 1 /\ backlog'[i] = c
        BY <2>2, <2>4, <3>2
      <4>2. j \in DOMAIN backlog => backlog'[j] # c
        BY <2>3, <2>4
      <4>3. QED
        BY <2>4, <2>6, <4>1, <4>2
    <3>3. CASE j \notin DOMAIN backlog
      <4>1. j = Len(backlog) + 1 /\ backlog'[j] = c
        BY <2>2, <2>4, <3>3
      <4>2. i \in DOMAIN backlog => backlog'[i] # c
        BY <2>3, <2>4
      <4>3. QED
        BY <2>4, <2>6, <4>1, <4>2
    <3> QED
      BY <3>1, <3>2, <3>3
  <2>7. ASSUME NEW d \in Conns, place'[d] = "backlog"
        PROVE  \E i \in DOMAIN backlog' : backlog'[i] = d
    <3>1. CASE d = c
      BY <2>2, <3>1
    <3>2. CASE d # c
      <4>1. place[d] = "backlog"
        BY <2>1, <2>7, <3>2 DEF Threads
      <4>2. PICK i \in DOMAIN backlog : backlog[i] = d
        BY <4>1
      <4>3. i \in DOMAIN backlog' /\ backlog'[i] = d
        BY <2>4, <4>2
      <4> QED
        BY <4>3
    <3> QED
      BY <3>1, <3>2
  <2>8. place'[Main] # "bind" /\ \A d \in Conns : place'[d] \in ConnStates
    BY <2>1 DEF Threads
  <2> QED
    BY <2>5, <2>6, <2>7, <2>8
<1>4. ASSUME NEW c \in Conns, Read(c) \/ HangUp(c) \/ ConnStep(c)
      PROVE  BacklogInOrder'
  <2>1. /\ backlog' = backlog
        /\ place[c] # "backlog" /\ place'[c] # "backlog" /\ place'[c] \in ConnStates
        /\ \A t \in Threads \ {c} : place'[t] = place[t]
    BY <1>4 DEF Read, HangUp, ConnStep, ThreadInit, SessionTests, StopAdapter,
       StopWebserver, Handle, Write, CloseSocket, ThreadDone, Go, Threads
  <2> QED
    BY <2>1, BacklogTyped DEF Threads
<1>5. CASE UNCHANGED lifecycleVars
  BY <1>5 DEF lifecycleVars
<1> QED
  BY <1>1, <1>2, <1>3, <1>4, <1>5 DEF LifecycleNext, RunnerStep

\* A request or a connection that comes late is the last one.
LEMMA LateStep ==
    LifecycleTypeOK /\ ThreadsInOrder /\ BacklogInOrder /\ LateInOrder /\ [LifecycleNext]_lifecycleVars
        => LateInOrder'
<1> SUFFICES ASSUME LifecycleTypeOK, ThreadsInOrder, BacklogInOrder, LateInOrder, [LifecycleNext]_lifecycleVars
             PROVE  LateInOrder'
  OBVIOUS
<1> USE DEF LifecycleTypeOK, LateInOrder
<1>1. CASE \/ Bind \/ CreateToken \/ PrepareFails \/ RunAdapter \/ LoopEnds
           \/ StopAdapter(Main) \/ StopWebserver(Main) \/ MainReturns \/ Quit
           \/ RunnerTests \/ AcceptThrows
  BY <1>1 DEF Bind, CreateToken, PrepareFails, RunAdapter, LoopEnds, StopAdapter,
     StopWebserver, MainReturns, Quit, RunnerTests, AcceptThrows, Go, Threads,
     flags, historyVars
<1>2. CASE RunWebserver
  <2>1. \A c \in Conns : late[c] = 0
    BY <1>2 DEF RunWebserver, ThreadsInOrder
  <2> QED
    BY <1>2, <2>1 DEF RunWebserver, Threads, historyVars, ThreadsInOrder
<1>3. CASE Accept
  BY <1>3, BacklogTyped DEF Accept, Threads, flags
<1>4. ASSUME NEW c \in Conns, Connect(c) \/ HangUp(c) \/ ConnStep(c)
      PROVE  LateInOrder'
  BY <1>4 DEF Connect, HangUp, ConnStep, ThreadInit, SessionTests, StopAdapter,
     StopWebserver, Handle, Write, CloseSocket, ThreadDone, Go, Threads, flags,
     historyVars
<1>5. ASSUME NEW c \in Conns, Read(c) PROVE LateInOrder'
  BY <1>5 DEF Read, Go, Threads, flags
<1>6. CASE UNCHANGED lifecycleVars
  BY <1>6 DEF lifecycleVars, flags, historyVars
<1> QED
  BY <1>1, <1>2, <1>3, <1>4, <1>5, <1>6 DEF LifecycleNext, MainStep, RunnerStep

-----------------------------------------------------------------------------

\* Before main has bound a port everything is in order.
LEMMA Starts == LifecycleInit => LifecycleInv
<1> SUFFICES ASSUME LifecycleInit PROVE LifecycleInv
  OBVIOUS
<1> USE DEF LifecycleInit
<1>1. /\ place[Main] = "bind" /\ place[Runner] = "off"
      /\ \A c \in Conns : place[c] = "away"
  BY DEF Threads
<1>2. LifecycleTypeOK
  BY Places, EmptySeq DEF LifecycleTypeOK, Threads
<1>3. FlagsAgree
  BY <1>1 DEF FlagsAgree, Threads
<1>4. ThreadsInOrder
  BY <1>1 DEF ThreadsInOrder, MainStates, RunnerStates, Serving
<1>5. BacklogInOrder
  BY <1>1 DEF BacklogInOrder, ConnStates
<1>6. LateInOrder
  BY DEF LateInOrder
<1> QED
  BY <1>2, <1>3, <1>4, <1>5, <1>6 DEF LifecycleInv

(* The flags, the threads and the listen queue fit each other at every     *)
(* step of any number of connections (webserver.cc:171-265).               *)
THEOREM LifecycleInOrder == LifecycleSpec => []LifecycleInv
<1>1. LifecycleInv /\ [LifecycleNext]_lifecycleVars => LifecycleInv'
  BY TypeStep, FlagsStep, ThreadsStep, BacklogStep, LateStep DEF LifecycleInv
<1> QED
  BY Starts, <1>1, PTL DEF LifecycleSpec

(* After a shutdown a connection has at most one more request served and   *)
(* the runner accepts at most one more connection (webserver.cc:176,       *)
(* 240-243).                                                               *)
THEOREM WorkStops == LifecycleSpec => []StopsTakingWork
<1>1. LifecycleInv => StopsTakingWork
  BY DEF LifecycleInv, LifecycleTypeOK, LateInOrder, StopsTakingWork
<1> QED
  BY LifecycleInOrder, <1>1, PTL

-----------------------------------------------------------------------------
(* SessionRegistry *)

\* the parts of RegistryInv about the cache
CacheInv == ConfigKept /\ NothingImmortal /\ TimesInOrder

\* a function name is Unset in the empty configuration, and in no other
LEMMA EmptyIsUnset ==
  ASSUME NEW x \in Configs
  PROVE  /\ EmptyConfig \in Configs
         /\ x # EmptyConfig <=> \E f \in Fns : x[f] # Unset
  BY DEF Configs, EmptyConfig

\* what update_last_use does for the client that calls, and for the others
LEMMA UpdateEffect ==
  ASSUME RegistryTypeOK, NEW k \in Clients, NEW c \in [Clients -> Configs],
         UpdateLastUse(k, c)
  PROVE  /\ last_use'[k] = now /\ cache'[k] = c[k]
         /\ \A x \in Clients \ {k} :
               IF TooOld(last_use, x)
               THEN last_use'[x] = Never /\ cache'[x] = EmptyConfig
               ELSE last_use'[x] = last_use[x] /\ cache'[x] = c[x]
         /\ cache' \in [Clients -> Configs]
         /\ last_use' \in [Clients -> Nat \cup {Never}]
<1> DEFINE use == [last_use EXCEPT ![k] = now]
<1>1. /\ now \in Nat /\ Timeout \in Nat /\ use \in [Clients -> Nat \cup {Never}]
      /\ use[k] = now /\ \A x \in Clients \ {k} : use[x] = last_use[x]
  BY ClockAssumption DEF RegistryTypeOK
<1>2. ~ TooOld(use, k)
  BY <1>1 DEF TooOld
<1>3. \A x \in Clients \ {k} : TooOld(use, x) <=> TooOld(last_use, x)
  BY <1>1 DEF TooOld
<1>4. /\ last_use' = [x \in Clients |-> IF TooOld(use, x) THEN Never ELSE use[x]]
      /\ cache' = [x \in Clients |-> IF TooOld(use, x) THEN EmptyConfig ELSE c[x]]
  BY DEF UpdateLastUse
<1>5. EmptyConfig \in Configs
  BY DEF EmptyConfig, Configs
<1> HIDE DEF use
<1>6. QED
  BY <1>1, <1>2, <1>3, <1>4, <1>5

\* a call of client k which leaves i as the configuration it may count on
LEMMA CallKeeps ==
  ASSUME RegistryTypeOK, CacheInv, NEW k \in Clients,
         NEW c \in [Clients -> Configs], NEW i \in Configs,
         UpdateLastUse(k, c), now' = now,
         contact' = [contact EXCEPT ![k] = now],
         intent' = [intent EXCEPT ![k] = i],
         \A x \in Clients \ {k} : c[x] = cache[x],
         \A f \in Fns : i[f] # Unset => c[k][f] = i[f]
  PROVE  /\ CacheInv'
         /\ \A x \in Clients : cache'[x] # EmptyConfig => ~ Silent(x)'
<1>1. /\ now \in Nat /\ Timeout \in Nat /\ contact \in [Clients -> Nat]
      /\ last_use \in [Clients -> Nat \cup {Never}]
      /\ intent \in [Clients -> Configs] /\ cache \in [Clients -> Configs]
  BY ClockAssumption DEF RegistryTypeOK
<1>2. /\ contact'[k] = now /\ intent'[k] = i
      /\ \A x \in Clients \ {k} :
            contact'[x] = contact[x] /\ intent'[x] = intent[x]
  BY <1>1
<1>3. \A x \in Clients \ {k} : Silent(x)' <=> Silent(x)
  BY <1>2 DEF Silent
<1>4. ~ Silent(k)'
  BY <1>1, <1>2 DEF Silent
\* whoever is not silent and has configured something is not too old
<1>5. ASSUME NEW x \in Clients, ~ Silent(x), intent[x] # EmptyConfig
      PROVE  ~ TooOld(last_use, x)
  BY <1>1, <1>5 DEF TooOld, Silent, CacheInv, TimesInOrder
<1>6. ConfigKept'
  <2> SUFFICES ASSUME NEW x \in Clients, NEW f \in Fns, ~ Silent(x)',
                      intent'[x][f] # Unset
               PROVE  cache'[x][f] = intent'[x][f]
    BY DEF ConfigKept
  <2>1. CASE x = k
    BY <1>2, <2>1, UpdateEffect
  <2>2. CASE x # k
    <3>1. ~ Silent(x) /\ intent[x][f] # Unset
      BY <1>2, <1>3, <2>2
    <3>2. intent[x] # EmptyConfig
      BY <1>1, <3>1, EmptyIsUnset
    <3>3. cache'[x] = c[x]
      BY <1>5, <2>2, <3>1, <3>2, UpdateEffect
    <3>4. QED
      BY <1>2, <2>2, <3>1, <3>3 DEF CacheInv, ConfigKept
  <2>3. QED
    BY <2>1, <2>2
<1>7. NothingImmortal'
  <2> SUFFICES ASSUME NEW x \in Clients, cache'[x] # EmptyConfig
               PROVE  last_use'[x] # Never
    BY DEF NothingImmortal
  <2>1. CASE x = k
    BY <1>1, <2>1, UpdateEffect DEF Never
  <2>2. CASE x # k
    BY <2>2, UpdateEffect DEF CacheInv, NothingImmortal
  <2>3. QED
    BY <2>1, <2>2
<1>8. TimesInOrder'
  <2> SUFFICES ASSUME NEW x \in Clients
               PROVE  /\ last_use'[x] \in {Never, contact'[x]}
                      /\ contact'[x] <= now'
                      /\ intent'[x] # EmptyConfig /\ ~ Silent(x)'
                           => last_use'[x] = contact'[x]
    BY DEF TimesInOrder
  <2>1. CASE x = k
    BY <1>1, <1>2, <2>1, UpdateEffect
  <2>2. CASE x # k
    BY <1>1, <1>2, <1>3, <1>5, <2>2, UpdateEffect DEF CacheInv, TimesInOrder
  <2>3. QED
    BY <2>1, <2>2
<1>9. ASSUME NEW x \in Clients, cache'[x] # EmptyConfig
      PROVE  ~ Silent(x)'
  <2>1. CASE x = k
    BY <1>4, <2>1
  <2>2. CASE x # k
    <3>1. ~ TooOld(last_use, x) /\ last_use[x] # Never
      BY <1>9, <2>2, UpdateEffect DEF CacheInv, NothingImmortal
    <3>2. last_use[x] = contact[x]
      BY <3>1 DEF CacheInv, TimesInOrder
    <3>3. QED
      BY <1>1, <1>3, <2>2, <3>1, <3>2 DEF TooOld, Silent
  <2>3. QED
    BY <2>1, <2>2
<1>10. QED
  BY <1>6, <1>7, <1>8, <1>9 DEF CacheInv

\* the three outcomes of SessionRegistry::get
Get(t) == GetKnown(t) \/ GetNew(t) \/ GetFails(t)

\* get leaves the configuration its client may count on in the cache
LEMMA GetKeeps ==
  ASSUME RegistryTypeOK, RegistryInv, NEW t \in ThreadIds, Get(t)
  PROVE  /\ CacheInv'
         /\ \A x \in Clients : cache'[x] # EmptyConfig => ~ Silent(x)'
         /\ conn[t] \in Clients /\ ~ Silent(conn[t])'
<1> DEFINE k == conn[t]
           i == IF now - contact[k] > Timeout THEN EmptyConfig ELSE intent[k]
<1>1. k \in Clients
  BY DEF Get, GetKnown, GetNew, GetFails, RegistryInv, CallsInOrder, RegistryTypeOK
<1>2. /\ UpdateLastUse(k, cache) /\ Calls(k) /\ now' = now
  BY DEF Get, GetKnown, GetNew, GetFails
<1>3. /\ contact' = [contact EXCEPT ![k] = now]
      /\ intent' = [intent EXCEPT ![k] = i]
  BY <1>1, <1>2 DEF Calls, RegistryTypeOK
<1>4. i \in Configs /\ cache \in [Clients -> Configs]
  BY <1>1, EmptyIsUnset DEF RegistryTypeOK
<1>5. \A f \in Fns : i[f] # Unset => cache[k][f] = i[f]
  BY <1>1 DEF RegistryInv, ConfigKept, Silent, EmptyConfig
<1>6. CacheInv
  BY DEF RegistryInv, CacheInv
<1>7. ~ Silent(k)'
  <2>1. contact'[k] = now /\ now \in Nat
    BY <1>1, <1>3 DEF RegistryTypeOK
  <2>2. \E x \in Clients : x = k /\ contact'[x] = now /\ x = k'
    BY <1>1, <2>1 DEF Get, GetKnown, GetNew, GetFails
  <2>3. QED
    BY <1>2, <2>1, <2>2, ClockAssumption DEF Silent
<1> HIDE DEF k, i
<1>8. QED
  BY <1>1, <1>2, <1>3, <1>4, <1>5, <1>6, <1>7, CallKeeps DEF k

\* a config_*() call is cached before it may count on it
LEMMA CacheCallKeeps ==
  ASSUME RegistryTypeOK, RegistryInv, NEW t \in ThreadIds, NEW f \in Fns,
         NEW v \in ConfigValues, CacheCall(t, f, v)
  PROVE  CacheInv' /\ cache' \in [Clients -> Configs]
         /\ last_use' \in [Clients -> Nat \cup {Never}]
         /\ intent' \in [Clients -> Configs]
<1>1. PICK k \in Clients : k = conn[t]
  BY DEF CacheCall, RegistryTypeOK
<1> DEFINE old == IF now - contact[k] > Timeout THEN EmptyConfig ELSE intent[k]
           i == [old EXCEPT ![f] = v]
           c == [cache EXCEPT ![k][f] = v]
<1>2. /\ UpdateLastUse(k, c) /\ now' = now
      /\ contact' = [contact EXCEPT ![k] = now]
      /\ intent' = [intent EXCEPT ![k] = i]
  BY <1>1 DEF CacheCall, AddToCache, RegistryTypeOK
<1>3. old \in Configs /\ cache \in [Clients -> Configs]
      /\ intent \in [Clients -> Configs]
  BY <1>1, EmptyIsUnset DEF RegistryTypeOK
<1>4. i \in Configs /\ c \in [Clients -> Configs]
  BY <1>1, <1>3 DEF Configs
<1>5. \A x \in Clients \ {k} : c[x] = cache[x]
  BY <1>3
<1>6. \A g \in Fns : i[g] # Unset => c[k][g] = i[g]
  <2> SUFFICES ASSUME NEW g \in Fns, i[g] # Unset
               PROVE  c[k][g] = i[g]
    OBVIOUS
  <2>1. CASE g = f
    BY <1>1, <1>3, <2>1 DEF Configs
  <2>2. CASE g # f
    <3>1. i[g] = old[g] /\ c[k][g] = cache[k][g]
      BY <1>1, <1>3, <2>2 DEF Configs
    <3>2. ~ Silent(k) /\ old = intent[k]
      BY <3>1 DEF Silent, EmptyConfig
    <3>3. QED
      BY <1>1, <3>1, <3>2 DEF RegistryInv, ConfigKept
  <2>3. QED
    BY <2>1, <2>2
<1>7. CacheInv
  BY DEF RegistryInv, CacheInv
<1> HIDE DEF i, c, old
<1>8. CacheInv'
  BY <1>2, <1>4, <1>5, <1>6, <1>7, CallKeeps
<1>9. QED
  BY <1>2, <1>3, <1>4, <1>8, UpdateEffect

\* steps that concern neither the cache nor the clock
LEMMA OtherKeeps ==
  ASSUME CacheInv, UNCHANGED << cache, last_use, now, contact, intent >>
  PROVE  CacheInv'
  BY DEF CacheInv, ConfigKept, NothingImmortal, TimesInOrder, Silent

\* time only makes more clients silent
LEMMA TickKeeps ==
  ASSUME RegistryTypeOK, CacheInv, Tick
  PROVE  CacheInv'
<1>1. /\ now' = now + 1 /\ now \in Nat /\ Timeout \in Nat
      /\ UNCHANGED << cache, last_use, contact, intent >>
      /\ contact \in [Clients -> Nat]
  BY ClockAssumption DEF Tick, RegistryTypeOK, registryVars, registryHistory
<1>2. \A k \in Clients : ~ Silent(k)' => ~ Silent(k)
  BY <1>1 DEF Silent
<1>3. QED
  BY <1>1, <1>2 DEF CacheInv, ConfigKept, NothingImmortal, TimesInOrder

\* no step leaves the types
LEMMA RegistryTypeStep ==
  ASSUME RegistryTypeOK, RegistryInv, [RegistryNext]_sessionVars
  PROVE  RegistryTypeOK'
<1>1. ASSUME NEW t \in ThreadIds, Get(t)
      PROVE  RegistryTypeOK'
  <2>1. PICK k \in Clients : k = conn[t]
    BY <1>1
    DEF Get, GetKnown, GetNew, GetFails, RegistryInv, CallsInOrder, RegistryTypeOK
  <2>2. UpdateLastUse(k, cache) /\ Calls(k) /\ now' = now /\ conn' = conn
    BY <1>1, <2>1 DEF Get, GetKnown, GetNew, GetFails
  <2>3. /\ cache' \in [Clients -> Configs]
        /\ last_use' \in [Clients -> Nat \cup {Never}]
    BY <2>2, UpdateEffect DEF RegistryTypeOK
  <2>4. contact' \in [Clients -> Nat] /\ intent' \in [Clients -> Configs]
    BY <2>1, <2>2, EmptyIsUnset DEF Calls, RegistryTypeOK
  <2>5. m' \in [ThreadIds -> Configs \cup {NoSession}]
    BY <1>1, <2>1, <2>3 DEF Get, GetKnown, GetNew, GetFails, RegistryTypeOK
  <2>6. at' \in [ThreadIds -> {"idle", "get", "apply"}]
    BY <1>1 DEF Get, GetKnown, GetNew, GetFails, StepTo, RegistryTypeOK
  <2>7. config' \in [ThreadIds -> (Fns \X ConfigValues) \cup {NoConfig}]
    BY <1>1 DEF Get, GetKnown, GetNew, GetFails, RegistryTypeOK
  <2>8. QED
    BY <2>2, <2>3, <2>4, <2>5, <2>6, <2>7 DEF RegistryTypeOK
<1>2. ASSUME NEW t \in ThreadIds, NEW f \in Fns, NEW v \in ConfigValues,
             CacheCall(t, f, v)
      PROVE  RegistryTypeOK'
  <2>1. /\ cache' \in [Clients -> Configs] /\ intent' \in [Clients -> Configs]
        /\ last_use' \in [Clients -> Nat \cup {Never}]
    BY <1>2, CacheCallKeeps
  <2>2. contact' \in [Clients -> Nat]
    BY <1>2 DEF CacheCall, RegistryTypeOK
  <2>3. config' \in [ThreadIds -> (Fns \X ConfigValues) \cup {NoConfig}]
    BY <1>2 DEF CacheCall, RegistryTypeOK
  <2>4. at' \in [ThreadIds -> {"idle", "get", "apply"}]
    BY <1>2 DEF CacheCall, StepTo, RegistryTypeOK
  <2>5. QED
    BY <1>2, <2>1, <2>2, <2>3, <2>4 DEF CacheCall, RegistryTypeOK
<1>3. ASSUME NEW t \in ThreadIds, Apply(t)
      PROVE  RegistryTypeOK'
  <2>0. /\ at' \in [ThreadIds -> {"idle", "get", "apply"}]
        /\ config' \in [ThreadIds -> (Fns \X ConfigValues) \cup {NoConfig}]
    <3>1. at' \in [ThreadIds -> {"idle", "get", "apply"}]
      BY <1>3 DEF Apply, StepTo, RegistryTypeOK
    <3>2. config' \in [ThreadIds -> (Fns \X ConfigValues) \cup {NoConfig}]
      BY <1>3 DEF Apply, RegistryTypeOK
    <3>3. QED
      BY <3>1, <3>2
  <2>1. CASE config[t] = NoConfig
    BY <1>3, <2>0, <2>1 DEF Apply, RegistryTypeOK, registryHistory
  <2>2. CASE config[t] # NoConfig
    <3>1. config[t] \in Fns \X ConfigValues
      BY <2>2 DEF RegistryTypeOK
    <3>2. config[t][1] \in Fns /\ config[t][2] \in ConfigValues
      BY <3>1
    <3>3. m[t] \in Configs
      BY <1>3 DEF Apply, RegistryInv, CallsInOrder, RegistryTypeOK
    <3>4. [m[t] EXCEPT ![config[t][1]] = config[t][2]] \in Configs
      BY <3>2, <3>3 DEF Configs
    <3>5. m' \in [ThreadIds -> Configs \cup {NoSession}]
      BY <1>3, <2>2, <3>4 DEF Apply, RegistryTypeOK
    <3>6. QED
      BY <1>3, <2>0, <3>5 DEF Apply, RegistryTypeOK, registryHistory
  <2>3. QED
    BY <2>1, <2>2
<1>4. ASSUME NEW t \in ThreadIds,
             \/ \E k \in Clients : ConnectClient(t, k)
             \/ Disconnect(t) \/ Call(t) \/ SizeMismatch(t)
      PROVE  RegistryTypeOK'
  BY <1>4
  DEF ConnectClient, Disconnect, Call, SizeMismatch, StepTo, RegistryTypeOK, registryVars,
      registryHistory
<1>5. CASE Tick
  BY <1>5, ClockAssumption DEF Tick, RegistryTypeOK, registryVars, registryHistory
<1>6. CASE UNCHANGED sessionVars
  BY <1>6 DEF sessionVars, registryVars, registryHistory, RegistryTypeOK
<1>7. QED
  BY <1>1, <1>2, <1>3, <1>4, <1>5, <1>6 DEF RegistryNext, Get

\* CallsInOrder is preserved
LEMMA CallsStep ==
  ASSUME RegistryTypeOK, RegistryInv, [RegistryNext]_sessionVars, RegistryTypeOK'
  PROVE  CallsInOrder'
<1> USE DEF RegistryTypeOK, RegistryInv, CallsInOrder, StepTo
<1>1. ASSUME NEW t \in ThreadIds, Get(t)
      PROVE  CallsInOrder'
  <2>1. CASE GetNew(t)
    <3>1. cache'[conn[t]] # NoSession
      BY <2>1, RegistryAssumption DEF GetNew
    <3>2. QED
      BY <2>1, <3>1 DEF GetNew
  <2>2. CASE GetKnown(t) \/ GetFails(t)
    BY <2>2 DEF GetKnown, GetFails
  <2>3. QED
    BY <1>1, <2>1, <2>2 DEF Get
<1>2. ASSUME NEW t \in ThreadIds, NEW f \in Fns, NEW v \in ConfigValues,
             CacheCall(t, f, v)
      PROVE  CallsInOrder'
  BY <1>2 DEF CacheCall
<1>3. ASSUME NEW t \in ThreadIds, Apply(t)
      PROVE  CallsInOrder'
  BY <1>3 DEF Apply
<1>4. ASSUME NEW t \in ThreadIds,
             \/ \E k \in Clients : ConnectClient(t, k)
             \/ Disconnect(t) \/ Call(t) \/ SizeMismatch(t)
      PROVE  CallsInOrder'
  BY <1>4, RegistryAssumption
  DEF ConnectClient, Disconnect, Call, SizeMismatch, registryVars
<1>5. CASE Tick
  BY <1>5 DEF Tick, registryVars
<1>6. CASE UNCHANGED sessionVars
  BY <1>6 DEF sessionVars, registryVars
<1>7. QED
  BY <1>1, <1>2, <1>3, <1>4, <1>5, <1>6 DEF RegistryNext, Get

\* the strengthened invariant is inductive
LEMMA RegistryStep ==
  ASSUME RegistryTypeOK, RegistryInv, [RegistryNext]_sessionVars
  PROVE  RegistryTypeOK' /\ RegistryInv'
<1>1. RegistryTypeOK'
  BY RegistryTypeStep
<1>2. CallsInOrder'
  BY <1>1, CallsStep
<1>3. CacheInv
  BY DEF RegistryInv, CacheInv
<1>4. CacheInv'
  <2>1. ASSUME NEW t \in ThreadIds, Get(t)
        PROVE  CacheInv'
    BY <2>1, GetKeeps
  <2>2. ASSUME NEW t \in ThreadIds, NEW f \in Fns, NEW v \in ConfigValues,
               CacheCall(t, f, v)
        PROVE  CacheInv'
    BY <2>2, CacheCallKeeps
  <2>3. ASSUME NEW t \in ThreadIds,
               \/ \E k \in Clients : ConnectClient(t, k)
               \/ Disconnect(t) \/ Call(t) \/ SizeMismatch(t) \/ Apply(t)
        PROVE  CacheInv'
    BY <1>3, <2>3, OtherKeeps
    DEF ConnectClient, Disconnect, Call, SizeMismatch, Apply, registryVars, registryHistory
  <2>4. CASE UNCHANGED sessionVars
    BY <1>3, <2>4, OtherKeeps DEF sessionVars, registryVars, registryHistory
  <2>5. QED
    BY <1>3, <2>1, <2>2, <2>3, <2>4, TickKeeps DEF RegistryNext, Get
<1>5. QED
  BY <1>1, <1>2, <1>4 DEF RegistryInv, CacheInv

\* and holds at the start
LEMMA RegistryInit == RegistryInitial => RegistryTypeOK /\ RegistryInv
<1> SUFFICES ASSUME RegistryInitial PROVE RegistryTypeOK /\ RegistryInv
  OBVIOUS
<1>1. EmptyConfig \in Configs
  BY DEF EmptyConfig, Configs
<1>2. RegistryTypeOK
  BY <1>1, ClockAssumption DEF RegistryInitial, RegistryTypeOK
<1>3. CallsInOrder /\ NothingImmortal
  BY DEF RegistryInitial, CallsInOrder, NothingImmortal
<1>4. ConfigKept /\ TimesInOrder
  BY <1>1 DEF RegistryInitial, ConfigKept, TimesInOrder, EmptyConfig
<1>5. QED
  BY <1>2, <1>3, <1>4 DEF RegistryInv

LEMMA Registry == RegistrySpec => [](RegistryTypeOK /\ RegistryInv)
<1>1. RegistryTypeOK /\ RegistryInv /\ [RegistryNext]_sessionVars => (RegistryTypeOK /\ RegistryInv)'
  BY RegistryStep
<1>2. QED
  BY <1>1, RegistryInit, PTL DEF RegistrySpec

(* The variables keep their types.                                         *)
THEOREM RegistryTypeCorrect == RegistrySpec => []RegistryTypeOK
  BY Registry, PTL

(* What a client has configured stays cached as long as it calls often     *)
(* enough, and no entry of the cache escapes its timeout: for any number   *)
(* of clients, threads and config functions, and for any timeout.          *)
THEOREM ConfigIsKept == RegistrySpec => []RegistryInv
  BY Registry, PTL

(* A new session starts with all that its client has configured.           *)
THEOREM NewSessionsAreConfigured == RegistrySpec => NewSessionConfigured
<1>1. RegistryTypeOK /\ RegistryInv /\ RegistryTypeOK' /\ RegistryInv' /\ [RegistryNext]_sessionVars
        => [NewSessionStep]_sessionVars
  <2> SUFFICES ASSUME RegistryTypeOK, RegistryInv, RegistryTypeOK', RegistryInv', [RegistryNext]_sessionVars,
                      NEW t \in ThreadIds, m[t] = NoSession, m'[t] # NoSession,
                      NEW f \in Fns, intent'[conn[t]][f] # Unset
               PROVE  m'[t][f] = intent'[conn[t]][f]
    BY DEF NewSessionStep
  <2>1. GetNew(t)
    BY DEF RegistryNext, ConnectClient, Disconnect, Call, CacheCall, SizeMismatch, GetKnown,
           GetNew, GetFails, Apply, Tick, sessionVars, registryVars, RegistryTypeOK,
           RegistryInv, CallsInOrder
  <2>2. m'[t] = cache'[conn[t]] /\ conn' = conn
    BY <2>1 DEF GetNew, RegistryTypeOK
  <2>3. conn[t] \in Clients /\ ~ Silent(conn[t])'
    BY <2>1, GetKeeps DEF Get
  <2>4. QED
    BY <2>2, <2>3 DEF RegistryInv, ConfigKept
<1>2. QED
  BY <1>1, Registry, PTL DEF RegistrySpec, NewSessionConfigured

(* Whoever gets a session sweeps the configuration of the silent clients.  *)
THEOREM SilentClientsAreSwept == RegistrySpec => SilentAreSwept
<1>1. RegistryTypeOK /\ RegistryInv /\ [RegistryNext]_sessionVars => [SweepStep]_sessionVars
  <2> SUFFICES ASSUME RegistryTypeOK, RegistryInv, [RegistryNext]_sessionVars,
                      NEW t \in ThreadIds, at[t] = "get", at'[t] = "apply",
                      NEW k \in Clients, cache'[k] # EmptyConfig
               PROVE  ~ Silent(k)'
    BY DEF SweepStep
  <2>1. Get(t)
    BY DEF RegistryNext, ConnectClient, Disconnect, Call, CacheCall, SizeMismatch, GetKnown,
           GetNew, GetFails, Apply, Tick, sessionVars, StepTo, RegistryTypeOK, Get
  <2>2. QED
    BY <2>1, GetKeeps
<1>2. QED
  BY <1>1, Registry, PTL DEF RegistrySpec, SilentAreSwept
=============================================================================
