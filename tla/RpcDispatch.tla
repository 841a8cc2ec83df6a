----------------------------- MODULE RpcDispatch -----------------------------
(***************************************************************************)
(* A JSON-RPC call on its way through the server: ev_server::OnApiRequest  *)
(* reads the body, call (json_rpc.cc) checks the request, and the function *)
(* object of the method (function_map.hh) takes the parameters apart one   *)
(* after the other, calls the C function and collects what it has put out  *)
(* while the recursion unwinds.  Some function objects leave a trace       *)
(* before their parameters are checked.                                    *)
(*                                                                         *)
(* js::read leaves what it has understood in its result also when it fails *)
(* and its return value is not looked at: a body that breaks off within an *)
(* object is treated like the object of the members read so far.  So a     *)
(* body is Empty, Other (no object) or any request, the broken-off ones    *)
(* among them.  A string is its number of octets (n), and the number it    *)
(* has when decoded from base64 (raw, or NotBase64).                       *)
(***************************************************************************)
EXTENDS Integers, Sequences, SequencesExt

CONSTANTS
    Values,       \* JSON values that occur as parameters
    Functions,    \* methods that can be called
    Sig,          \* the kinds of their C parameters
    Class,        \* which class of function_map.hh wraps them
    Requests,     \* the objects a body may contain
    IntRange,     \* an int of C has the values -IntRange .. IntRange - 1
    NotBase64,
    Empty,        \* the body without octets
    Other,        \* a body that is no JSON object
    None

Kinds == {"session", "string", "nullable", "binary", "length", "hidden_length",
          "int", "bool", "out", "inout"}

Classes == {"Func", "FuncCache", "FuncCachePassphrase", "FuncCachePassphrase4NewKeys"}

ASSUME RpcAssumption ==
    /\ IntRange \in Nat \ {0}
    /\ Sig \in [Functions -> Seq(Kinds)]
    /\ Class \in [Functions -> Classes]
    /\ \A f \in Functions :
          CASE Class[f] = "FuncCache" -> Sig[f] = << "session", "bool" >>
            [] Class[f] = "FuncCachePassphrase" -> Sig[f] = << "session", "string" >>
            [] Class[f] = "FuncCachePassphrase4NewKeys" ->
                  Sig[f] = << "session", "bool", "string" >>
            [] OTHER -> TRUE
    /\ Empty # Other /\ Empty \notin Requests /\ Other \notin Requests
    /\ None \notin Values /\ None \notin Functions /\ None \notin Seq(Values)
    /\ \A r \in Requests : r.params \in Seq(Values) \cup {None} /\ r.id.n \in Int

Null == [type |-> "null", n |-> 0, raw |-> NotBase64]
Size(n) == [type |-> "size", n |-> n, raw |-> NotBase64]

VARIABLES
    body,         \* Empty, Other or the request
    pc,
    request_id,
    p,            \* the parameters, with dummies where JSON has none
    args,         \* the C arguments extracted so far
    obj_store,    \* Context::obj_store: lengths by parameter number
    passphrases,  \* what went to the global passphrase_cache
    cached,       \* what JsonAdapter::cache got for the client, or None
    executed,     \* how often the C function was called
    out_params,   \* the numbers of the parameters put out, in order
    answer

traces == << passphrases, cached, executed >>
vars == << body, pc, request_id, p, args, obj_store, traces, out_params, answer >>

IsRequest == body \notin {Empty, Other}

fn == body.method

Result(id, outs) == [code |-> "result", id |-> id, outs |-> outs]
Error(code, id) == [code |-> code, id |-> id, outs |-> << >>]

States == {"read", "jsonrpc", "token", "method", "id", "params", "wrapped", "size",
           "extract", "execute", "unwind", "answered", "crashed"}

Codes == {"result", "PARSE_ERROR", "INVALID_REQUEST", "METHOD_NOT_FOUND", "INTERNAL_ERROR"}

TypeOK ==
    /\ body \in Requests \cup {Empty, Other}
    /\ pc \in States
    /\ request_id \in -IntRange .. IntRange - 1
    /\ p \in Seq(Values \cup {Null})
    /\ \A i \in DOMAIN args : args[i] \in Values \cup {Null, None} \/ args[i] = Size(args[i].n)
    /\ DOMAIN obj_store \subseteq Nat
    /\ passphrases \in Seq(Values)
    /\ cached \in Seq(Values \cup {Null}) \cup {None}
    /\ executed \in 0 .. 1
    /\ out_params \in Seq(Nat)
    /\ answer = None \/ answer.code \in Codes

-----------------------------------------------------------------------------
(* OnApiRequest *)

Reply(a) ==
    /\ answer' = a
    /\ pc' = "answered"
    /\ UNCHANGED << body, request_id, p, args, obj_store, traces, out_params >>

Goto(l) ==
    /\ pc' = l
    /\ UNCHANGED << body, request_id, p, args, obj_store, traces, out_params, answer >>

ReadEmpty == pc = "read" /\ body = Empty /\ Reply(Error("INTERNAL_ERROR", -42))

ReadOther == pc = "read" /\ body = Other /\ Reply(Error("PARSE_ERROR", 42))

ReadRequest == pc = "read" /\ IsRequest /\ Goto("jsonrpc")

-----------------------------------------------------------------------------
(* call: the checks of the request *)

Check(l, good, code, next) ==
    /\ pc = l
    /\ IF good THEN Goto(next) ELSE Reply(Error(code, request_id))

CheckVersion == Check("jsonrpc", body.jsonrpc, "INVALID_REQUEST", "token")

CheckToken == Check("token", body.token, "INVALID_REQUEST", "method")

\* a method that is no string comes before one that is unknown or a separator
CheckMethodType ==
    /\ pc = "method"
    /\ body.method = None
    /\ Reply(Error("INVALID_REQUEST", request_id))

FindMethod ==
    /\ pc = "method"
    /\ body.method # None
    /\ Check("method", body.method \in Functions, "METHOD_NOT_FOUND", "id")

\* an id that is not there may be null as well; a long one loses its upper bits
Truncated(n) == ((n + IntRange) % (2 * IntRange)) - IntRange

\* mutant of CheckId: an id of another type is the same as none
CheckIdLoose ==
    /\ pc = "id"
    /\ request_id' = (IF body.id.type = "int" THEN Truncated(body.id.n) ELSE request_id)
    /\ pc' = "params"
    /\ UNCHANGED << body, p, args, obj_store, traces, out_params, answer >>

CheckId ==
    /\ pc = "id"
    /\ IF body.id.type \in {"null", "int"}
       THEN /\ request_id' = (IF body.id.type = "int" THEN Truncated(body.id.n) ELSE request_id)
            /\ pc' = "params"
            /\ UNCHANGED << body, p, args, obj_store, traces, out_params, answer >>
       ELSE Reply(Error("INVALID_REQUEST", request_id))

\* mutant of CheckParams: params of another type are no parameters
CheckParamsLoose ==
    /\ pc = "params"
    /\ p' = (IF body.params = None THEN << >> ELSE body.params)
    /\ pc' = (IF Class[fn] = "Func" THEN "size" ELSE "wrapped")
    /\ UNCHANGED << body, request_id, args, obj_store, traces, out_params, answer >>

\* params \in Seq(Values), or None when it is of another type
CheckParams ==
    /\ pc = "params"
    /\ IF body.params = None
       THEN Reply(Error("INVALID_REQUEST", request_id))
       ELSE /\ p' = body.params
            /\ pc' = (IF Class[fn] = "Func" THEN "size" ELSE "wrapped")
            /\ UNCHANGED << body, request_id, args, obj_store, traces, out_params, answer >>

-----------------------------------------------------------------------------
(* function_map.hh *)

\* an exception ends the call, what was done before stays done
Throw == Reply(Error("INTERNAL_ERROR", request_id))

Cache(v) ==
    /\ cached' = v
    /\ pc' = "size"
    /\ UNCHANGED << body, request_id, p, args, obj_store, executed, out_params, answer >>

\* parameters[0] of an empty vector: the read through its null pointer ends the
\* program.  A value of another type throws.
FuncCache ==
    /\ pc = "wrapped"
    /\ Class[fn] = "FuncCache"
    /\ CASE p = << >> -> Goto("crashed")
         [] p # << >> /\ p[1].type # "bool" -> Throw
         [] OTHER -> Cache(<< p[1] >>) /\ UNCHANGED passphrases

FuncCachePassphrase ==
    /\ pc = "wrapped"
    /\ Class[fn] = "FuncCachePassphrase"
    /\ IF p = << >> \/ p[1].type # "str" THEN Throw
       ELSE /\ passphrases' = Append(passphrases, p[1])
            /\ Cache(<< p[1] >>)

\* mutant of the next: the parameters are bound in the wrong order
FuncCachePassphrase4NewKeysSwapped ==
    /\ pc = "wrapped"
    /\ Class[fn] = "FuncCachePassphrase4NewKeys"
    /\ IF Len(p) < 2 \/ p[1].type # "bool" \/ p[2].type # "str" THEN Throw
       ELSE /\ passphrases' = Append(passphrases, p[2])
            /\ Cache(<< p[2], p[1] >>)

FuncCachePassphrase4NewKeys ==
    /\ pc = "wrapped"
    /\ Class[fn] = "FuncCachePassphrase4NewKeys"
    /\ IF Len(p) < 2 \/ p[1].type # "bool" \/ p[2].type # "str" THEN Throw
       ELSE /\ passphrases' = Append(passphrases, p[2])
            /\ Cache(<< p[1], p[2] >>)

need_input(k) == k \notin {"session", "hidden_length"}
is_output(k) == k \in {"out", "inout"}

InputsBefore(f, i) == Cardinality({ j \in 1 .. i - 1 : need_input(Sig[f][j]) })
nr_of_input_params(f) == InputsBefore(f, Len(Sig[f]) + 1)

copyParam(f, src) ==
    [i \in 1 .. Len(Sig[f]) |->
        IF need_input(Sig[f][i]) THEN src[InputsBefore(f, i) + 1] ELSE Null]

CheckSize ==
    /\ pc = "size"
    /\ IF Len(p) # nr_of_input_params(fn) THEN Throw
       ELSE /\ p' = copyParam(fn, p)
            /\ pc' = "extract"
            /\ UNCHANGED << body, request_id, args, obj_store, traces, out_params, answer >>

\* whether the constructor of an element of kind k accepts v.  The one of a
\* session fails when the engine gives none
Accepts(k, v, i) ==
    CASE k = "string" -> v.type = "str"
      [] k = "nullable" -> v.type \in {"str", "null"}
      [] k = "binary" -> v.type = "str" /\ v.raw # NotBase64
      [] k = "bool" -> v.type = "bool"
      [] k \in {"int", "inout"} -> v.type = "int"
      [] k \in {"length", "hidden_length"} -> i - 1 \in DOMAIN obj_store
      [] OTHER -> TRUE

\* mutant of Octets: the length of the string as it came
OctetsCoded(k, v) == v.n

Octets(k, v) == IF k = "binary" THEN v.raw ELSE v.n

PreviousLength(i) == obj_store[i - 1]
\* the element of the next parameter is constructed
Extract ==
    LET i == Len(args) + 1
        k == Sig[fn][i]
    IN /\ pc = "extract"
       /\ i <= Len(Sig[fn])
       /\ \/ k = "session" /\ Throw
          \/ ~Accepts(k, p[i], i) /\ Throw
          \/ /\ Accepts(k, p[i], i)
             /\ args' = Append(args, CASE k \in {"length", "hidden_length"} -> Size(PreviousLength(i))
                                       [] k \in {"session", "out"} -> None
                                       [] OTHER -> p[i])
             /\ obj_store' = (IF k \in {"string", "nullable", "binary"}
                              THEN [j \in DOMAIN obj_store \cup {i} |->
                                      IF j = i THEN Octets(k, p[i]) ELSE obj_store[j]]
                              ELSE obj_store)
             /\ UNCHANGED << body, pc, request_id, p, traces, out_params, answer >>

\* the C function is called and may throw
Execute ==
    /\ pc = "extract"
    /\ Len(args) = Len(Sig[fn])
    /\ executed' = executed + 1
    /\ \/ pc' = "unwind" /\ UNCHANGED answer
       \/ pc' = "answered" /\ answer' = Error("INTERNAL_ERROR", request_id)
    /\ UNCHANGED << body, request_id, p, args, obj_store, passphrases, cached, out_params >>

\* the recursion returns from the last parameter to the first
Unwind ==
    /\ pc = "unwind"
    /\ args # << >>
    /\ args' = Front(args)
    /\ out_params' = (IF is_output(Sig[fn][Len(args)])
                      THEN Append(out_params, Len(args)) ELSE out_params)
    /\ UNCHANGED << body, pc, request_id, p, obj_store, traces, answer >>

Return == pc = "unwind" /\ args = << >> /\ Reply(Result(request_id, out_params))

-----------------------------------------------------------------------------

Init ==
    /\ body \in Requests \cup {Empty, Other}
    /\ pc = "read"
    /\ request_id = -1
    /\ p = << >> /\ args = << >> /\ obj_store = << >>
    /\ passphrases = << >> /\ cached = None /\ executed = 0
    /\ out_params = << >> /\ answer = None

Checks == CheckVersion \/ CheckToken \/ CheckMethodType \/ FindMethod \/ CheckId \/ CheckParams

Next ==
    \/ ReadEmpty \/ ReadOther \/ ReadRequest
    \/ Checks
    \/ FuncCache \/ FuncCachePassphrase \/ FuncCachePassphrase4NewKeys
    \/ CheckSize \/ Extract \/ Execute \/ Unwind \/ Return

Spec == Init /\ [][Next]_vars

-----------------------------------------------------------------------------
(* Properties *)

Dispatched == IsRequest /\ body.jsonrpc /\ body.token /\ body.method \in Functions
              /\ body.id.type \in {"null", "int"} /\ body.params # None

OwnId == IF body.id.type = "int" THEN Truncated(body.id.n) ELSE -1

\* An answer carries the id of its request exactly when it tells of a function
\* that was looked for with it: the answers before (make_error with the
\* initial request_id, json_rpc.cc:79) carry -1 although the request had an
\* id, those that were never understood carry 42 or -42 (ev_server.cc:380, 404).
\* A result has the outputs in the reverse order of the parameters, each of
\* them once (README.md:299, function_map.hh:119)
AnswerFits ==
    pc = "answered" =>
        /\ (answer.code \in {"result", "INTERNAL_ERROR"} /\ IsRequest) <=> Dispatched
        /\ Dispatched => answer.id = OwnId
        /\ answer.code = "PARSE_ERROR" <=> body = Other
        /\ answer.code = "METHOD_NOT_FOUND" =>
              body.method # None /\ body.jsonrpc /\ body.token /\ answer.id = -1

OutputsFit ==
    pc = "answered" /\ answer.code = "result" =>
        /\ ToSet(answer.outs) = { i \in 1 .. Len(Sig[fn]) : is_output(Sig[fn][i]) }
        /\ \A i, j \in DOMAIN answer.outs : i < j => answer.outs[i] > answer.outs[j]

AnswersItsRequest == AnswerFits /\ OutputsFit

\* A request that is refused leaves no trace: no setting is cached, no
\* passphrase is added, nothing is called.  A result was computed by exactly
\* one call.  (json_rpc.cc:80-130)
RefusedChangesNothing ==
    /\ ~Dispatched => passphrases = << >> /\ cached = None /\ executed = 0
    /\ pc = "answered" /\ answer.code = "result" => executed = 1

\* The C function is called with the parameters of the request, in their
\* order, and every length is that of the string before it as the function
\* sees it, decoded if it came in base64 (README.md:499-513, c_string.hh:4)
ArgumentsFit ==
    pc = "extract" /\ Len(args) = Len(Sig[fn]) =>
        \A i \in DOMAIN args :
            LET k == Sig[fn][i] IN
            /\ k \in {"length", "hidden_length"} =>
                  args[i] = Size(IF Sig[fn][i - 1] = "binary" THEN args[i - 1].raw
                                                              ELSE args[i - 1].n)
            /\ need_input(k) /\ k \notin {"length", "out"} =>
                  args[i] = body.params[Cardinality({ j \in 1 .. i : need_input(Sig[fn][j]) })]

\* A setting that is called for the session of this thread has been cached for
\* the other sessions of the client with the very same values; the passphrase
\* it names is in the passphrase cache, and nothing else is
\* (function_map.hh:238-252, 274-287, 308-323)
CachedIsApplied ==
    /\ pc = "extract" /\ Len(args) = Len(Sig[fn]) /\ Class[fn] # "Func" => cached = Tail(args)
    /\ cached # None => /\ ToSet(passphrases) = { v \in ToSet(cached) : v.type = "str" }
                        /\ Len(passphrases) <= 1
    /\ cached = None => passphrases = << >>
=============================================================================
