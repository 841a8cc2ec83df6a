--------------------------- MODULE MCRpcDispatch ---------------------------
EXTENDS RpcDispatch

Str(n, raw) == [type |-> "str", n |-> n, raw |-> raw]
Plain(t, n) == [type |-> t, n |-> n, raw |-> NotBase64]

MCValues == {Null, Str(3, NotBase64), Str(4, 2), Plain("bool", 1), Plain("int", 7)}

\* import_key, key_reset_user, verify_signature, add_mul_inout and tohex_3 of
\* the tests, the settings, and a method without parameters
MCSig ==
    [import_key |-> << "session", "binary", "length", "out" >>,
     key_reset_user |-> << "session", "string", "nullable" >>,
     get_languagelist |-> << "session", "out", "inout" >>,
     tohex_3 |-> << "string", "hidden_length", "string", "hidden_length" >>,
     conf |-> << "session", "bool" >>,
     passphrase |-> << "session", "string" >>,
     passphrase4nk |-> << "session", "bool", "string" >>,
     version |-> << >>]

MCFunctions == DOMAIN MCSig

MCClass ==
    [f \in MCFunctions |->
        CASE f = "conf" -> "FuncCache"
          [] f = "passphrase" -> "FuncCachePassphrase"
          [] f = "passphrase4nk" -> "FuncCachePassphrase4NewKeys"
          [] OTHER -> "Func"]

MCRequests ==
    [jsonrpc : BOOLEAN, token : BOOLEAN,
     method : MCFunctions \cup {None, "unknown"},
     id : {Null, Plain("int", 5), Plain("int", 130), Str(3, NotBase64)},
     params : UNION {[1 .. n -> MCValues] : n \in 0 .. 3} \cup {None}]
=============================================================================
