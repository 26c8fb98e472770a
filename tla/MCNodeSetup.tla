----------------------------- MODULE MCNodeSetup -----------------------------
(***************************************************************************)
(* Node entries for TLC: a plain entry of every type, and entries that are *)
(* disabled, have a token of their own, have keys that are complete, half  *)
(* given, inconsistent or garbled, or are not valid.                       *)
(***************************************************************************)
EXTENDS NodeSetup

MCPlain(type) ==
    [type |-> type, enabled |-> TRUE, token |-> "", port |-> 443,
     priv |-> NoKey, pub |-> NoKey]

MCKey(n) == <<"operator", n, 0>>

MCShapes ==
    {MCPlain(type) : type \in {"reality", "hysteria2", "dual"}}
    \cup {[MCPlain("vless") EXCEPT !.enabled = FALSE],
          [MCPlain("vless") EXCEPT !.token = "own"],
          [MCPlain("hy2") EXCEPT !.token = "own"],
          [MCPlain("vless") EXCEPT !.priv = MCKey(1)],
          [MCPlain("vless") EXCEPT !.priv = MCKey(1), !.pub = MCKey(1)],
          [MCPlain("vless") EXCEPT !.priv = MCKey(1), !.pub = MCKey(2)],
          [MCPlain("all") EXCEPT !.priv = Garbled],
          [MCPlain("hy2") EXCEPT !.port = 0]}
=============================================================================
