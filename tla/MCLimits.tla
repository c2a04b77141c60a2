------------------------------ MODULE MCLimits ------------------------------
(* Small budgets, and a few callers after them. *)
EXTENDS Limits, TLC

CONSTANT Callers

Call(kind, caller, name, did, points, bypassed) ==
  [kind |-> kind, caller |-> caller, name |-> name, did |-> did, points |-> points,
   bypassed |-> bypassed]

\* Sign-ins under one name; writes of one account, from a caller the middleware
\* counts and from one it does not; downloads of every address; sign-ups, and
\* another who is not counted; any other call from two addresses.
Mixed ==
  {{Call("createSession", c, "n1", "none", 1, FALSE)} : c \in Callers}
    \cup {{Call("write", c, "none", "d1", 2, FALSE)} : c \in Callers}
    \cup {{Call("write", c, "none", "d1", 1, TRUE)} : c \in Callers}
    \cup {{Call("getRepo", c, "none", "none", 1, FALSE) : c \in Callers}}
    \cup {{Call("createAccount", c, "none", "none", 1, FALSE),
           Call("other", c, "none", "none", 1, TRUE)} : c \in Callers}
    \cup {{Call("other", c, "none", "none", 1, FALSE) : c \in Callers \ {d}} : d \in Callers}

SmallPoints == [b \in Budgets |-> CASE b \in {"session", "signup", "repo"} -> 1
                                   [] OTHER -> 2]
SmallWindows ==
  [b \in Budgets |-> IF b \in {"sessionDay", "writesDay", "global", "repo"} THEN 3 ELSE 2]

Same == Permutations(Threads) \cup Permutations(Callers)
=============================================================================
