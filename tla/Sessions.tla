------------------------------ MODULE Sessions ------------------------------
(***************************************************************************)
(* One account's sessions: the refresh_token and app_password tables       *)
(* (src/store/accounts.rs) under sign-in, refresh, sign-out and app        *)
(* passwords (src/account.rs, src/server/session.rs).                      *)
(*                                                                         *)
(* A server takes its account database's mutex for a whole piece of work;  *)
(* between two servers on one database only SQLite's own transactions are  *)
(* atomic, so a refresh is the statements rotate makes, one step each.     *)
(* Signatures and the expiry inside a token are left out: a token's own    *)
(* expiry is never before its row's.                                       *)
(***************************************************************************)
EXTENDS Integers, FiniteSets

CONSTANTS MaxIds,     \* bound: session ids there are to mint
          Apps,       \* names of app passwords
          Refreshes,  \* calls to refresh_session
          Logins,     \* calls to login and then open_session
          ServerOf,   \* the server each call is made to
          Grace,      \* how long an exchanged token stays good
          Lifetime,   \* how long a session lasts
          MaxNow,     \* bound: how far the clock runs
          MaxEnded,   \* bound: sign-outs
          MaxChanges, \* bound: app passwords taken away or written
          None        \* no row, no successor, no app password, no call

ASSUME CallsAssumption ==
  /\ Refreshes \cap Logins = {}
  /\ DOMAIN ServerOf = Refreshes \cup Logins
  /\ None \notin Nat \cup Apps \cup Refreshes \cup Logins
ASSUME TimesAssumption ==
  /\ Grace \in Nat \ {0} /\ Lifetime \in Nat /\ Grace < Lifetime
  /\ MaxIds \in Nat \ {0, 1} /\ MaxNow \in Nat /\ MaxEnded \in Nat /\ MaxChanges \in Nat

\* Ids are random; here they are numbered in the order they are first written.
Ids == 1..MaxIds

\* What a row holds: when it runs out, the id that succeeds it and the app
\* password it was opened with.
Rows == [exp : 0..(MaxNow + Lifetime), next : Ids \cup {None}, app : Apps \cup {None}]

ASSUME NoneAssumption == None \notin Rows

Calls == Refreshes \cup Logins
Servers == {ServerOf[c] : c \in Calls}

VARIABLES now,      \* the clock
          rows,     \* refresh_token: what each id holds, or no row
          apps,     \* app_password: the names there are
          lock,     \* the call that has each server's account database
          pc,       \* where each call is
          asked,    \* the id a refresh was asked to exchange
          read,     \* the row it read, and for a login the app password it proved
          at,       \* the time it read
          used,     \* ids that have been written
          handed,   \* ids a client holds a token for
          answers,  \* every exchange made: a token and its successor
          ended,    \* ids signed out of
          changes,  \* changes made to the app passwords
          crossed,  \* whether a login opened a session with an app password that was gone
          back      \* ids whose row was written again after it had gone

vars == <<now, rows, apps, lock, pc, asked, read, at, used, handed, answers, ended, changes, crossed, back>>
call == <<pc, asked, read, at>>

Session(exp, app) == [exp |-> exp, next |-> None, app |-> app]

\* A unit of time ago somebody signed in, with an app password where there is
\* one and the account's own where there is none, and exchanged the token.
Init ==
  /\ now = 0
  /\ apps \in SUBSET Apps
  /\ \E app \in IF apps = {} THEN {None} ELSE apps :
       rows = [[i \in Ids |-> None] EXCEPT ![1] = [Session(Grace - 1, app) EXCEPT !.next = 2],
                                           ![2] = Session(Lifetime - 1, app)]
  /\ used = {1, 2}
  /\ handed = {1, 2}
  /\ answers = {[of |-> 1, next |-> 2]}
  /\ lock = [s \in Servers |-> None]
  /\ pc = [c \in Calls |-> "idle"]
  /\ asked = [c \in Calls |-> None]
  /\ read = [c \in Calls |-> None]
  /\ at = [c \in Calls |-> 0]
  /\ ended = {}
  /\ changes = 0
  /\ crossed = FALSE
  /\ back = {}

\* The next id to be minted.
Fresh == {i \in Ids \ used : \A j \in Ids \ used : i <= j}

-----------------------------------------------------------------------------
(* Signing in. *)

\* Manager::check proves the account's own password or one of its app
\* passwords, and gives the database up ...
Login(c) ==
  /\ c \in Logins
  /\ pc[c] = "idle"
  /\ lock[ServerOf[c]] = None
  /\ \E app \in apps \cup {None} : read' = [read EXCEPT ![c] = app]
  /\ pc' = [pc EXCEPT ![c] = "open"]
  /\ UNCHANGED <<now, rows, apps, lock, asked, at, used, handed, answers, ended, changes, crossed, back>>

\* ... and Manager::open_session writes the session with what was proved.
Open(c) ==
  /\ pc[c] = "open"
  /\ lock[ServerOf[c]] = None
  /\ \E id \in Fresh :
       /\ rows' = [rows EXCEPT ![id] = Session(now + Lifetime, read[c])]
       /\ used' = used \cup {id}
       /\ handed' = handed \cup {id}
  /\ pc' = [pc EXCEPT ![c] = "done"]
  /\ read' = [read EXCEPT ![c] = None]
  /\ crossed' = (crossed \/ read[c] \notin apps \cup {None})
  /\ UNCHANGED <<now, apps, lock, asked, at, answers, ended, changes, back>>

-----------------------------------------------------------------------------
(* Exchanging a refresh token: rotate, inside one server's mutex. *)

Ask(c) ==
  /\ c \in Refreshes
  /\ pc[c] = "idle"
  /\ lock[ServerOf[c]] = None
  /\ lock' = [lock EXCEPT ![ServerOf[c]] = c]
  /\ \E id \in handed : asked' = [asked EXCEPT ![c] = id]
  /\ pc' = [pc EXCEPT ![c] = "read"]
  /\ UNCHANGED <<now, rows, apps, read, at, used, handed, answers, ended, changes, crossed, back>>

\* The call is answered, and lets go of the database.
Return(c) ==
  /\ lock' = [lock EXCEPT ![ServerOf[c]] = None]
  /\ pc' = [pc EXCEPT ![c] = "done"]
  /\ asked' = [asked EXCEPT ![c] = None]
  /\ read' = [read EXCEPT ![c] = None]
  /\ at' = [at EXCEPT ![c] = 0]

\* Accounts::session.
Read(c) ==
  /\ pc[c] = "read"
  /\ IF rows[asked[c]] = None
     THEN Return(c)
     ELSE /\ read' = [read EXCEPT ![c] = rows[asked[c]]]
          /\ pc' = [pc EXCEPT ![c] = "expire"]
          /\ UNCHANGED <<lock, asked, at>>
  /\ UNCHANGED <<now, rows, apps, used, handed, answers, ended, changes, crossed, back>>

\* Mutant: the grace period, whatever the token had left.
AlwaysGrace(exp, when) == when + Grace

\* What an exchanged token keeps: the sooner of its own expiry and the grace
\* period.
Until(exp, when) == IF exp < when + Grace THEN exp ELSE when + Grace

\* Accounts::expire_sessions, and the answer to a token that has run out.
Expire(c) ==
  /\ pc[c] = "expire"
  /\ rows' = [i \in Ids |-> IF rows[i] # None /\ rows[i].exp <= now THEN None ELSE rows[i]]
  /\ IF Until(read[c].exp, now) <= now
     THEN Return(c)
     ELSE /\ at' = [at EXCEPT ![c] = now]
          /\ pc' = [pc EXCEPT ![c] = "rotate"]
          /\ UNCHANGED <<lock, asked, read>>
  /\ UNCHANGED <<now, apps, used, handed, answers, ended, changes, crossed, back>>

\* Mutants: the row is taken whoever succeeds it; only while nobody does.
HeldByAnybody(id, next) == rows[id] # None
HeldOnce(id, next) == rows[id] # None /\ rows[id].next = None

\* Accounts::rotate: the row is there, and names no other successor.
Held(id, next) == rows[id] # None /\ rows[id].next \in {None, next}

\* The session a token is exchanged for.
Successor(session, when) == Session(when + Lifetime, session.app)

\* The token is shortened and names its successor, and the successor is
\* written unless its row is there already, in one transaction.  The answer may
\* not reach the client.  Where another exchange named a different successor
\* nothing is written and the row is read again.
Rotate(c) ==
  /\ pc[c] = "rotate"
  /\ \E next \in IF read[c].next # None THEN {read[c].next} ELSE Fresh :
       LET id == asked[c]
           left == IF rows[id] = None THEN None
                   ELSE [exp |-> Until(read[c].exp, at[c]), next |-> next, app |-> rows[id].app]
           told == [rows EXCEPT ![id] = left]
       IN IF Held(id, next)
          THEN /\ rows' = IF rows[next] # None THEN told
                          ELSE [told EXCEPT ![next] = Successor(read[c], at[c])]
               /\ used' = used \cup {next}
               /\ back' = IF rows[next] = None /\ next \in used THEN back \cup {next} ELSE back
               /\ answers' = answers \cup {[of |-> id, next |-> next]}
               /\ handed' = handed \cup {next}
               /\ Return(c)
          ELSE /\ pc' = [pc EXCEPT ![c] = "read"]
               /\ read' = [read EXCEPT ![c] = None]
               /\ at' = [at EXCEPT ![c] = 0]
               /\ UNCHANGED <<rows, used, back, answers, handed, lock, asked>>
  /\ UNCHANGED <<now, apps, ended, changes, crossed>>

-----------------------------------------------------------------------------
(* Ending sessions. *)

\* Manager::revoke_session, on some server whose database is free.
Revoke(id) ==
  /\ Cardinality(ended) < MaxEnded
  /\ id \in handed \ ended
  /\ \E s \in Servers : lock[s] = None
  /\ rows' = [rows EXCEPT ![id] = None]
  /\ ended' = ended \cup {id}
  /\ UNCHANGED <<now, apps, lock, call, used, handed, answers, changes, crossed, back>>

\* Accounts::revoke_app_password, one transaction.
RevokeApp(app) ==
  /\ changes < MaxChanges
  /\ \E s \in Servers : lock[s] = None
  /\ app \in apps
  /\ apps' = apps \ {app}
  /\ rows' = [i \in Ids |-> IF rows[i] # None /\ rows[i].app = app THEN None ELSE rows[i]]
  /\ changes' = changes + 1
  /\ UNCHANGED <<now, lock, call, used, handed, answers, ended, crossed, back>>

\* Accounts::create_app_password, where the name is free.
CreateApp(app) ==
  /\ changes < MaxChanges
  /\ \E s \in Servers : lock[s] = None
  /\ app \in Apps \ apps
  /\ apps' = apps \cup {app}
  /\ changes' = changes + 1
  /\ UNCHANGED <<now, rows, lock, call, used, handed, answers, ended, crossed, back>>

Tick ==
  /\ now < MaxNow
  /\ now' = now + 1
  /\ UNCHANGED <<rows, apps, lock, call, used, handed, answers, ended, changes, crossed, back>>

Works(c) == Read(c) \/ Expire(c) \/ Rotate(c)

Next ==
  \/ \E c \in Calls : Login(c) \/ Open(c) \/ Ask(c) \/ Works(c)
  \/ \E id \in Ids : Revoke(id)
  \/ \E app \in Apps : RevokeApp(app) \/ CreateApp(app)
  \/ Tick

Spec == Init /\ [][Next]_vars

\* A task that has the database goes on with it.
FairSpec == Spec /\ \A c \in Refreshes : WF_vars(Works(c))

-----------------------------------------------------------------------------
(* Properties. *)

TypeOK ==
  /\ now \in 0..MaxNow
  /\ rows \in [Ids -> Rows \cup {None}]
  /\ apps \subseteq Apps
  /\ lock \in [Servers -> Refreshes \cup {None}]
  /\ asked \in [Calls -> Ids \cup {None}]
  /\ at \in [Calls -> 0..MaxNow]
  /\ handed \subseteq used /\ used \subseteq Ids /\ ended \subseteq Ids

\* "A client that retries is handed the same successor rather than a second
\* session" (rotate, account.rs 1881-1885): every exchange of one token, on
\* either server and however many answers were lost, arrives at one successor,
\* unless the token's own row had gone and come back; and the successor's row is
\* there to be handed over, unless it was signed out of.  A row comes back only
\* where one was signed out of while the token before it was still good.
OneSuccessor ==
  /\ TypeOK
  /\ \A a, b \in answers : a.of = b.of /\ a.of \notin back => a.next = b.next
  /\ back # {} => back \cap ended # {}
  /\ back = {} => \A i \in Ids : rows[i] # None /\ rows[i].next \notin ended \cup {None} => rows[rows[i].next] # None

\* "Exchanging one never lengthens it": no step moves the expiry of a row that
\* stays, in either direction but down (rotate, account.rs 1897-1899), whatever
\* another server did between the row being read and being written.
NeverLengthened ==
  [][\A i \in Ids \ back' : rows[i] # None /\ rows'[i] # None => rows'[i].exp <= rows[i].exp]_vars

\* Every exchange is answered: the loop in rotate ends, because a row it could
\* not take names the successor it will take next, or is gone.
EveryRefreshEnds == \A c \in Refreshes : pc[c] = "read" ~> pc[c] = "done"

=============================================================================
