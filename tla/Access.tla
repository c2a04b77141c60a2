------------------------------- MODULE Access -------------------------------
(***************************************************************************)
(* The tokens one account's sessions hand out and what a request is let    *)
(* do with one (src/xrpc/auth.rs), on top of the rows behind them          *)
(* (Sessions): minting, the extractors in front of every method, and the   *)
(* calls that change the rows.                                             *)
(*                                                                         *)
(* A token is what it claims.  Signing is left out: a token is one this    *)
(* server's secret signed, and others signed with it came before this      *)
(* server or prove something else.  Rows are stamped finely and tokens in  *)
(* whole seconds.                                                          *)
(***************************************************************************)
EXTENDS Sessions

CONSTANTS Privileged,      \* app passwords trusted with more than posting
          AccessLifetime,  \* how long an access token is good for
          Second           \* ticks of the clock to a second

ASSUME AccessAssumption ==
  /\ Privileged \subseteq Apps
  /\ Second \in Nat \ {0} /\ AccessLifetime \in Nat

VARIABLES due,     \* the session each call has written and not yet answered with
          tokens,  \* every token handed out
          gone,    \* when each app password was taken away
          late     \* app passwords taken away while a call was due one's tokens

accessVars == <<due, tokens, gone, late>>
allVars == <<vars, accessVars>>

-----------------------------------------------------------------------------
(* Tokens. *)

Seconds(t) == t \div Second

\* Scope, and the lists methods are held to.
FULL == {"access"}
STANDARD == {"access", "appPassPrivileged", "appPass"}

\* Mutant: a privileged app password is as good as the account's own.
ScopeOfTrusted(app) == IF app \in Privileged \cup {None} THEN "access" ELSE "appPass"

\* Manager::mint: the scope a session's password reaches.
ScopeOf(app) ==
  CASE app = None -> "access"
    [] app \in Privileged -> "appPassPrivileged"
    [] OTHER -> "appPass"

\* Tokens::mint.  app is no claim: whose password it came from.
Token(typ, scope, jti, lifetime, app) ==
  [typ |-> typ, scope |-> scope, jti |-> jti, aud |-> "here", service |-> FALSE,
   exp |-> Seconds(now + lifetime), app |-> app]

Pair(session) ==
  {Token("at+jwt", ScopeOf(session.app), None, AccessLifetime, session.app),
   Token("refresh+jwt", "refresh", session.id, Lifetime, session.app)}

\* Tokens the secret has also signed: for another audience, in place of a
\* service token, for an account waiting or taken down, under no id.
Elsewhere ==
  {[t EXCEPT !.app = "elsewhere"] : t \in
     {[Token("at+jwt", "access", None, Lifetime, None) EXCEPT !.aud = "there"],
      [Token("at+jwt", "access", None, Lifetime, None) EXCEPT !.service = TRUE],
      Token("at+jwt", "takendown", None, Lifetime, None),
      Token("at+jwt", "signupQueued", None, Lifetime, None),
      Token("refresh+jwt", "refresh", None, Lifetime, None)}}

\* Mutant: good for the second it names too.
RunOutLate(token) == token.exp < Seconds(now)

RunOut(token) == token.exp <= Seconds(now)

\* Tokens::verify.
Verify(token, typ, scopes, expired) ==
  /\ token.typ = typ
  /\ expired = "Refuse" => ~RunOut(token)
  /\ token.aud = "here"
  /\ ~token.service
  /\ token.scope \in scopes

verify_access(token, scopes) == Verify(token, "at+jwt", scopes, "Refuse")
verify_refresh(token, expired) == Verify(token, "refresh+jwt", {"refresh"}, expired) /\ token.jti # None

\* What a request may carry: a bearer token, or a credential of another kind.
Bearer(token) == [scheme |-> "Bearer", token |-> token]
Offers == {Bearer(t) : t \in tokens \cup Elsewhere} \cup {[scheme |-> s, token |-> None] : s \in {"None", "Dpop", "Basic"}}

\* Authorization::bearer, and the extractors: what each lets through.
Bears(offer) == offer.scheme = "Bearer"
Access(offer) == Bears(offer) /\ verify_access(offer.token, STANDARD)
Full(offer) == Bears(offer) /\ verify_access(offer.token, FULL)
Refresh(offer) == Bears(offer) /\ verify_refresh(offer.token, "Refuse")

\* Mutant: as for an exchange.
ClosingWhileGood(offer) == Refresh(offer)

Closing(offer) == Bears(offer) /\ verify_refresh(offer.token, "Allow")

-----------------------------------------------------------------------------
(* Requests. *)

\* The sessions there are had their tokens a unit of time ago.
AccessInit ==
  /\ Init
  /\ due = [c \in Calls |-> None]
  /\ tokens = {[t EXCEPT !.exp = Seconds((IF t.typ = "at+jwt" THEN AccessLifetime ELSE Lifetime) - 1)]
               : t \in UNION {Pair([id |-> id, app |-> rows[id].app]) : id \in handed}}
  /\ gone = [app \in Apps |-> None]
  /\ late = {}

\* createSession, up to the session being written.
SignsIn(c) ==
  \/ Login(c) /\ UNCHANGED accessVars
  \/ /\ Open(c)
     /\ \E id \in used' \ used : due' = [due EXCEPT ![c] = [id |-> id, app |-> read[c]]]
     /\ UNCHANGED <<tokens, gone, late>>

\* refreshSession, of a token that is good.
Exchanges(c) ==
  /\ Ask(c)
  /\ \E offer \in Offers : Refresh(offer) /\ offer.token.jti = asked'[c]
  /\ UNCHANGED accessVars

\* The exchange goes on, and is due its tokens where it took the row: the
\* successor's it read, or the one it minted.
Rotates(c) ==
  /\ Works(c)
  /\ IF pc[c] = "rotate" /\ pc'[c] = "done"
     THEN \E id \in IF read[c].next # None THEN {read[c].next} ELSE used' \ used :
            due' = [due EXCEPT ![c] = [id |-> id, app |-> read[c].app]]
     ELSE UNCHANGED due
  /\ UNCHANGED <<tokens, gone, late>>

\* The answer: both tokens, dated as they are minted.
Mint(c) ==
  /\ due[c] # None
  /\ tokens' = tokens \cup Pair(due[c])
  /\ due' = [due EXCEPT ![c] = None]
  /\ UNCHANGED <<vars, gone, late>>

\* deleteSession.
DeletesSession ==
  /\ \E offer \in Offers : Closing(offer) /\ Revoke(offer.token.jti)
  /\ UNCHANGED accessVars

\* createAppPassword, which takes a full session.
CreatesAppPassword ==
  /\ \E offer \in Offers : Full(offer)
  /\ \E app \in Apps : CreateApp(app)
  /\ UNCHANGED accessVars

\* revokeAppPassword, which any session may call.
RevokesAppPassword ==
  /\ \E offer \in Offers : Access(offer)
  /\ \E app \in Apps :
       /\ RevokeApp(app)
       /\ gone' = [gone EXCEPT ![app] = now]
       /\ late' = IF \E c \in Calls : due[c] # None /\ due[c].app = app THEN late \cup {app} ELSE late
  /\ UNCHANGED <<due, tokens>>

AccessNext ==
  \/ \E c \in Calls : SignsIn(c) \/ Exchanges(c) \/ Rotates(c) \/ Mint(c)
  \/ DeletesSession \/ CreatesAppPassword \/ RevokesAppPassword
  \/ Tick /\ UNCHANGED accessVars

\* As FairSpec of Sessions.
AccessSpec == AccessInit /\ [][AccessNext]_allVars /\ \A c \in Refreshes : WF_vars(Works(c))

-----------------------------------------------------------------------------
(* Properties. *)

\* "An app password may write records under the account and may not change the
\* account itself": through sign-in, exchange and exchange again, what opens a
\* full session came from the account's own password, what opens any session
\* was minted here for one, and "an access token cannot be spent as a refresh
\* token or the other way about".
FullIsThePassword ==
  \A offer \in Offers :
    /\ Full(offer) => offer.token.app = None
    /\ Access(offer) => offer.token \in tokens /\ ~Closing(offer)
    /\ Refresh(offer) => Closing(offer)

\* "Takes an app password away, along with the sessions opened with it": no
\* exchange under way on either server brings one of them back, and an access
\* token, which has no row, outlives the password by no longer than one is good
\* for.  Both unless a sign-in was between its check and its session when the
\* password went, or an answer on its way (Accounts::revoke_app_password).
RevokedRunsOut ==
  /\ ~crossed => \A i \in Ids : rows[i] # None => rows[i].app \in apps \cup {None}
  /\ \A offer \in Offers :
       Access(offer) =>
         \/ offer.token.app = None
         \/ offer.token.app \in apps
         \/ gone[offer.token.app] = None
         \/ now < gone[offer.token.app] + AccessLifetime
         \/ offer.token.app \in late \/ crossed

\* "The alternative is a session nobody can close": whoever was handed a
\* session's token can end the session for as long as its row stands, and can
\* exchange it until the row runs out, but for the second its expiry is cut to
\* and unless the session went and came back.
HoldersCanClose ==
  \A offer \in Offers :
    Bears(offer) /\ offer.token \in tokens /\ offer.token.typ = "refresh+jwt" /\ rows[offer.token.jti] # None
    => /\ Closing(offer)
       /\ rows[offer.token.jti].exp >= now + Second /\ offer.token.jti \notin back => Refresh(offer)

=============================================================================
