----------------------------- MODULE MCPgStores -----------------------------
(***************************************************************************)
(* The PostgreSQL stores of the links and of the tokens, with model        *)
(* values.  The links, the sessions of a game and the tokens of Twinoid    *)
(* share no table, so a behaviour exercises one of them.  Twinoid gives p1 *)
(* two pairs of tokens, and the new access token that its first refresh    *)
(* token buys; one of its keys is also given for u2.                       *)
(***************************************************************************)
EXTENDS PgLinkStore, PgTokenStore, PgOauthTokens, TLC

CONSTANTS t1, t2, p1, p2

VARIABLE part

MCGrants == {[user |-> p1, access |-> t1, refresh |-> t1],
             [user |-> p1, access |-> t2, refresh |-> t2],
             [user |-> p1, access |-> t2, refresh |-> t1],
             [user |-> p2, access |-> t2, refresh |-> t1]}

MCInit == /\ InitLinks /\ Init /\ InitOauth
          /\ part \in {"links", "sessions", "oauth"}

MCNext == /\ UNCHANGED part
          /\ \/ part = "links" /\ NextLinks /\ UNCHANGED <<vars, oauthVars>>
             \/ part = "sessions" /\ Next /\ UNCHANGED <<linkVars, oauthVars>>
             \/ part = "oauth" /\ NextOauth /\ UNCHANGED <<linkVars, vars>>

MCSpec == MCInit /\ [][MCNext]_<<linkVars, vars, oauthVars, part>>

-----------------------------------------------------------------------------
\* A key and a user have one session, a row that a transaction holds stays, and
\* what a caller is told or reads is what was stored for them together, but for
\* the races that MisreportOnlyUnderRace and GrantsTogether name.
TokensAgree == OneSession /\ LocksHold /\ MisreportOnlyUnderRace /\ GrantsTogether

\* The links have the users, the calls and, as remote ids, the keys of the tokens.
Symmetry == Permutations(Calls) \cup Permutations(Keys) \cup Permutations(Users)
=============================================================================
