------------------------------- MODULE MCAuth -------------------------------
(***************************************************************************)
(* The service of sign-ups, logins and links, and the one of e-mails, OAuth*)
(* codes and access tokens, with model values.  They share no state, so a  *)
(* behaviour exercises one of them.  The first of two OAuth clients was    *)
(* configured in two ways.                                                 *)
(***************************************************************************)
EXTENDS AuthService, AuthTokens, TLC

CONSTANTS k1, k2, u1, u2, s1, s2

VARIABLE part

MCConfigs == {[key |-> k1, callback |-> u1, secret |-> s1],
              [key |-> k1, callback |-> u2, secret |-> s1],
              [key |-> k2, callback |-> u2, secret |-> s2]}

MCInit == Init /\ InitOauth /\ part \in {"service", "tokens"}

MCNext == /\ UNCHANGED part
          /\ \/ part = "service" /\ Next /\ UNCHANGED oauthVars
             \/ part = "tokens" /\ NextOauth /\ UNCHANGED vars

MCSpec == MCInit /\ [][MCNext]_<<vars, oauthVars, part>>

\* Those who ask for tokens have the values of the concurrent calls.
Symmetry == Permutations(Users) \cup Permutations(Calls) \cup Permutations(Addresses)
=============================================================================
