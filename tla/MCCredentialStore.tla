------------------------- MODULE MCCredentialStore -------------------------
(***************************************************************************)
(* Small instances of CredentialStore for TLC: two processes.              *)
(***************************************************************************)
EXTENDS CredentialStore, TLC

CONSTANTS s1, s2, login, logout, r1, r2, oauth, other

\* Each process refreshes; the first one logs in, the second one logs out.
Owner == (login :> s1) @@ (r1 :> s1) @@ (logout :> s2) @@ (r2 :> s2)

\* The login is to the other provider, the logout is of the OAuth token.
Target == (login :> other) @@ (logout :> oauth)

=============================================================================
