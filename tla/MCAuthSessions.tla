---------------------------- MODULE MCAuthSessions ----------------------------
(* One address typed in two ways, and one of another domain.               *)
EXTENDS AuthSessions, TLC

CONSTANTS mail, Mail, other

MCNormal == (mail :> mail) @@ (Mail :> mail) @@ (other :> other)
=============================================================================
