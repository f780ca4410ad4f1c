----------------------------- MODULE Principals -----------------------------
(***************************************************************************)
(* Who a server takes a caller to be (cei/security.py): the certificate of *)
(* the connection first, then the token of the request's metadata, then    *)
(* the name the metadata claims.  Operators only, used by the servers      *)
(* whose callers are modelled with their evidence.                         *)
(*                                                                         *)
(* A token is what was signed, the HMAC being taken for unforgeable; the   *)
(* request id it also binds is left out, since no resolution reads it.     *)
(***************************************************************************)
EXTENDS Integers

CONSTANTS
    Nobody,        \* no principal (None, or an empty name)
    Unsigned,      \* metadata without auth_token, or one that is no HMAC of the secret
    HasSecret,     \* auth_secret is set
    RequireToken,  \* require_auth_token
    TrustMeta,     \* trust_meta_principal
    MaxSkew        \* auth_max_skew_ms

\* sign_meta: what the token of p's request at ts stands for.
Signed(p, ts) == [principal |-> p, ts |-> ts]

\* new_meta: the metadata a client writes, by its own clock.
NewMeta(p, ts) ==
    [principal |-> p, ts |-> ts, token |-> IF HasSecret THEN Signed(p, ts) ELSE Unsigned]

Distance(a, b) == IF a < b THEN b - a ELSE a - b

\* verify_meta, by the server's clock.
VerifiedMeta(meta, clock) ==
    /\ HasSecret
    /\ Distance(clock, meta.ts) <= MaxSkew
    /\ meta.token = Signed(meta.principal, meta.ts)

\* resolve_principal: cert is the peer's certified identity, or Nobody.  A name that
\* is not verified is believed only where tokens are optional and names trusted.
ResolvedPrincipal(cert, meta, clock) ==
    CASE cert # Nobody -> cert
      [] cert = Nobody /\ VerifiedMeta(meta, clock) -> meta.principal
      [] OTHER -> IF ~RequireToken /\ TrustMeta THEN meta.principal ELSE Nobody

=============================================================================
