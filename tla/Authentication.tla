----------------------------- MODULE Authentication -----------------------------
(***************************************************************************)
(* Who a request is from: the JWT authenticator (auth/jwt.rs) and the      *)
(* decision of the middleware around the router (auth/middleware.rs), as   *)
(* operators that CardEndpoints applies to each request.                   *)
(*                                                                         *)
(* Whether the decoder accepts a token (its signature, algorithm, expiry,  *)
(* and the audience and issuer when they are configured) is the            *)
(* jsonwebtoken crate's verdict and changes with time: a parameter here.   *)
(* The type and attributes of an identity are left out; its roles stand    *)
(* for all the ACL reads besides the id.                                   *)
(***************************************************************************)
CONSTANTS
  Tokens,         \* what may follow "Bearer "
  claims,         \* token |-> its claims, a partial map from names to values
  require_claims, \* claims a token must carry ({"sub"} unless configured)
  id_claim,       \* ClaimMapping: the claim that names the principal
  roles_claim,    \* ClaimMapping: the claim that lists the roles
  Nobody          \* Option::None: no identity, no token, no text

\* Claim values: a scalar with its text, null or an object, or an array of values.
Scalar(v) == v.kind \in {"string", "number", "bool"}

\* The text of a scalar, so the number 7 and the string "7" name one principal.
claim_to_string(v) == IF Scalar(v) THEN v.text ELSE Nobody

\* The token of a "Bearer " header of any letter case, unless it is empty.
bearer_token(header) ==
  IF header.scheme = "bearer" /\ header.token \in Tokens THEN header.token ELSE Nobody

\* The array elements with a text; any other value lists no role.
roles(c) ==
  IF roles_claim \in DOMAIN c /\ c[roles_claim].kind = "array"
  THEN {claim_to_string(v) : v \in c[roles_claim].items} \ {Nobody}
  ELSE {}

\* JWTAuthenticator::authenticate: the identity a header proves while the
\* decoder accepts the tokens in accepted, or Nobody.
authenticate(header, accepted) ==
  LET t == bearer_token(header)
      c == claims[t]
  IN IF /\ t \in accepted
        /\ require_claims \subseteq DOMAIN c
        /\ id_claim \in DOMAIN c
        /\ claim_to_string(c[id_claim]) # Nobody
     THEN [id |-> claim_to_string(c[id_claim]), role |-> roles(c)]
     ELSE Nobody

Paths == {"/", "/health", "/.well-known/agent-card.json", "/.well-known/agent.json",
          "/agent/authenticatedExtendedCard", "/explorer", "/explorer/agent-card"}

\* Mutant of exempt_paths: the extended card is taken for discovery.
exempt_paths_wide == {"/health", "/.well-known/agent-card.json", "/.well-known/agent.json",
                      "/agent/authenticatedExtendedCard"}

\* The list create gives the layer. A path is exempt if it starts with one of
\* them: of the routes, those are the three themselves.
exempt_paths == {"/health", "/.well-known/agent-card.json", "/.well-known/agent.json"}

\* The layer: "strict" is require_auth, which create always asks for;
\* "permissive" a layer that lets everyone through; "none" no layer at all.
AuthMode == {"none", "strict", "permissive"}

\* Whether the layer answers 401 itself to a request that proved who.
unauthorized(mode, path, who) ==
  mode = "strict" /\ path \notin exempt_paths /\ who = Nobody

\* What the layer inserts for the handlers: an exempt path is identified too.
identify(mode, header, accepted) ==
  IF mode = "none" THEN Nobody ELSE authenticate(header, accepted)
=================================================================================
