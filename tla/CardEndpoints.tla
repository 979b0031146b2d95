------------------------------ MODULE CardEndpoints ------------------------------
(***************************************************************************)
(* What a caller is shown and what it may then call: the router that       *)
(* A2AServerFactory::create builds, the auth layer around it, the public,  *)
(* extended and Explorer cards, and the dispatch of POST / up to the       *)
(* verdict of the executor pipeline on the skill of a message.             *)
(*                                                                         *)
(* A request is admitted (or refused) by the layer and then handled;       *)
(* requests interleave, and tokens expire in between. The two filtered     *)
(* cards share nothing: a behaviour follows the cache of one of them. The  *)
(* pipeline is apcore's: its ACL reads the identity, its approval gate the *)
(* ACL rule and the annotation of the module.                              *)
(***************************************************************************)
EXTENDS FilteredCardCache, Authentication

CONSTANTS
  Anonymous,   \* the identity the ACL and the stores take Nobody for
  System,      \* skills in apcore's system namespace
  Gated,       \* identity |-> allowed skills whose rule demands approval
  Annotated,   \* skills whose module is annotated requires_approval
  Headers      \* Authorization headers requests may carry

Route == {"public", "extended", "explorer", "rpc", "rpc_extended", "send"}

path(rt) ==
  CASE rt = "public"   -> "/.well-known/agent-card.json"
    [] rt = "extended" -> "/agent/authenticatedExtendedCard"
    [] rt = "explorer" -> "/explorer/agent-card"
    [] OTHER           -> "/"

\* Bodies of POST / that name no method of the server.
Malformed == {"media_type", "unparsable", "batch", "no_object", "version",
              "no_method", "unknown_method"}

Reply == {"waiting", "card", "401", "404", "415", "-32007", "-32600", "-32601",
          "-32700", "refused", "approval", "ran"}

ASSUME EndpointsAssumption ==
  /\ Anonymous \in Identity
  /\ Nobody \notin Identity
  /\ None \notin Route
  /\ System \subseteq Skills
  /\ Annotated \subseteq Skills
  /\ Gated \in [Identity -> Card]
  /\ \A h \in Headers, accepted \in SUBSET Tokens :
       authenticate(h, accepted) \in Identity \cup {Nobody}

VARIABLES
  mode,      \* the auth layer
  kept,      \* the FilteredCard that cache stands for
  accepted,  \* tokens the decoder accepts
  route,     \* what each request asks for
  who,       \* the identity its credentials proved
  skill,     \* the skill a message names
  shown,     \* the skills on the card it was answered
  reply      \* how it was answered

endpointVars == <<mode, kept, accepted, route, who, skill, shown, reply>>
allVars == <<vars, endpointVars>>

\* The principal a handler acts for.
principal(r) == IF who[r] = Nobody THEN Anonymous ELSE who[r]

\* capabilities.extendedAgentCard: create was given an authenticator. (A
\* permissive layer is put around the router from outside.)
extended_agent_card(m) == m = "strict"

\* Mutant of public_card: the annotation is the rule's business.
public_card_unannotated == acl_filtered_card(Anonymous) \ (System \cup Gated[Anonymous])

\* The card built once for the anonymous principal: four subtractions.
public_card == acl_filtered_card(Anonymous) \ (System \cup Gated[Anonymous] \cup Annotated)

\* The verdict of the pipeline on a call of s by p (apcore).
pipeline(p, s) ==
  CASE s \notin Allowed[p]                                 -> "refused"
    [] s \in Allowed[p] \cap (Gated[p] \cup Annotated)     -> "approval"
    [] s \in Allowed[p] \ (Gated[p] \cup Annotated)        -> "ran"

\* How jsonrpc_handler answers a body that names no method.
envelope_error(body) ==
  CASE body = "media_type"     -> "415"
    [] body = "unparsable"     -> "-32700"
    [] body = "unknown_method" -> "-32601"
    [] OTHER                   -> "-32600"

EndpointsInit ==
  /\ Init
  /\ mode \in AuthMode
  /\ kept \in {"extended", "explorer"}
  /\ accepted = Tokens
  /\ route = [r \in Callers |-> None]
  /\ who = [r \in Callers |-> Nobody]
  /\ skill = [r \in Callers |-> None]
  /\ shown = [r \in Callers |-> {}]
  /\ reply = [r \in Callers |-> "waiting"]

\* exp passes.
Expire(t) ==
  /\ t \in accepted
  /\ accepted' = accepted \ {t}
  /\ UNCHANGED <<vars, mode, kept, route, who, skill, shown, reply>>

\* The layer around the router: 401, or on to the handler of the route.
Arrive(r, rt, header) ==
  /\ route[r] = None
  /\ rt \in {"extended", "rpc_extended"} => kept = "extended"
  /\ rt = "explorer" => kept = "explorer"
  /\ route' = [route EXCEPT ![r] = rt]
  /\ who' = [who EXCEPT ![r] = identify(mode, header, accepted)]
  /\ reply' = [reply EXCEPT ![r] =
       IF unauthorized(mode, path(rt), who'[r]) THEN "401" ELSE "waiting"]
  /\ UNCHANGED <<vars, mode, kept, accepted, skill, shown>>

Handling(r, routes) == route[r] \in routes /\ reply[r] = "waiting"

Answer(r, what) == reply' = [reply EXCEPT ![r] = what]

\* public_agent_card: a memory read, whoever asks.
ServePublic(r) ==
  /\ Handling(r, {"public"})
  /\ shown' = [shown EXCEPT ![r] = public_card]
  /\ Answer(r, "card")
  /\ UNCHANGED <<vars, mode, kept, accepted, route, who, skill>>

\* serve_extended_card and GetExtendedAgentCard without an extended card.
NotConfigured(r) ==
  /\ Handling(r, {"extended", "rpc_extended"})
  /\ mode # "strict"
  /\ Answer(r, IF route[r] = "extended" THEN "404" ELSE "-32007")
  /\ UNCHANGED <<vars, mode, kept, accepted, route, who, skill, shown>>

\* A card filtered per caller: for_caller, and the answer with the card it returns.
Filtered(r) ==
  /\ Handling(r, {"extended", "rpc_extended", "explorer"})
  /\ route[r] # "explorer" => mode = "strict"

LookUpCard(r) ==
  /\ Filtered(r)
  /\ \/ /\ Hit(r, principal(r))
        /\ shown' = [shown EXCEPT ![r] = card'[r]]
        /\ Answer(r, "card")
     \/ Miss(r, principal(r)) /\ UNCHANGED <<shown, reply>>
  /\ UNCHANGED <<mode, kept, accepted, route, who, skill>>

FilterCard(r) ==
  /\ Filtered(r)
  /\ Filter(r)
  /\ UNCHANGED endpointVars

InsertCard(r) ==
  /\ Filtered(r)
  /\ Insert(r)
  /\ shown' = [shown EXCEPT ![r] = card[r]]
  /\ Answer(r, "card")
  /\ UNCHANGED <<mode, kept, accepted, route, who, skill>>

AnswerMalformed(r, body) ==
  /\ Handling(r, {"rpc"})
  /\ Answer(r, envelope_error(body))
  /\ UNCHANGED <<vars, mode, kept, accepted, route, who, skill, shown>>

\* message/send of a known skill, as far as the pipeline's verdict.
Send(r, s) ==
  /\ Handling(r, {"send"})
  /\ skill' = [skill EXCEPT ![r] = s]
  /\ Answer(r, pipeline(principal(r), s))
  /\ UNCHANGED <<vars, mode, kept, accepted, route, who, shown>>

EndpointsNext ==
  \/ \E t \in Tokens : Expire(t)
  \/ \E r \in Callers :
       \/ \E rt \in Route, h \in Headers : Arrive(r, rt, h)
       \/ ServePublic(r) \/ NotConfigured(r)
       \/ LookUpCard(r) \/ FilterCard(r) \/ InsertCard(r)
       \/ \E body \in Malformed : AnswerMalformed(r, body)
       \/ \E s \in Skills : Send(r, s)

EndpointsSpec == EndpointsInit /\ [][EndpointsNext]_allVars

-----------------------------------------------------------------------------
\* Every request has its route, proof and answer; none is answered before it
\* has arrived, and only cards show skills.
EndpointsTypeOK ==
  /\ TypeOK
  /\ mode \in AuthMode
  /\ kept \in {"extended", "explorer"}
  /\ accepted \subseteq Tokens
  /\ route \in [Callers -> Route \cup {None}]
  /\ who \in [Callers -> Identity \cup {Nobody}]
  /\ skill \in [Callers -> Skills \cup {None}]
  /\ shown \in [Callers -> Card]
  /\ reply \in [Callers -> Reply]
  /\ \A r \in Callers : /\ route[r] = None => reply[r] = "waiting"
                        /\ shown[r] # {} => reply[r] = "card"

\* No other request came with the id of r and different roles.
Steady(r) == \A q \in Callers :
  route[q] # None /\ principal(q).id = principal(r).id => principal(q) = principal(r)

Advertised(r) == reply[r] = "card" /\ route[r] # "public"

\* Discovery and enforcement agree, across requests, a shared cache and a token
\* that was renewed in between: a caller whose roles did not change is refused
\* exactly the skills that the filtered card it was shown leaves out, and what
\* the public card shows, an anonymous caller just runs ("The filter and the
\* enforcement path must reach the same verdict", comment of acl_filtered_card).
AdvertisedIsInvocable ==
  \A r, q \in Callers : skill[q] # None =>
    /\ Advertised(r) /\ Steady(r) /\ principal(q) = principal(r)
         => (skill[q] \in shown[r] <=> reply[q] # "refused")
    /\ route[r] = "public" /\ principal(q) = Anonymous /\ skill[q] \in shown[r]
         => reply[q] = "ran"

\* The extended card goes exactly to the callers it is advertised for: with the
\* capability announced, to those whose credentials the layer accepted in that
\* very request, whatever was cached for them before; without it, to nobody
\* (srs FR-AGC-006 as quoted at extended_agent_card).
ExtendedAsAdvertised ==
  \A r \in Callers : route[r] \in {"extended", "rpc_extended"} =>
    /\ reply[r] = "card" => extended_agent_card(mode) /\ who[r] # Nobody
    /\ reply[r] \notin {"card", "waiting"} => ~ extended_agent_card(mode) \/ who[r] = Nobody
==================================================================================
