------------------------------ MODULE OpenApiBackend ------------------------------
(***************************************************************************)
(* Building a backend from an OpenAPI document: openapi_backend.rs, from   *)
(* build_openapi_backend_from_config and openapi_backend_from_spec to the  *)
(* last registration.  The registry is an Arc that an embedder may share:  *)
(* another holder registers modules at any moment between two accesses.    *)
(*                                                                         *)
(* The document's operations get their module ids from the scanner         *)
(* (apcore-toolkit), which is the constant Derived.  Whoever runs the      *)
(* build takes over at "check" (the build returned Ok), "absent" (there    *)
(* was nothing to build) or "refused" (Err).                               *)
(***************************************************************************)
EXTENDS Integers, FiniteSets

CONSTANTS Ids,        \* module ids
          Legal,      \* those apcore's registry accepts
          Ops,        \* operations of OpenAPI documents
          Derived,    \* prefix |-> operation |-> the id the scanner emits
          Documents,  \* what a location may serve: ops, valid, server
          Sections,   \* settings mappings of the configuration
          Malformed,  \* a section that is no mapping
          None

Prefix == {"", " ", "api"}
Kind == {"public", "hidden", "undescribed"}
Module == [by : {"project", "document", "system", "elsewhere"}, kind : Kind]
Document == [ops : SUBSET Ops, valid : BOOLEAN, server : BOOLEAN]

(* A settings mapping has the keys that are set; an inline document is a   *)
(* spec too.                                                               *)
Settings == UNION {[K -> {"", " ", "api", "url", "inline", "host"}] :
                        K \in SUBSET {"spec", "prefix", "base_url"}}

ASSUME BackendAssumption ==
    /\ Legal \subseteq Ids
    /\ Derived \in [Prefix -> [Ops -> Ids]]
    /\ Documents \subseteq Document
    /\ Sections \subseteq Settings
    /\ {Malformed, None} \cap Settings = {}

VARIABLES
    registry,   \* id |-> module, for the ids registered
    at,         \* where the start-up stands
    settings,   \* the apcore-a2a.openapi mapping, Malformed or None
    has_other,  \* has_other_backend_source
    doc,        \* the document once it is loaded
    modules,    \* the legal ids of its scan
    todo,       \* those not yet handed to the registry
    faults      \* those whose registration failed for a reason of its own

backend_vars == <<registry, at, settings, has_other, doc, modules, todo, faults>>

BackendInit ==
    /\ registry = [i \in {} |-> None]
    /\ settings = None
    /\ has_other = FALSE
    /\ doc = None
    /\ modules = {}
    /\ todo = {}
    /\ faults = {}

with(r, i, m) == [j \in DOMAIN r \cup {i} |-> IF j = i THEN m ELSE r[j]]
get(s, key, default) == IF key \in DOMAIN s THEN s[key] ELSE default

(* A spec that is there and not blank. *)
names_a_spec(s) == get(s, "spec", "") \notin {"", " "}

prefix_of(s) == get(s, "prefix", "")

(* A blank location is discarded; the others are made absolute. *)
resolve_spec_location(spec) == IF spec \in {"", " "} THEN None ELSE spec

require_prefix == ~(has_other /\ prefix_of(settings) = "")

-----------------------------------------------------------------------------
(* options_from_config and require_prefix: everything that can be refused  *)
(* before the document is touched.                                         *)
accepted == /\ settings # Malformed
            /\ names_a_spec(settings)
            /\ require_prefix
            /\ resolve_spec_location(settings["spec"]) # None

Absent ==
    /\ at = "options"
    /\ settings = None
    /\ at' = "absent"
    /\ UNCHANGED <<registry, settings, has_other, doc, modules, todo, faults>>

Accept ==
    /\ at = "options"
    /\ settings # None
    /\ at' = IF accepted THEN "load" ELSE "refused"
    /\ UNCHANGED <<registry, settings, has_other, doc, modules, todo, faults>>

(* The location is fetched or read; an inline document is there already. *)
Load ==
    /\ at = "load"
    /\ \E d \in Documents : doc' = d
    /\ at' = "scan"
    /\ UNCHANGED <<registry, settings, has_other, modules, todo, faults>>

LoadFails ==
    /\ at = "load"
    /\ settings["spec"] # "inline"
    /\ at' = "refused"
    /\ UNCHANGED <<registry, settings, has_other, doc, modules, todo, faults>>

(* Mutant: every scanned id goes to the writer. *)
registrable_all(ids) == ids

(* Without the ids that have an illegal segment. *)
registrable(ids) == {i \in ids : i \in Legal}

Scan ==
    /\ at = "scan"
    /\ IF doc.valid
       THEN /\ modules' = registrable({Derived[prefix_of(settings)][o] : o \in doc.ops})
            /\ at' = "preflight"
       ELSE /\ at' = "refused"
            /\ UNCHANGED modules
    /\ UNCHANGED <<registry, settings, has_other, doc, todo, faults>>

(* Mutant: only the modules the registry lists by default are looked at. *)
existing_public == {i \in DOMAIN registry : registry[i].kind # "hidden"}

(* registry.list(.., ["public", "hidden"]). *)
existing == DOMAIN registry

(* The collision preflight over the full set, the base URL and the writer: *)
(* nothing after it refuses the build.  The writer rejects a malformed URL.*)
Preflight ==
    /\ at = "preflight"
    /\ \/ /\ at' = "refused"
          /\ \/ modules \cap existing # {}
             \/ "base_url" \in DOMAIN settings
             \/ ~doc.server
          /\ UNCHANGED todo
       \/ /\ at' = "write"
          /\ modules \cap existing = {}
          /\ "base_url" \in DOMAIN settings \/ doc.server
          /\ todo' = modules
    /\ UNCHANGED <<registry, settings, has_other, doc, modules, faults>>

(* Mutant: a registration replaces whatever has the id. *)
WriteReplacing(i) ==
    /\ at = "write"
    /\ i \in todo
    /\ todo' = todo \ {i}
    /\ registry' = with(registry, i, [by |-> "document", kind |-> "public"])
    /\ UNCHANGED <<at, settings, has_other, doc, modules, faults>>

(* One module handed to the registry, which refuses an id that is taken.   *)
Write(i) ==
    /\ at = "write"
    /\ i \in todo
    /\ todo' = todo \ {i}
    /\ registry' = IF i \in DOMAIN registry THEN registry
                   ELSE with(registry, i, [by |-> "document", kind |-> "public"])
    /\ UNCHANGED <<at, settings, has_other, doc, modules, faults>>

(* Mutant: the first failed registration ends the build with an error. *)
WriteFailsAborting(i) ==
    /\ at = "write"
    /\ i \in todo
    /\ at' = "refused"
    /\ UNCHANGED <<registry, settings, has_other, doc, modules, todo, faults>>

(* A registration that fails is logged, and the next one follows. *)
WriteFails(i) ==
    /\ at = "write"
    /\ i \in todo
    /\ todo' = todo \ {i}
    /\ faults' = faults \cup {i}
    /\ UNCHANGED <<registry, at, settings, has_other, doc, modules>>

Written ==
    /\ at = "write"
    /\ todo = {}
    /\ at' = "check"
    /\ UNCHANGED <<registry, settings, has_other, doc, modules, todo, faults>>

BackendStep ==
    \/ Absent \/ Accept
    \/ Load \/ LoadFails
    \/ Scan \/ Preflight
    \/ \E i \in Ids : Write(i) \/ WriteFails(i)
    \/ Written
===================================================================================
