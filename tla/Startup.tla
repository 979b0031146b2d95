---------------------------------- MODULE Startup ----------------------------------
(***************************************************************************)
(* From a command line, or an embedder's call, to a server that answers:   *)
(* cli.rs (the merge of flags and configuration, the choice of sources,    *)
(* exit codes), apcore_a2a.rs (discovery, build_app, binding) and what     *)
(* server/factory.rs reads from the registry, over OpenApiBackend.         *)
(*                                                                         *)
(* The command line owns its registry.  An embedder may go on registering  *)
(* modules while the app is built from the registry it handed over.        *)
(***************************************************************************)
EXTENDS OpenApiBackend

CONSTANTS CommandLines,  \* extensions, flags (a settings mapping), header
          Extensions,    \* what a directory may hold: id |-> kind
          SysIds         \* the ids apcore registers for its system modules

ASSUME StartupAssumption ==
    /\ CommandLines \subseteq [extensions : BOOLEAN, flags : Settings,
                               header : {"none", "good", "malformed"}]
    /\ Extensions \subseteq UNION {[S -> Kind] : S \in SUBSET Legal}
    /\ SysIds \subseteq Legal

VARIABLES
    route,      \* "cli" or "embedder"
    args,       \* the command line
    exit,       \* the exit code once the program has ended, 0 before
    card,       \* the skills of the Agent Card once it is built
    skill_ids   \* the ids message/send accepts

app_vars == <<route, args, exit, card, skill_ids>>
vars == <<registry, at, settings, has_other, doc, modules, todo, faults,
          route, args, exit, card, skill_ids>>

Init ==
    /\ BackendInit
    /\ \/ route = "cli" /\ at = "parse" /\ args \in CommandLines
       \/ route = "embedder" /\ at = "call" /\ args = None
    /\ exit = 0
    /\ card = {}
    /\ skill_ids = {}

by(r) == {i \in DOMAIN registry : registry[i].by = r}

(* registry.list(None, None, None): what is not hidden. *)
listed == {i \in DOMAIN registry : registry[i].kind # "hidden"}

-----------------------------------------------------------------------------
(* The command line.                                                       *)

(* openapi_config_section: None also when no configuration can be read. *)
Section == Sections \cup {None, Malformed}

overlay(flags, section) ==
    [k \in DOMAIN flags \cup DOMAIN section |->
        IF k \in DOMAIN flags THEN flags[k] ELSE section[k]]

(* merge_openapi_settings_with.  A section of the wrong shape is passed on *)
(* as it is, whatever the flags say.                                       *)
merged(flags, section) ==
    IF section = Malformed THEN Malformed
    ELSE LET s == IF section = None THEN flags ELSE overlay(flags, section)
         IN IF names_a_spec(s) THEN s ELSE None

(* A malformed --openapi-header is found by the merge, past a section of   *)
(* the wrong shape, and is reported without a UsageError.                  *)
ParseHeaderFails ==
    /\ at = "parse"
    /\ args.header = "malformed"
    /\ at' = "failed"
    /\ exit' = 1
    /\ UNCHANGED <<registry, settings, has_other, doc, modules, todo, faults,
                   route, args, card, skill_ids>>

(* Mutant: a prefix of white space is a prefix. *)
prefixed_untrimmed(s) == IF s = Malformed THEN TRUE ELSE prefix_of(s) # ""

prefixed(s) == IF s = Malformed THEN TRUE ELSE prefix_of(s) \notin {"", " "}

(* select_source: the two usage errors. *)
usage_error(s) == IF args.extensions THEN s # None /\ ~prefixed(s) ELSE s = None

Select(section) ==
    /\ at = "parse"
    /\ section = Malformed \/ args.header # "malformed"
    /\ settings' = merged(args.flags, section)
    /\ has_other' = args.extensions
    /\ IF usage_error(settings')
       THEN at' = "failed" /\ exit' = 2
       ELSE at' = (IF args.extensions THEN "discover" ELSE "options") /\ UNCHANGED exit
    /\ UNCHANGED <<registry, doc, modules, todo, faults, route, args, card, skill_ids>>

(* discover_extensions into a fresh registry. *)
Discover ==
    /\ at = "discover"
    /\ \E e \in Extensions :
           registry' = [i \in DOMAIN e |-> [by |-> "project", kind |-> e[i]]]
    /\ at' = IF settings = None THEN "check" ELSE "options"
    /\ UNCHANGED <<settings, has_other, doc, modules, todo, faults,
                   route, args, exit, card, skill_ids>>

(* What ends the process with 1: discovery, the build, binding the socket. *)
Fails ==
    /\ route = "cli"
    /\ at \in {"discover", "refused", "bind"}
    /\ at' = "failed"
    /\ exit' = 1
    /\ UNCHANGED <<registry, settings, has_other, doc, modules, todo, faults,
                   route, args, card, skill_ids>>

-----------------------------------------------------------------------------
(* The embedder.                                                           *)

(* build_openapi_backend_from_config on a registry of its own. *)
CallBuild(section, other) ==
    /\ at = "call"
    /\ settings' = section
    /\ has_other' = other
    /\ at' = "options"
    /\ UNCHANGED <<registry, doc, modules, todo, faults, route, args, exit, card, skill_ids>>

(* build_app on a registry of its own. *)
CallApp ==
    /\ route = "embedder"
    /\ at \in {"call", "absent"}
    /\ at' = "check"
    /\ UNCHANGED <<registry, settings, has_other, doc, modules, todo, faults,
                   route, args, exit, card, skill_ids>>

(* Another holder of the registry uses it. *)
RegisterElsewhere(i, k) ==
    /\ route = "embedder"
    /\ i \notin DOMAIN registry
    /\ registry' = with(registry, i, [by |-> "elsewhere", kind |-> k])
    /\ UNCHANGED <<at, settings, has_other, doc, modules, todo, faults,
                   route, args, exit, card, skill_ids>>

-----------------------------------------------------------------------------
(* build_app_with_auth, with the registry resolved.                        *)

(* Mutant: system modules make a registry a backend. *)
CheckSkipped ==
    /\ at = "check"
    /\ at' = "sys"
    /\ UNCHANGED <<registry, settings, has_other, doc, modules, todo, faults,
                   route, args, exit, card, skill_ids>>

Check ==
    /\ at = "check"
    /\ IF listed = {}
       THEN at' = "failed" /\ exit' = IF route = "cli" THEN 1 ELSE exit
       ELSE at' = "sys" /\ UNCHANGED exit
    /\ UNCHANGED <<registry, settings, has_other, doc, modules, todo, faults,
                   route, args, card, skill_ids>>

(* register_sys_modules, when the embedder asks for it.  A failure is      *)
(* logged, whatever was registered before it.                              *)
RegisterSys(S) ==
    /\ at = "sys"
    /\ route = "embedder" \/ S = {}
    /\ registry' = [i \in DOMAIN registry \cup S |->
                        IF i \in DOMAIN registry THEN registry[i]
                        ELSE [by |-> "system", kind |-> "public"]]
    /\ at' = "card"
    /\ UNCHANGED <<settings, has_other, doc, modules, todo, faults,
                   route, args, exit, card, skill_ids>>

(* Mutant: the card is built from all modules, the hidden ones included. *)
BuildCardHidden ==
    /\ at = "card"
    /\ card' = {i \in DOMAIN registry : registry[i].kind # "undescribed"}
    /\ at' = "skills"
    /\ UNCHANGED <<registry, settings, has_other, doc, modules, todo, faults,
                   route, args, exit, skill_ids>>

(* AgentCardBuilder::build: a skill for every listed module with a         *)
(* description.                                                            *)
BuildCard ==
    /\ at = "card"
    /\ card' = {i \in listed : registry[i].kind = "public"}
    /\ at' = "skills"
    /\ UNCHANGED <<registry, settings, has_other, doc, modules, todo, faults,
                   route, args, exit, skill_ids>>

(* A2AServerFactory::create reads the list again, for request validation. *)
ReadSkillIds ==
    /\ at = "skills"
    /\ skill_ids' = listed
    /\ at' = "bind"
    /\ UNCHANGED <<registry, settings, has_other, doc, modules, todo, faults,
                   route, args, exit, card>>

(* The socket is bound and the router served. *)
Serve ==
    /\ at = "bind"
    /\ at' = "serving"
    /\ UNCHANGED <<registry, settings, has_other, doc, modules, todo, faults,
                   route, args, exit, card, skill_ids>>

CommandLine == ParseHeaderFails \/ (\E s \in Section : Select(s)) \/ Discover \/ Fails
Embedder == \/ \E s \in Section, o \in BOOLEAN : CallBuild(s, o)
            \/ CallApp
            \/ \E i \in Legal, k \in Kind : RegisterElsewhere(i, k)
BuildApp == Check \/ (\E S \in SUBSET SysIds : RegisterSys(S)) \/ BuildCard \/ ReadSkillIds \/ Serve

Next ==
    \/ CommandLine
    \/ Embedder
    \/ BackendStep /\ UNCHANGED app_vars
    \/ BuildApp

Spec == Init /\ [][Next]_vars


-----------------------------------------------------------------------------
(* Every variable has its shape; only ids apcore's registry accepts are    *)
(* ever handed to it or registered.                                        *)
TypeOK ==
    /\ DOMAIN registry \subseteq Legal
    /\ \A i \in DOMAIN registry : registry[i] \in Module
    /\ at \in {"parse", "call", "discover", "options", "load", "scan", "preflight",
              "write", "absent", "refused", "check", "sys", "card", "skills", "bind",
              "serving", "failed"}
    /\ settings \in Settings \cup {None, Malformed}
    /\ has_other \in BOOLEAN
    /\ doc \in Documents \cup {None}
    /\ modules \subseteq Legal
    /\ todo \subseteq Legal
    /\ faults \subseteq Legal
    /\ route \in {"cli", "embedder"}
    /\ args \in CommandLines \cup {None}
    /\ at \in {"parse", "discover"} => route = "cli" /\ args \in CommandLines
    /\ exit \in {0, 1, 2}
    /\ card \subseteq Legal
    /\ skill_ids \subseteq Legal

(* A build that is refused leaves the registry it was handed as it was:    *)
(* no module of the document is in it, though collisions, a missing base   *)
(* URL and a bad document are found at different points                    *)
(* ("Nothing was registered", openapi_backend.rs:566).                     *)
RefusedBuildsWriteNothing == at = "refused" => by("document") = {}

(* A build that succeeds has registered every legal operation of the       *)
(* document, but for those whose own registration failed and those whose   *)
(* id another holder took after the preflight; and the card built from it  *)
(* advertises what it registered.  In particular no module of the project, *)
(* hidden or not, has stopped one ("a skill the document advertises,       *)
(* absent from the card", openapi_backend.rs:552).                         *)
BuildsAreComplete ==
    /\ at \in {"check", "sys", "card", "skills", "bind", "serving"}
       => modules \subseteq by("document") \cup by("elsewhere") \cup faults
    /\ at \in {"skills", "bind", "serving"} => by("document") \subseteq card

(* No registered module is replaced or removed by a build, a discovery or  *)
(* the system modules, whoever else fills the registry meanwhile.          *)
NothingReplaced ==
    [][/\ DOMAIN registry \subseteq DOMAIN registry'
       /\ \A i \in DOMAIN registry : registry'[i] = registry[i]]_vars

(* A command line that combines an extensions directory with a document    *)
(* gets as far as the document only with a usable prefix, from the flag or *)
(* from the configuration (FR-OAS-006, "checked FIRST, before any fetch or *)
(* scan", openapi_backend.rs:409).                                         *)
MixedIsPrefixed ==
    route = "cli" /\ args.extensions /\ doc # None
        => prefix_of(settings) \notin {"", " "}

(* Every skill of the card is one message/send accepts, although the card  *)
(* and the list of ids are read from the registry at two moments.          *)
AdvertisedIsCallable == at \in {"bind", "serving"} => card \subseteq skill_ids

(* A server never comes up on an empty registry: something besides apcore's*)
(* own system modules can be called.                                       *)
ServesBackend ==
    at = "serving" => \E i \in skill_ids : registry[i].by # "system"

====================================================================================
