------------------------------- MODULE StartupProofs -------------------------------
(***************************************************************************)
(* Theorems about Startup and OpenApiBackend, for any documents, command   *)
(* lines, configurations, extensions directories and module ids.           *)
(***************************************************************************)
EXTENDS Startup, TLAPS

(* Where the start-up stands before, at and after the registrations.       *)
Before == {"parse", "call", "discover", "options", "load", "scan", "preflight",
           "absent", "refused"}
Built == {"check", "sys", "card", "skills", "bind", "serving"}
NoModules == {"parse", "call", "discover", "options", "load", "scan", "absent"}

(* A merged mapping has the keys of both, each with a value of one.        *)
LEMMA OverlayType ==
    ASSUME NEW f \in Settings, NEW g \in Settings
    PROVE  overlay(f, g) \in Settings
<1> DEFINE V == {"", " ", "api", "url", "inline", "host"}
           Keys == {"spec", "prefix", "base_url"}
<1>1. PICK K \in SUBSET Keys : f \in [K -> V]
  BY DEF Settings
<1>2. PICK M \in SUBSET Keys : g \in [M -> V]
  BY DEF Settings
<1>3. DOMAIN f = K /\ DOMAIN g = M
  BY <1>1, <1>2
<1>4. \A k \in K \cup M : (IF k \in K THEN f[k] ELSE g[k]) \in V
  BY <1>1, <1>2
<1>5. overlay(f, g) \in [K \cup M -> V]
  BY <1>3, <1>4 DEF overlay
<1>6. K \cup M \in SUBSET Keys
  BY <1>1, <1>2
<1> QED BY <1>5, <1>6 DEF Settings

(* What the merge makes of flags and a section is a mapping, Malformed or  *)
(* None.                                                                   *)
LEMMA MergedType ==
    ASSUME NEW f \in Settings, NEW s \in Section
    PROVE  merged(f, s) \in Settings \cup {None, Malformed}
<1>1. s = Malformed \/ s = None \/ s \in Settings
  BY BackendAssumption DEF Section
<1>2. CASE s = Malformed
  BY <1>2 DEF merged
<1>3. CASE s # Malformed /\ s = None
  BY <1>3 DEF merged
<1>4. CASE s # Malformed /\ s # None
  <2>1. overlay(f, s) \in Settings
    BY <1>1, <1>4, OverlayType
  <2> QED BY <1>4, <2>1 DEF merged
<1> QED BY <1>2, <1>3, <1>4

(* Everything starts well typed.                                           *)
LEMMA TypeInit == Init => TypeOK
  BY DEF Init, BackendInit, TypeOK

(* No step breaks the types.                                               *)
LEMMA TypeNext == TypeOK /\ [Next]_vars => TypeOK'
<1> SUFFICES ASSUME TypeOK, [Next]_vars PROVE TypeOK'
  OBVIOUS
<1>1. ASSUME Absent, UNCHANGED app_vars PROVE TypeOK'
  BY <1>1 DEF Absent, app_vars, TypeOK, Module, Kind, listed
<1>2. ASSUME Accept, UNCHANGED app_vars PROVE TypeOK'
  BY <1>2 DEF Accept, app_vars, TypeOK, Module, Kind, listed
<1>3. ASSUME Load, UNCHANGED app_vars PROVE TypeOK'
  BY <1>3 DEF Load, app_vars, TypeOK, Module, Kind, listed
<1>4. ASSUME LoadFails, UNCHANGED app_vars PROVE TypeOK'
  BY <1>4 DEF LoadFails, app_vars, TypeOK, Module, Kind, listed
<1>5. ASSUME Scan, UNCHANGED app_vars PROVE TypeOK'
  <2>1. registrable({Derived[prefix_of(settings)][o] : o \in doc.ops}) \subseteq Legal
    BY DEF registrable
  <2>2. modules' \subseteq Legal
    BY <1>5, <2>1 DEF Scan, TypeOK
  <2>3. at' \in {"preflight", "refused"}
    BY <1>5 DEF Scan
  <2> QED BY <1>5, <2>2, <2>3 DEF Scan, TypeOK, app_vars
<1>6. ASSUME Preflight, UNCHANGED app_vars PROVE TypeOK'
  BY <1>6 DEF Preflight, app_vars, TypeOK, Module, Kind, listed
<1>7. ASSUME NEW i \in Ids, Write(i), UNCHANGED app_vars PROVE TypeOK'
  BY <1>7 DEF Write, with, app_vars, TypeOK, Module, Kind, listed
<1>8. ASSUME NEW i \in Ids, WriteFails(i), UNCHANGED app_vars PROVE TypeOK'
  BY <1>8 DEF WriteFails, app_vars, TypeOK, Module, Kind, listed
<1>9. ASSUME Written, UNCHANGED app_vars PROVE TypeOK'
  BY <1>9 DEF Written, app_vars, TypeOK, Module, Kind, listed
<1>10. CASE ParseHeaderFails
  BY <1>10 DEF ParseHeaderFails, TypeOK, Module, Kind, listed
<1>11. ASSUME NEW s \in Section, Select(s) PROVE TypeOK'
  <2>1. args \in CommandLines /\ args.flags \in Settings
    BY <1>11, StartupAssumption DEF Select, TypeOK
  <2>2. settings' \in Settings \cup {None, Malformed}
    BY <1>11, <2>1, MergedType DEF Select
  <2>3. has_other' \in BOOLEAN
    BY <1>11, <2>1, StartupAssumption DEF Select
  <2> QED BY <1>11, <2>2, <2>3 DEF Select, TypeOK
<1>12. CASE Discover
  <2>1. PICK e \in Extensions :
            registry' = [i \in DOMAIN e |-> [by |-> "project", kind |-> e[i]]]
    BY <1>12 DEF Discover
  <2>2. PICK D \in SUBSET Legal : e \in [D -> Kind]
    BY StartupAssumption
  <2>3. \A i \in D : e[i] \in Kind
    BY <2>2
  <2>4. /\ DOMAIN registry' = D
        /\ \A i \in D : registry'[i] = [by |-> "project", kind |-> e[i]]
    BY <2>1, <2>2
  <2>5. \A i \in DOMAIN registry' : registry'[i] \in Module
    BY <2>3, <2>4 DEF Module
  <2>6. at' \in {"check", "options"}
    BY <1>12 DEF Discover
  <2> QED BY <1>12, <2>4, <2>5, <2>6 DEF Discover, TypeOK
<1>13. CASE Fails
  BY <1>13 DEF Fails, TypeOK, Module, Kind, listed
<1>14. ASSUME NEW s \in Section, NEW o \in BOOLEAN, CallBuild(s, o) PROVE TypeOK'
  <2>1. settings' \in Settings \cup {None, Malformed}
    BY <1>14, BackendAssumption DEF CallBuild, Section
  <2> QED BY <1>14, <2>1 DEF CallBuild, TypeOK
<1>15. CASE CallApp
  BY <1>15 DEF CallApp, TypeOK, Module, Kind, listed
<1>16. ASSUME NEW i \in Legal, NEW k \in Kind, RegisterElsewhere(i, k) PROVE TypeOK'
  BY <1>16 DEF RegisterElsewhere, with, TypeOK, Module, Kind, listed
<1>17. CASE Check
  BY <1>17 DEF Check, TypeOK, Module, Kind, listed
<1>18. ASSUME NEW S \in SUBSET SysIds, RegisterSys(S) PROVE TypeOK'
  <2>1. S \subseteq Legal
    BY StartupAssumption
  <2>2. \A i \in DOMAIN registry' : registry'[i] \in Module
    BY <1>18 DEF RegisterSys, TypeOK, Module, Kind
  <2>3. DOMAIN registry' \subseteq Legal
    BY <1>18, <2>1 DEF RegisterSys, TypeOK
  <2> QED BY <1>18, <2>2, <2>3 DEF RegisterSys, TypeOK
<1>19. CASE BuildCard
  BY <1>19 DEF BuildCard, TypeOK, Module, Kind, listed
<1>20. CASE ReadSkillIds
  BY <1>20 DEF ReadSkillIds, TypeOK, Module, Kind, listed
<1>21. CASE Serve
  BY <1>21 DEF Serve, TypeOK, Module, Kind, listed
<1>22. CASE UNCHANGED vars
  BY <1>22 DEF vars, TypeOK, Module, Kind, listed
<1> QED
  BY <1>1, <1>2, <1>3, <1>4, <1>5, <1>6, <1>7, <1>8, <1>9, <1>10, <1>11, <1>12, <1>13, <1>14, <1>15, <1>16, <1>17, <1>18, <1>19, <1>20, <1>21, <1>22
  DEF Next, CommandLine, Embedder, BackendStep, BuildApp

(* The type invariant, of every behaviour.                                 *)
THEOREM TypeCorrect == Spec => []TypeOK
<1> QED BY TypeInit, TypeNext, PTL DEF Spec

-----------------------------------------------------------------------------
(* What the registry holds of the document at each point of the build.     *)
BuildInv ==
    /\ at \in Before => by("document") = {}
    /\ at \in NoModules => modules = {}
    /\ at \in {"parse", "discover"} => DOMAIN registry = {}
    /\ at = "write" =>
          \A i \in modules :
              IF i \in todo THEN i \in DOMAIN registry => i \in by("elsewhere")
              ELSE i \in by("document") \cup by("elsewhere") \cup faults
    /\ at \in Built => modules \subseteq by("document") \cup by("elsewhere") \cup faults
    /\ \A i \in by("document") : registry[i].kind = "public"
    /\ at \in {"skills", "bind", "serving"} => by("document") \subseteq card

(* Nothing is registered and nothing scanned at the start.                 *)
LEMMA BuildInit == Init => BuildInv
  BY DEF Init, BackendInit, BuildInv, by, Before, Built, NoModules

(* Only Write registers modules of the document, for ids that were scanned *)
(* and were free at the preflight.                                         *)
LEMMA BuildNext == TypeOK /\ BuildInv /\ [Next]_vars => BuildInv'
<1> SUFFICES ASSUME TypeOK, BuildInv, [Next]_vars PROVE BuildInv'
  OBVIOUS
<1> USE DEF Before, Built, NoModules
<1>1. ASSUME Absent, UNCHANGED app_vars PROVE BuildInv'
  BY <1>1 DEF Absent, app_vars, BuildInv, by, TypeOK
<1>2. ASSUME Accept, UNCHANGED app_vars PROVE BuildInv'
  BY <1>2 DEF Accept, app_vars, BuildInv, by, TypeOK
<1>3. ASSUME Load, UNCHANGED app_vars PROVE BuildInv'
  BY <1>3 DEF Load, app_vars, BuildInv, by, TypeOK
<1>4. ASSUME LoadFails, UNCHANGED app_vars PROVE BuildInv'
  BY <1>4 DEF LoadFails, app_vars, BuildInv, by, TypeOK
<1>5. ASSUME Scan, UNCHANGED app_vars PROVE BuildInv'
  BY <1>5 DEF Scan, app_vars, BuildInv, by, TypeOK
<1>6. ASSUME Preflight, UNCHANGED app_vars PROVE BuildInv'
  BY <1>6 DEF Preflight, existing, app_vars, BuildInv, by, TypeOK
<1>7. ASSUME NEW i \in Ids, Write(i), UNCHANGED app_vars PROVE BuildInv'
  BY <1>7 DEF Write, with, app_vars, BuildInv, by, TypeOK
<1>8. ASSUME NEW i \in Ids, WriteFails(i), UNCHANGED app_vars PROVE BuildInv'
  BY <1>8 DEF WriteFails, app_vars, BuildInv, by, TypeOK
<1>9. ASSUME Written, UNCHANGED app_vars PROVE BuildInv'
  BY <1>9 DEF Written, app_vars, BuildInv, by, TypeOK
<1>10. CASE ParseHeaderFails
  BY <1>10 DEF ParseHeaderFails, BuildInv, by, TypeOK
<1>11. ASSUME NEW s \in Section, Select(s) PROVE BuildInv'
  BY <1>11 DEF Select, BuildInv, by, TypeOK
<1>12. CASE Discover
  BY <1>12 DEF Discover, BuildInv, by, TypeOK
<1>13. CASE Fails
  BY <1>13 DEF Fails, BuildInv, by, TypeOK
<1>14. ASSUME NEW s \in Section, NEW o \in BOOLEAN, CallBuild(s, o) PROVE BuildInv'
  BY <1>14 DEF CallBuild, BuildInv, by, TypeOK
<1>15. CASE CallApp
  BY <1>15 DEF CallApp, BuildInv, by, TypeOK
<1>16. ASSUME NEW i \in Legal, NEW k \in Kind, RegisterElsewhere(i, k) PROVE BuildInv'
  <2>1. by("document")' = by("document") /\ by("elsewhere") \subseteq by("elsewhere")'
    BY <1>16 DEF RegisterElsewhere, with, by
  <2>2. \A j \in by("document") : registry'[j] = registry[j]
    BY <1>16 DEF RegisterElsewhere, with, by
  <2>3. i \in by("elsewhere")' /\ DOMAIN registry' = DOMAIN registry \cup {i}
    BY <1>16 DEF RegisterElsewhere, with, by
  <2>4. ~(at \in {"parse", "discover"})
    BY <1>16 DEF RegisterElsewhere, TypeOK
  <2> QED BY <1>16, <2>1, <2>2, <2>3, <2>4 DEF RegisterElsewhere, BuildInv
<1>17. CASE Check
  BY <1>17 DEF Check, BuildInv, by, TypeOK
<1>18. ASSUME NEW S \in SUBSET SysIds, RegisterSys(S) PROVE BuildInv'
  <2>1. by("document")' = by("document") /\ by("elsewhere")' = by("elsewhere")
    BY <1>18 DEF RegisterSys, by
  <2>2. \A j \in by("document") : registry'[j] = registry[j]
    BY <1>18 DEF RegisterSys, by
  <2> QED BY <1>18, <2>1, <2>2 DEF RegisterSys, BuildInv
<1>19. CASE BuildCard
  BY <1>19 DEF BuildCard, listed, BuildInv, by, TypeOK
<1>20. CASE ReadSkillIds
  BY <1>20 DEF ReadSkillIds, BuildInv, by, TypeOK
<1>21. CASE Serve
  BY <1>21 DEF Serve, BuildInv, by, TypeOK
<1>22. CASE UNCHANGED vars
  BY <1>22 DEF vars, BuildInv, by, TypeOK
<1> QED
  BY <1>1, <1>2, <1>3, <1>4, <1>5, <1>6, <1>7, <1>8, <1>9, <1>10, <1>11, <1>12, <1>13, <1>14, <1>15, <1>16, <1>17, <1>18, <1>19, <1>20, <1>21, <1>22
  DEF Next, CommandLine, Embedder, BackendStep, BuildApp

(* A refused build leaves no module of the document in the registry.       *)
THEOREM RefusalsWriteNothing == Spec => []RefusedBuildsWriteNothing
<1>1. BuildInv => RefusedBuildsWriteNothing
  BY DEF BuildInv, RefusedBuildsWriteNothing, Before
<1> QED BY <1>1, TypeInit, TypeNext, BuildInit, BuildNext, PTL DEF Spec

(* A build that succeeds has registered and advertised the document.       *)
THEOREM SuccessIsComplete == Spec => []BuildsAreComplete
<1>1. BuildInv => BuildsAreComplete
  BY DEF BuildInv, BuildsAreComplete, Built
<1> QED BY <1>1, TypeInit, TypeNext, BuildInit, BuildNext, PTL DEF Spec

(* Whoever registers, what is registered stays as it was.                  *)
LEMMA ReplacesNothing ==
    TypeOK /\ BuildInv /\ [Next]_vars =>
        /\ DOMAIN registry \subseteq DOMAIN registry'
        /\ \A i \in DOMAIN registry : registry'[i] = registry[i]
<1> DEFINE Kept == /\ DOMAIN registry \subseteq DOMAIN registry'
                   /\ \A i \in DOMAIN registry : registry'[i] = registry[i]
<1> SUFFICES ASSUME TypeOK, BuildInv, [Next]_vars PROVE Kept
  OBVIOUS
<1>1. ASSUME Absent, UNCHANGED app_vars PROVE Kept
  BY <1>1 DEF Absent, app_vars, app_vars
<1>2. ASSUME Accept, UNCHANGED app_vars PROVE Kept
  BY <1>2 DEF Accept, app_vars, app_vars
<1>3. ASSUME Load, UNCHANGED app_vars PROVE Kept
  BY <1>3 DEF Load, app_vars, app_vars
<1>4. ASSUME LoadFails, UNCHANGED app_vars PROVE Kept
  BY <1>4 DEF LoadFails, app_vars, app_vars
<1>5. ASSUME Scan, UNCHANGED app_vars PROVE Kept
  BY <1>5 DEF Scan, app_vars, app_vars
<1>6. ASSUME Preflight, UNCHANGED app_vars PROVE Kept
  BY <1>6 DEF Preflight, app_vars, app_vars
<1>7. ASSUME NEW i \in Ids, Write(i), UNCHANGED app_vars PROVE Kept
  BY <1>7 DEF Write, with, app_vars, app_vars
<1>8. ASSUME NEW i \in Ids, WriteFails(i), UNCHANGED app_vars PROVE Kept
  BY <1>8 DEF WriteFails, app_vars, app_vars
<1>9. ASSUME Written, UNCHANGED app_vars PROVE Kept
  BY <1>9 DEF Written, app_vars, app_vars
<1>10. CASE ParseHeaderFails
  BY <1>10 DEF ParseHeaderFails, app_vars
<1>11. ASSUME NEW s \in Section, Select(s) PROVE Kept
  BY <1>11 DEF Select, app_vars
<1>12. CASE Discover
  BY <1>12 DEF Discover, BuildInv
<1>13. CASE Fails
  BY <1>13 DEF Fails, app_vars
<1>14. ASSUME NEW s \in Section, NEW o \in BOOLEAN, CallBuild(s, o) PROVE Kept
  BY <1>14 DEF CallBuild, app_vars
<1>15. CASE CallApp
  BY <1>15 DEF CallApp, app_vars
<1>16. ASSUME NEW i \in Legal, NEW k \in Kind, RegisterElsewhere(i, k) PROVE Kept
  BY <1>16 DEF RegisterElsewhere, with, app_vars
<1>17. CASE Check
  BY <1>17 DEF Check, app_vars
<1>18. ASSUME NEW S \in SUBSET SysIds, RegisterSys(S) PROVE Kept
  BY <1>18 DEF RegisterSys, app_vars
<1>19. CASE BuildCard
  BY <1>19 DEF BuildCard, app_vars
<1>20. CASE ReadSkillIds
  BY <1>20 DEF ReadSkillIds, app_vars
<1>21. CASE Serve
  BY <1>21 DEF Serve, app_vars
<1>22. CASE UNCHANGED vars
  BY <1>22 DEF vars, app_vars
<1> QED
  BY <1>1, <1>2, <1>3, <1>4, <1>5, <1>6, <1>7, <1>8, <1>9, <1>10, <1>11, <1>12, <1>13, <1>14, <1>15, <1>16, <1>17, <1>18, <1>19, <1>20, <1>21, <1>22
  DEF Next, CommandLine, Embedder, BackendStep, BuildApp

(* No module is ever replaced or removed.                                  *)
THEOREM ModulesSurvive == Spec => NothingReplaced
<1>1. TypeOK /\ BuildInv /\ [Next]_vars =>
          [/\ DOMAIN registry \subseteq DOMAIN registry'
           /\ \A i \in DOMAIN registry : registry'[i] = registry[i]]_vars
  BY ReplacesNothing
<1> QED
  BY <1>1, TypeInit, TypeNext, BuildInit, BuildNext, PTL DEF Spec, NothingReplaced

-----------------------------------------------------------------------------
(* Past the choice of sources a mixed command line has a prefix; the       *)
(* document is only loaded for settings that were accepted.                *)
MixedInv ==
    /\ route = "cli" /\ args.extensions /\ at \notin {"parse", "failed"}
       => settings = None \/ prefixed(settings)
    /\ at \in {"parse", "discover", "call", "options"} => doc = None
    /\ at = "load" => settings \notin {None, Malformed}
    /\ at = "call" => route = "embedder"
    /\ MixedIsPrefixed

(* At the start there is no document.                                      *)
LEMMA MixedInit == Init => MixedInv
  BY DEF Init, BackendInit, MixedInv, MixedIsPrefixed

(* Settings change with the choice of sources only, before any document.   *)
LEMMA MixedNext == TypeOK /\ MixedInv /\ [Next]_vars => MixedInv'
<1> SUFFICES ASSUME TypeOK, MixedInv, [Next]_vars PROVE MixedInv'
  OBVIOUS
<1>1. ASSUME Absent, UNCHANGED app_vars PROVE MixedInv'
  BY <1>1 DEF Absent, app_vars, MixedInv, MixedIsPrefixed, prefixed, prefix_of, get
<1>2. ASSUME Accept, UNCHANGED app_vars PROVE MixedInv'
  BY <1>2 DEF Accept, accepted, app_vars, MixedInv, MixedIsPrefixed
<1>3. ASSUME Load, UNCHANGED app_vars PROVE MixedInv'
  BY <1>3 DEF Load, app_vars, MixedInv, MixedIsPrefixed, prefixed, prefix_of, get
<1>4. ASSUME LoadFails, UNCHANGED app_vars PROVE MixedInv'
  BY <1>4 DEF LoadFails, app_vars, MixedInv, MixedIsPrefixed, prefixed, prefix_of, get
<1>5. ASSUME Scan, UNCHANGED app_vars PROVE MixedInv'
  BY <1>5 DEF Scan, app_vars, MixedInv, MixedIsPrefixed, prefixed, prefix_of, get
<1>6. ASSUME Preflight, UNCHANGED app_vars PROVE MixedInv'
  BY <1>6 DEF Preflight, app_vars, MixedInv, MixedIsPrefixed, prefixed, prefix_of, get
<1>7. ASSUME NEW i \in Ids, Write(i), UNCHANGED app_vars PROVE MixedInv'
  BY <1>7 DEF Write, with, app_vars, MixedInv, MixedIsPrefixed, prefixed, prefix_of, get
<1>8. ASSUME NEW i \in Ids, WriteFails(i), UNCHANGED app_vars PROVE MixedInv'
  BY <1>8 DEF WriteFails, app_vars, MixedInv, MixedIsPrefixed, prefixed, prefix_of, get
<1>9. ASSUME Written, UNCHANGED app_vars PROVE MixedInv'
  BY <1>9 DEF Written, app_vars, MixedInv, MixedIsPrefixed, prefixed, prefix_of, get
<1>10. CASE ParseHeaderFails
  BY <1>10 DEF ParseHeaderFails, MixedInv, MixedIsPrefixed, prefixed, prefix_of, get
<1>11. ASSUME NEW s \in Section, Select(s) PROVE MixedInv'
  <2>1. doc = None /\ doc' = None /\ at' \in {"failed", "discover", "options"}
    BY <1>11 DEF Select, MixedInv
  <2>2. args' = args /\ route' = route
    BY <1>11 DEF Select
  <2>3. at' # "failed" => ~usage_error(settings')
    BY <1>11 DEF Select
  <2>4. ~usage_error(settings') /\ args.extensions => settings' = None \/ prefixed(settings')
    BY DEF usage_error
  <2>5. prefixed(settings)' <=> prefixed(settings')
    BY DEF prefixed, prefix_of, get
  <2> QED BY <2>1, <2>2, <2>3, <2>4, <2>5 DEF MixedInv, MixedIsPrefixed
<1>12. CASE Discover
  BY <1>12 DEF Discover, MixedInv, MixedIsPrefixed, prefixed, prefix_of, get
<1>13. CASE Fails
  BY <1>13 DEF Fails, MixedInv, MixedIsPrefixed, prefixed, prefix_of, get
<1>14. ASSUME NEW s \in Section, NEW o \in BOOLEAN, CallBuild(s, o) PROVE MixedInv'
  BY <1>14 DEF CallBuild, MixedInv, MixedIsPrefixed, prefixed, prefix_of, get
<1>15. CASE CallApp
  BY <1>15 DEF CallApp, MixedInv, MixedIsPrefixed, prefixed, prefix_of, get
<1>16. ASSUME NEW i \in Legal, NEW k \in Kind, RegisterElsewhere(i, k) PROVE MixedInv'
  BY <1>16 DEF RegisterElsewhere, with, MixedInv, MixedIsPrefixed, prefixed, prefix_of, get
<1>17. CASE Check
  BY <1>17 DEF Check, MixedInv, MixedIsPrefixed, prefixed, prefix_of, get
<1>18. ASSUME NEW S \in SUBSET SysIds, RegisterSys(S) PROVE MixedInv'
  BY <1>18 DEF RegisterSys, MixedInv, MixedIsPrefixed, prefixed, prefix_of, get
<1>19. CASE BuildCard
  BY <1>19 DEF BuildCard, MixedInv, MixedIsPrefixed, prefixed, prefix_of, get
<1>20. CASE ReadSkillIds
  BY <1>20 DEF ReadSkillIds, MixedInv, MixedIsPrefixed, prefixed, prefix_of, get
<1>21. CASE Serve
  BY <1>21 DEF Serve, MixedInv, MixedIsPrefixed, prefixed, prefix_of, get
<1>22. CASE UNCHANGED vars
  BY <1>22 DEF vars, MixedInv, MixedIsPrefixed, prefixed, prefix_of, get
<1> QED
  BY <1>1, <1>2, <1>3, <1>4, <1>5, <1>6, <1>7, <1>8, <1>9, <1>10, <1>11, <1>12, <1>13, <1>14, <1>15, <1>16, <1>17, <1>18, <1>19, <1>20, <1>21, <1>22
  DEF Next, CommandLine, Embedder, BackendStep, BuildApp

(* No mixed command line reaches its document without a prefix.            *)
THEOREM MixedNeedsPrefix == Spec => []MixedIsPrefixed
<1>1. MixedInv => MixedIsPrefixed
  BY DEF MixedInv
<1> QED BY <1>1, TypeInit, TypeNext, MixedInit, MixedNext, PTL DEF Spec

-----------------------------------------------------------------------------
(* The card's skills stay listed until the ids are read; a module of the   *)
(* backend's own is there from the check on.                               *)
CardInv ==
    /\ at = "skills" => card \subseteq listed
    /\ at \in {"bind", "serving"} => card \subseteq skill_ids
    /\ at \in {"sys", "card", "skills"} => \E i \in listed : registry[i].by # "system"
    /\ at \in {"bind", "serving"} =>
          \E i \in skill_ids : i \in DOMAIN registry /\ registry[i].by # "system"
    /\ at \in {"parse", "discover", "call", "options", "absent", "load", "scan",
               "preflight", "write", "check"} => \A i \in DOMAIN registry : registry[i].by # "system"

(* No card is built and nothing registered at the start.                   *)
LEMMA CardInit == Init => CardInv
  BY DEF Init, BackendInit, CardInv

(* Between the check and the two readings modules are only added.          *)
LEMMA CardNext == TypeOK /\ BuildInv /\ CardInv /\ [Next]_vars => CardInv'
<1> SUFFICES ASSUME TypeOK, BuildInv, CardInv, [Next]_vars PROVE CardInv'
  OBVIOUS
<1> DEFINE Kept == /\ DOMAIN registry \subseteq DOMAIN registry'
                   /\ \A i \in DOMAIN registry : registry'[i] = registry[i]
<1>0. Kept
  BY ReplacesNothing
<1>1. ASSUME Absent, UNCHANGED app_vars PROVE CardInv'
  BY <1>1, <1>0 DEF Absent, app_vars, CardInv, listed
<1>2. ASSUME Accept, UNCHANGED app_vars PROVE CardInv'
  BY <1>2, <1>0 DEF Accept, app_vars, CardInv, listed
<1>3. ASSUME Load, UNCHANGED app_vars PROVE CardInv'
  BY <1>3, <1>0 DEF Load, app_vars, CardInv, listed
<1>4. ASSUME LoadFails, UNCHANGED app_vars PROVE CardInv'
  BY <1>4, <1>0 DEF LoadFails, app_vars, CardInv, listed
<1>5. ASSUME Scan, UNCHANGED app_vars PROVE CardInv'
  BY <1>5, <1>0 DEF Scan, app_vars, CardInv, listed
<1>6. ASSUME Preflight, UNCHANGED app_vars PROVE CardInv'
  BY <1>6, <1>0 DEF Preflight, app_vars, CardInv, listed
<1>7. ASSUME NEW i \in Ids, Write(i), UNCHANGED app_vars PROVE CardInv'
  BY <1>7, <1>0 DEF Write, with, app_vars, CardInv, listed
<1>8. ASSUME NEW i \in Ids, WriteFails(i), UNCHANGED app_vars PROVE CardInv'
  BY <1>8, <1>0 DEF WriteFails, app_vars, CardInv, listed
<1>9. ASSUME Written, UNCHANGED app_vars PROVE CardInv'
  BY <1>9, <1>0 DEF Written, app_vars, CardInv, listed
<1>10. CASE ParseHeaderFails
  BY <1>10, <1>0 DEF ParseHeaderFails, CardInv, listed
<1>11. ASSUME NEW s \in Section, Select(s) PROVE CardInv'
  BY <1>11, <1>0 DEF Select, CardInv, listed
<1>12. CASE Discover
  BY <1>12, <1>0 DEF Discover, CardInv, listed
<1>13. CASE Fails
  BY <1>13, <1>0 DEF Fails, CardInv, listed
<1>14. ASSUME NEW s \in Section, NEW o \in BOOLEAN, CallBuild(s, o) PROVE CardInv'
  BY <1>14, <1>0 DEF CallBuild, CardInv, listed
<1>15. CASE CallApp
  BY <1>15, <1>0 DEF CallApp, CardInv, listed
<1>16. ASSUME NEW i \in Legal, NEW k \in Kind, RegisterElsewhere(i, k) PROVE CardInv'
  BY <1>16, <1>0 DEF RegisterElsewhere, with, CardInv, listed
<1>17. CASE Check
  BY <1>17, <1>0 DEF Check, CardInv, listed
<1>18. ASSUME NEW S \in SUBSET SysIds, RegisterSys(S) PROVE CardInv'
  BY <1>18, <1>0 DEF RegisterSys, CardInv, listed
<1>19. CASE BuildCard
  BY <1>19, <1>0 DEF BuildCard, CardInv, listed
<1>20. CASE ReadSkillIds
  BY <1>20, <1>0 DEF ReadSkillIds, CardInv, listed
<1>21. CASE Serve
  BY <1>21, <1>0 DEF Serve, CardInv, listed
<1>22. CASE UNCHANGED vars
  BY <1>22, <1>0 DEF vars, CardInv, listed
<1> QED
  BY <1>1, <1>2, <1>3, <1>4, <1>5, <1>6, <1>7, <1>8, <1>9, <1>10, <1>11, <1>12, <1>13, <1>14, <1>15, <1>16, <1>17, <1>18, <1>19, <1>20, <1>21, <1>22
  DEF Next, CommandLine, Embedder, BackendStep, BuildApp

(* Every skill of the card can be called.                                  *)
THEOREM AdvertisedCallable == Spec => []AdvertisedIsCallable
<1>1. CardInv => AdvertisedIsCallable
  BY DEF CardInv, AdvertisedIsCallable
<1> QED
  BY <1>1, TypeInit, TypeNext, BuildInit, BuildNext, CardInit, CardNext, PTL DEF Spec

(* A server that comes up serves something besides the system modules.     *)
THEOREM ServesSomething == Spec => []ServesBackend
<1>1. CardInv => ServesBackend
  BY DEF CardInv, ServesBackend
<1> QED
  BY <1>1, TypeInit, TypeNext, BuildInit, BuildNext, CardInit, CardNext, PTL DEF Spec
====================================================================================
