------------------------------ MODULE Settings ------------------------------
(***************************************************************************)
(* How a run gets its settings.  The flags of the eight commands share     *)
(* global variables, so the command registered last gives them their       *)
(* initial values; then the flags of the command line or the form write    *)
(* to them, and what is collected is decided from them, from the defaults  *)
(* of the mode and from the list that limits the standard mode.  After a   *)
(* run of the form, the command that the form printed can be run too.      *)
(* A choice is on or off; a number of days stands for all of them.         *)
(***************************************************************************)
EXTENDS Naturals

CONSTANT MaxChoices   \* how many choices a user changes at most

VARIABLES
  mode, connection,
  withForm,   \* whether this run asks its settings with the form
  given,      \* the flags of the command line, and their values
  chosen,     \* what is on when the form is left
  global,     \* the global variables that are on, or its days
  effect,     \* what the run collects, and its days
  before,     \* what the run of the form collected
  phase

choiceVars == <<mode, connection, given, chosen>>
stVars == <<choiceVars, withForm, global, effect, before, phase>>

Modes == {"standard", "diagnosis"}
Transports == {"ssh", "k8s", "local", "local-k8s"}
OptIns == {"jfr", "kvstore"}   \* and the other tools and API collections
Nothing == [on |-> {}, days |-> 0]

-----------------------------------------------------------------------------
(***************************************************************************)
(* defaults.go                                                             *)
(***************************************************************************)
StandardCollectionProfile ==
  [on |-> {"server", "tracker", "vacuum", "queries", "queries_perf", "wlm"},
   days |-> 30]
DiagnosisCollectionProfile ==
  [on |-> StandardCollectionProfile.on \cup
          {"meta_refresh", "reflection", "acceleration", "access", "hs_err", "hive", "gc"},
   days |-> 3]
Profile(m) == IF m = "diagnosis" THEN DiagnosisCollectionProfile
              ELSE StandardCollectionProfile

\* The flags that the commands of a mode have; the reflection log has none.
Flags(m, t) ==
       StandardCollectionProfile.on \cup {"meta_refresh"}
  \cup (IF m = "diagnosis" THEN (DiagnosisCollectionProfile.on \ {"reflection"}) \cup OptIns
         ELSE {})
  \cup (IF t = "k8s" THEN {"container"} ELSE {})
  \cup (IF t = "ssh" THEN {"sudo_user"} ELSE {})

-----------------------------------------------------------------------------
\* init() registers the standard commands and then those of the diagnosis;
\* --days is a flag of the latter and --queries-perf-num-days of the former.
Registered ==
  [on |-> DiagnosisCollectionProfile.on \ {"reflection"},
   daysFlag |-> DiagnosisCollectionProfile.days,
   perfDays |-> StandardCollectionProfile.days]

\* At most MaxChoices elements of a set.
SomeOf(S) == {{}} \cup {{p[i] : i \in 1..MaxChoices} : p \in [1..MaxChoices -> S]}
GivenFlags(m, t) == UNION {[F -> BOOLEAN] : F \in SomeOf(Flags(m, t))}

STInit ==
  /\ mode \in Modes
  /\ connection \in Transports
  /\ withForm \in BOOLEAN
  /\ given \in IF withForm THEN {<<>>} ELSE GivenFlags(mode, connection)
  /\ chosen = {}
  /\ global = Registered
  /\ effect = Nothing
  /\ before = Nothing
  /\ phase = "parse"

On(f) == {i \in DOMAIN f : f[i]}

Parse ==
  /\ phase = "parse"
  /\ global' = [global EXCEPT !.on = (@ \ DOMAIN given) \cup On(given)]
  /\ phase' = IF withForm THEN "form" ELSE "resolve"
  /\ UNCHANGED <<choiceVars, withForm, effect, before>>

-----------------------------------------------------------------------------
(***************************************************************************)
(* The form.  Only the one of the k8s transport has the container logs,    *)
(* on by default in the diagnosis; the sudo user is asked before it.       *)
(***************************************************************************)
Asked == (IF connection = "k8s" THEN {"container"} ELSE {})
           \cup (IF connection = "ssh" THEN {"sudo_user"} ELSE {})
StandardOptions == StandardCollectionProfile.on \cup {"meta_refresh"} \cup Asked
DiagnosisOptions == (DiagnosisCollectionProfile.on \ {"reflection"}) \cup OptIns \cup Asked

StandardFormDefaults == StandardCollectionProfile.on
DiagnosisFormDefaults == DiagnosisOptions \ (OptIns \cup {"sudo_user"})

\* What is copied from a form to the global variables: the choice of the
\* queries.json is not when the form is the one of the diagnosis.
StandardApplied == StandardOptions \cup {"container"}
DiagnosisApplied == (DiagnosisOptions \cup {"container"}) \ {"queries"}

SubmitForm(options, defaults, applied) ==
  /\ phase = "form"
  /\ \E changed \in SomeOf(options) :
       chosen' = (defaults \ changed) \cup (changed \ defaults)
  /\ global' = [global EXCEPT !.on = (@ \ applied) \cup (chosen' \cap applied)]
  /\ phase' = "resolve"
  /\ UNCHANGED <<mode, connection, given, withForm, effect, before>>

RunStandardConfigScreen ==
  /\ mode = "standard"
  /\ SubmitForm(StandardOptions, StandardFormDefaults, StandardApplied)

RunDiagnosisConfigScreen ==
  /\ mode = "diagnosis"
  /\ SubmitForm(DiagnosisOptions, DiagnosisFormDefaults, DiagnosisApplied)

\* appendTransportAndPathFlags does not have the sudo user.
BuildStandardCLICommand == [i \in StandardOptions \ {"sudo_user"} |-> i \in chosen]
BuildDiagnosisCLICommand == [i \in DiagnosisOptions \ {"sudo_user"} |-> i \in chosen]
GeneratedCommand == IF mode = "diagnosis" THEN BuildDiagnosisCLICommand
                    ELSE BuildStandardCLICommand

-----------------------------------------------------------------------------
\* BuildConfData, as far as the decision is made from it.
ConfData == (Profile(mode).on \ DOMAIN given) \cup On(given)

\* Mutant: the global variable decides in every run.
TrustGlobal == "meta_refresh" \in global.on
ResolveMetaRefresh == "meta_refresh" \in (IF withForm THEN global.on ELSE ConfData)

DiagLogDays == IF mode = "diagnosis" THEN global.daysFlag ELSE 0

\* RemoteCollect: without the form, the mode decides on container logs
\* unless the k8s command has its flag.
ContainerLogs ==
  /\ connection \in {"k8s", "local-k8s"}
  /\ IF withForm \/ (connection = "k8s" /\ "container" \in DOMAIN given)
     THEN "container" \in global.on ELSE mode = "diagnosis"

\* The settings that count in the diagnosis only, and isLogTypeEnabled.
Args ==
       (global.on \ ({"meta_refresh", "container"} \cup
          (IF mode = "diagnosis" THEN {} ELSE OptIns \cup {"gc"})))
  \cup {"reflection"}
  \cup {i \in {"meta_refresh"} : ResolveMetaRefresh}
  \cup {i \in {"container"} : ContainerLogs}

\* isLogAllowedInStandardMode
Logs == {"server", "tracker", "vacuum", "meta_refresh", "reflection",
         "acceleration", "access", "hs_err", "hive"}
StandardLogs == {"server", "tracker", "vacuum", "meta_refresh"}

Decide ==
  /\ phase = "resolve"
  /\ effect' = [on |-> IF mode = "diagnosis" THEN Args ELSE Args \ (Logs \ StandardLogs),
                days |-> IF DiagLogDays > 0 THEN DiagLogDays ELSE global.perfDays]
  /\ phase' = "ended"
  /\ UNCHANGED <<choiceVars, withForm, global, before>>

(* The printed command is run: another process, with the command line.      *)
RunGeneratedCommand ==
  /\ phase = "ended" /\ withForm
  /\ withForm' = FALSE
  /\ given' = GeneratedCommand
  /\ global' = Registered
  /\ before' = effect
  /\ effect' = Nothing
  /\ phase' = "parse"
  /\ UNCHANGED <<mode, connection, chosen>>

Settled == phase = "ended" /\ ~withForm

STNext == Parse \/ RunStandardConfigScreen \/ RunDiagnosisConfigScreen \/ Decide \/ RunGeneratedCommand

STSpec == STInit /\ [][STNext]_stVars

-----------------------------------------------------------------------------
(***************************************************************************)
(* Properties.                                                             *)
(***************************************************************************)
ModeDefault ==
  Profile(mode).on \cup
    (IF mode = "diagnosis" /\ connection \in {"k8s", "local-k8s"} THEN {"container"} ELSE {})

(* What the flags of a command line do not say is as the mode has it, not  *)
(* as the command that happened to be registered last.                     *)
UnsetFlagsFollowTheMode ==
  Settled =>
    /\ effect.days = Profile(mode).days
    /\ effect.on \ DOMAIN given = ModeDefault \ DOMAIN given

(* What README.md says of the command that the form prints: it is the      *)
(* exact equivalent that reflects all choices, and running it collects     *)
(* the same.                                                               *)
CommandIsEquivalent ==
  Settled /\ before # Nothing => effect = before
=============================================================================
