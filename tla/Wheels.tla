------------------------------- MODULE Wheels -------------------------------
(***************************************************************************)
(* build_wheels.py: one wheel per platform, each built while the binaries  *)
(* of the other platforms are hidden in a temporary directory; and         *)
(* _loader.py, which looks for the binaries of the machine it runs on. A   *)
(* build may fail, a move may fail, Ctrl+C may come anywhere, and the      *)
(* process may be killed; the script may be run again after each of them.  *)
(***************************************************************************)
EXTENDS Naturals, Sequences, SequencesExt, FiniteSets

CONSTANTS
  Dirs,         \* the directories that may be in _native/
  Partial,      \* bound: those that may hold one library of the two at first
  MaxRuns,      \* bound: runs of the script
  MaxVersions,  \* bound: versions of the package
  MaxTargets    \* bound: platforms named on the command line

ASSUME DirsAssumption == IsFiniteSet(Dirs)
ASSUME BoundsAssumption == MaxRuns \in Nat /\ MaxVersions \in Nat \ {0} /\ MaxTargets \in Nat

VARIABLES
  where,     \* of each directory: "absent", "native", "tmp" or "lost"
  built,     \* the libraries in each directory, wherever it is: pairs of the two
  version,   \* of the package, from the Git tag
  step,      \* where build_one is: "idle", "next", "hide", "build", "restore", "retag"
  targets,   \* the platforms still to build, the current one first
  hidden,    \* the directories moved to the temporary directory, in order
  raised,    \* an exception is on its way out
  pure,      \* the py3-none-any wheels in dist/
  dist,      \* the wheels with a platform tag in dist/
  exit,      \* how the last run ended, "none" before
  before,    \* history: `where` when the run began
  asked,     \* history: the targets of the run
  mishap,    \* history: a move was cut short, or the process was killed
  runs

vars == <<where, built, version, step, targets, hidden, raised, pure, dist, exit,
          before, asked, mishap, runs>>
files == <<where, built, version>>
wheels == <<pure, dist>>
history == <<before, asked, mishap, runs>>

-----------------------------------------------------------------------------
(* The platforms, and the machines their wheels are for *)

PlatformTags == [linux_x86_64  |-> "manylinux_2_34_x86_64",
                 linux_aarch64 |-> "manylinux_2_34_aarch64",
                 linux_armhf   |-> "manylinux_2_17_armv7l",
                 windows_amd64 |-> "win_amd64"]

Tagged == Dirs \cap DOMAIN PlatformTags

\* Where pip installs a wheel with a tag: an interpreter as wide as its machine.
Admits == [manylinux_2_34_x86_64  |-> {<<"Linux", "x86_64">>},
           manylinux_2_34_aarch64 |-> {<<"Linux", "aarch64">>},
           manylinux_2_17_armv7l  |-> {<<"Linux", "armv7l">>},
           win_amd64              |-> {<<"Windows", "amd64">>}]

\* Mutant: an ARM machine is looked up under its own name, as others are.
ArmByName == "linux_armv7l"

Arm == "linux_armhf"

LooksFor(machine) ==
  CASE machine \in {<<"Linux", "x86_64">>, <<"Linux", "amd64">>} -> "linux_x86_64"
    [] machine \in {<<"Linux", "aarch64">>, <<"Linux", "arm64">>} -> "linux_aarch64"
    [] machine \in {<<"Linux", "armv6l">>, <<"Linux", "armv7l">>} -> Arm
    [] machine \in {<<"Windows", "amd64">>, <<"Windows", "x86_64">>} -> "windows_amd64"
    [] OTHER -> "a directory without a tag"

\* The two libraries of a platform: oplkwrap and oplkmn.
Libs == {"shim", "stack"}

\* load() raises a NativeLoadError unless the shim is a file, and the dynamic
\* linker refuses the shim unless the stack is beside it.
Loads(wheel, machine) == {LooksFor(machine)} \X Libs \subseteq wheel.ships

-----------------------------------------------------------------------------
Init ==
  /\ where \in [Dirs -> {"absent", "native"}]
  /\ built \in SUBSET ({d \in Dirs : where[d] = "native"} \X Libs)
  /\ \A d \in Dirs \ Partial, l, m \in Libs : <<d, l>> \in built => <<d, m>> \in built
  /\ version = 1
  /\ step = "idle"
  /\ targets = <<>>
  /\ hidden = <<>>
  /\ raised = FALSE
  /\ pure = {}
  /\ dist = {}
  /\ exit = "none"
  /\ before = where
  /\ asked = <<>>
  /\ mishap = FALSE
  /\ runs = 0

\* _shared_files: one library is enough.
Present(d) == where[d] = "native" /\ \E l \in Libs : <<d, l>> \in built

\* The command line, or every platform whose binaries are there, in any order.
Arguments == BoundedSeq(Dirs, MaxTargets) \ {<<>>}
AllPresent == SetToSeqs({d \in Tagged : Present(d)})

\* The process ends: leaving the `with` has deleted the temporary directory.
EndRun(e) ==
  /\ step' = "idle"
  /\ exit' = e
  /\ targets' = <<>>
  /\ hidden' = <<>>
  /\ raised' = FALSE

RunScript ==
  /\ step = "idle"
  /\ runs < MaxRuns
  /\ \E ts \in Arguments \cup AllPresent :
       /\ targets' = ts
       /\ asked' = ts
       /\ step' = IF ts = <<>> THEN "idle" ELSE "next"
       /\ exit' = IF ts = <<>> THEN "error" ELSE "none"
  /\ before' = where
  /\ mishap' = FALSE
  /\ runs' = runs + 1
  /\ UNCHANGED <<files, hidden, raised, wheels>>

\* The package is tagged anew: versions only go up.
NewVersion ==
  /\ step = "idle"
  /\ version < MaxVersions
  /\ version' = version + 1
  /\ exit' = "none"
  /\ UNCHANGED <<where, built, step, targets, hidden, raised, wheels, history>>

\* No binaries, or a platform without a tag.
Refuse ==
  /\ step = "next"
  /\ targets # <<>>
  /\ ~Present(Head(targets)) \/ Head(targets) \notin Tagged
  /\ EndRun("error")
  /\ UNCHANGED <<files, wheels, history>>

BeginOne ==
  /\ step = "next"
  /\ targets # <<>>
  /\ Present(Head(targets))
  /\ Head(targets) \in Tagged
  /\ step' = "hide"
  /\ UNCHANGED <<files, targets, hidden, raised, wheels, exit, history>>

MainReturns ==
  /\ step = "next"
  /\ targets = <<>>
  /\ EndRun("0")
  /\ UNCHANGED <<files, wheels, history>>

-----------------------------------------------------------------------------
(* Hiding *)

\* A directory that has no tag is left where it is, and so is an absent one.
Others == {d \in Tagged \ {Head(targets)} : where[d] = "native"}

\* Mutant: the move is noted and not made.
HideNoted ==
  /\ step = "hide"
  /\ \E d \in Others \ ToSet(hidden) : hidden' = Append(hidden, d)
  /\ UNCHANGED <<files, step, targets, raised, wheels, exit, history>>

Hide ==
  /\ step = "hide"
  /\ \E d \in Others :
       /\ where' = [where EXCEPT ![d] = "tmp"]
       /\ hidden' = Append(hidden, d)
  /\ UNCHANGED <<built, version, step, targets, raised, wheels, exit, history>>

AllHidden ==
  /\ step = "hide"
  /\ Others = {}
  /\ step' = "build"
  /\ UNCHANGED <<files, targets, hidden, raised, wheels, exit, history>>

\* What leaving the `with` deletes, with those of `torn`, whose move was cut short.
Deleted(torn) ==
  [d \in Dirs |-> IF d \in ToSet(hidden) \cup torn
                    THEN "lost" ELSE where[d]]

\* A move fails or Ctrl+C comes, before the `try`. A move to another file system
\* copies and then deletes: cut short, it leaves any part of the directory.
HideCut ==
  /\ step = "hide"
  /\ \E torn \in {{}} \cup {{d} : d \in Others} :
       /\ where' \in {Deleted({}), Deleted(torn)}
       /\ \E gone \in SUBSET (torn \X Libs) : built' = built \ gone
  /\ mishap' = TRUE
  /\ EndRun("error")
  /\ UNCHANGED <<version, wheels, before, asked, runs>>

-----------------------------------------------------------------------------
(* Building, in `try` *)

NewWheel == [version |-> version, ships |-> {f \in built : where[f[1]] = "native"}]

\* A wheel of the same version has the same file name, and replaces the old one.
WithNewWheel == {w \in pure : w.version # version} \cup {NewWheel}

Build ==
  /\ step = "build"
  /\ pure' = WithNewWheel
  /\ step' = "restore"
  /\ UNCHANGED <<files, targets, hidden, raised, dist, exit, history>>

\* Mutant: without check=True a failed build is not noticed.
BuildFailsUnnoticed ==
  /\ step = "build"
  /\ step' = "restore"
  /\ UNCHANGED <<files, targets, hidden, raised, wheels, exit, history>>

\* It fails, or Ctrl+C ends it, maybe after the wheel was written.
BuildFails ==
  /\ step = "build"
  /\ pure' \in {pure, WithNewWheel}
  /\ raised' = TRUE
  /\ step' = "restore"
  /\ UNCHANGED <<files, targets, hidden, dist, exit, history>>

-----------------------------------------------------------------------------
(* Restoring, in `finally` *)

Restore ==
  /\ step = "restore"
  /\ hidden # <<>>
  /\ where' = [where EXCEPT ![Head(hidden)] = "native"]
  /\ hidden' = Tail(hidden)
  /\ UNCHANGED <<built, version, step, targets, raised, wheels, exit, history>>

\* A move fails or Ctrl+C comes: the rest is deleted, and of the directory that
\* was being moved any part may have arrived.
RestoreCut ==
  /\ step = "restore"
  /\ hidden # <<>>
  /\ where' \in {Deleted({}), [Deleted({}) EXCEPT ![Head(hidden)] = "native"]}
  /\ \E gone \in SUBSET ({Head(hidden)} \X Libs) : built' = built \ gone
  /\ mishap' = TRUE
  /\ EndRun("error")
  /\ UNCHANGED <<version, wheels, before, asked, runs>>

\* Mutant: nothing is restored when the build raised, as without `finally`.
SkipsRestoreOnError == raised

SkipsRestore == FALSE

AllRestored ==
  /\ step = "restore"
  /\ hidden = <<>> \/ SkipsRestore
  /\ IF raised THEN EndRun("error")
               ELSE step' = "retag" /\ UNCHANGED <<targets, hidden, raised, exit>>
  /\ where' = Deleted({})
  /\ UNCHANGED <<built, version, wheels, history>>

-----------------------------------------------------------------------------
(* Naming the wheel *)

\* Mutant: the oldest wheel is taken.
LatestFirst == CHOOSE w \in pure : \A v \in pure : w.version <= v.version

\* The one written last is that of the highest version.
Latest == CHOOSE w \in pure : \A v \in pure : v.version <= w.version

\* The name says version and platform; a wheel of that name is replaced.
Retag ==
  /\ step = "retag"
  /\ pure # {}
  /\ dist' = {w \in dist : <<w.version, w.platform>> # <<Latest.version, Head(targets)>>}
             \cup {[version |-> Latest.version, platform |-> Head(targets),
                    ships |-> Latest.ships]}
  /\ pure' = pure \ {Latest}
  /\ targets' = Tail(targets)
  /\ step' = "next"
  /\ UNCHANGED <<files, hidden, raised, exit, history>>

\* The build made no wheel, or Ctrl+C comes.
RetagFails ==
  /\ step = "retag"
  /\ EndRun("error")
  /\ UNCHANGED <<files, wheels, history>>

\* What is in the temporary directory stays there.
Killed ==
  /\ step # "idle"
  /\ mishap' = TRUE
  /\ EndRun("error")
  /\ UNCHANGED <<files, wheels, before, asked, runs>>

-----------------------------------------------------------------------------
Done == step = "idle" /\ runs = MaxRuns /\ UNCHANGED vars

Next ==
  \/ RunScript
  \/ NewVersion
  \/ Refuse
  \/ BeginOne
  \/ MainReturns
  \/ Hide
  \/ AllHidden
  \/ HideCut
  \/ Build
  \/ BuildFails
  \/ Restore
  \/ RestoreCut
  \/ AllRestored
  \/ Retag
  \/ RetagFails
  \/ Killed
  \/ Done

Spec == Init /\ [][Next]_vars

-----------------------------------------------------------------------------
(* Properties *)

\* Every variable has a value of its kind, and what is noted as hidden is in the
\* temporary directory.
TypeOK ==
  /\ where \in [Dirs -> {"absent", "native", "tmp", "lost"}]
  /\ built \subseteq Dirs \X Libs
  /\ version \in 1 .. MaxVersions
  /\ step \in {"idle", "next", "hide", "build", "restore", "retag"}
  /\ ToSet(targets) \subseteq Dirs
  /\ ToSet(hidden) \subseteq {d \in Tagged : where[d] = "tmp"}
  /\ raised \in BOOLEAN
  /\ pure \subseteq [version : 1 .. version, ships : SUBSET (Dirs \X Libs)]
  /\ dist \subseteq [version : 1 .. version, platform : Tagged, ships : SUBSET (Dirs \X Libs)]
  /\ exit \in {"none", "0", "error"}

\* A run puts back every directory it has hidden, whatever the build did and
\* wherever it was told to end, unless a move was cut short or the process was
\* killed (build_wheels.py:54-68).
BinariesKept == step = "idle" /\ ~mishap => where = before

\* The directories that a wheel has libraries of.
Carried(w) == {d \in Dirs : \E l \in Libs : <<d, l>> \in w.ships}

\* A wheel carries binaries of the platform its tag stands for and of no other
\* that has a tag, also when wheels of failed runs and of other versions lie
\* about (build_wheels.py:54-85). OwnBinariesOnly says what the docstring says.
NoOtherTagged == \A w \in dist : Carried(w) \cap Tagged = {w.platform}

\* "Each wheel must ship ONLY its own _native/<platform> subdirectory"
\* (build_wheels.py:3).
OwnBinariesOnly == \A w \in dist : Carried(w) = {w.platform}

\* A run that ends with status 0 has made the wheels it was asked for, of the
\* current version (build_wheels.py:64-65, 98-101).
ExitZeroDelivers ==
  exit = "0" => \A p \in ToSet(asked) : \E w \in dist : w.platform = p /\ w.version = version

\* On a machine that pip installs a wheel on, the loader finds both libraries
\* in it, if the platform's directory had both. (Libraries only go away here, so
\* those that are there now were there at the build. A directory with one of
\* them is built as well.) build_wheels.py:32-47, 54-85, _loader.py:24-98.
InstalledLoads ==
  \A w \in dist : {w.platform} \X Libs \subseteq built =>
    \A machine \in Admits[PlatformTags[w.platform]] : Loads(w, machine)
=============================================================================
