------------------------------- MODULE AssetFiles -------------------------------
(***************************************************************************)
(* Proofs about NativeAssets, for any tags, releases, lengths and bounds:  *)
(* what the output directory holds between builds is enough for the three  *)
(* safety properties of every build, wherever an earlier one was cut off.  *)
(***************************************************************************)
EXTENDS NativeAssets, TLAPS

Versions == 0 .. MaxBuilt
Libraries == {Release(tag) : tag \in Tags} \cup {Local(version) : version \in Versions} \cup {None}
Files == [of: Libraries, blocks: Nat]

TypeInv ==
    /\ config \in Configs
    /\ host \in BOOLEAN
    /\ built \in Versions
    /\ file \in [Tags -> Files]
    /\ temp \in [Tags -> Files]
    /\ newer \in [Tags -> BOOLEAN]

\* The branches of main(): a local build is under way only where it is what the
\* configuration leads to, a download only where it is not.
TakesLocal == host /\ (config.local \/ Tag \notin Published)
PathInv ==
    /\ pc = "local" => config.local
    /\ pc = "fetch" => ~ (host /\ config.local)
    /\ pc = "fallback" => ~ config.local
    /\ pc \in {"copy", "write"} => TakesLocal
    /\ pc \in {"download", "receive", "verify"} => ~ TakesLocal

\* A release is in the output directory whole, under its tag, or not at all.
ReleaseInv ==
    \A tag \in Tags : file[tag].of.kind = "release" => file[tag] = Whole(Release(tag))

\* What passes for cargo's output under a tag: a copy of it, or the release of its length.
Passes(tag) ==
    /\ file[tag].blocks = Length(Local(built))
    /\ file[tag] \in {Whole(Local(built)), Whole(Release(tag))}

\* A file as long as cargo's output, and newer, passes for it.
CopyInv ==
    /\ \A tag \in Tags : newer[tag] /\ file[tag].blocks = Length(Local(built)) => Passes(tag)
    /\ pc = "write" => file[Tag].of = Local(built)

\* What the build has found or made, once it is done.
DoneInv ==
    pc = "done" =>
        IF TakesLocal THEN Passes(Tag) ELSE Matches

BundledInv == ChecksumHolds /\ ReleaseWhole /\ LocalCurrent

FilesInv ==
    TypeInv /\ PathInv /\ ReleaseInv /\ CopyInv /\ DoneInv /\ BundledInv
-----------------------------------------------------------------------------
(* What a library and a file are made of. *)

\* The kinds of libraries, and the parts of a whole file.
LEMMA WholeFacts ==
    /\ \A tag : /\ Whole(Release(tag)).of = Release(tag)
                /\ Whole(Release(tag)).blocks = Length(Release(tag))
                /\ Release(tag).kind = "release"
    /\ \A version : /\ Whole(Local(version)).of = Local(version)
                    /\ Whole(Local(version)).blocks = Length(Local(version))
                    /\ Local(version).kind = "local"
    /\ NoFile.of.kind = "none" /\ NoFile.blocks = 0
BY DEF Whole, Part, Release, Local, NoFile, None

\* No library is empty.
LEMMA Lengths ==
    /\ \A tag \in Tags : Length(Release(tag)) \in Nat \ {0}
    /\ \A version \in Versions : Length(Local(version)) \in Nat \ {0}
BY LengthsAssumption DEF Length, Release, Local, Versions

\* The files and tags the steps build are files and tags.
LEMMA TypeFacts ==
    /\ NoFile \in Files
    /\ \A tag \in Tags, n \in Nat : Part(Release(tag), n) \in Files
    /\ \A version \in Versions, n \in Nat : Part(Local(version), n) \in Files
    /\ config \in Configs => Tag \in Tags
<1>1. NoFile \in Files
  BY DEF NoFile, Part, Files, Libraries
<1>2. \A tag \in Tags, n \in Nat : Part(Release(tag), n) \in Files
  BY DEF Part, Files, Libraries
<1>3. \A version \in Versions, n \in Nat : Part(Local(version), n) \in Files
  BY DEF Part, Files, Libraries
<1>4. config \in Configs => Tag \in Tags
  BY DEF Configs, Tag
<1> QED BY <1>1, <1>2, <1>3, <1>4
-----------------------------------------------------------------------------
(* The invariant. *)

\* It holds before the first build.
LEMMA FilesInit == Init => FilesInv
<1> SUFFICES ASSUME Init PROVE FilesInv
  OBVIOUS
<1>1. TypeInv
  BY TypeFacts, BoundsAssumption DEF Init, TypeInv, Versions
<1>2. PathInv /\ DoneInv
  BY DEF Init, PathInv, DoneInv
<1>3. ReleaseInv /\ CopyInv
  BY WholeFacts DEF Init, ReleaseInv, CopyInv
<1>4. BundledInv
  BY WholeFacts DEF Init, BundledInv, ChecksumHolds, ReleaseWhole, LocalCurrent
<1> QED BY <1>1, <1>2, <1>3, <1>4 DEF FilesInv

\* A build has the directory and the configuration for itself, so what the invariant says
\* of them is kept by a step that changes neither.
LEMMA KeptQuiet ==
    ASSUME FilesInv, UNCHANGED <<config, host, built, file, newer, bundled>>,
           temp' \in [Tags -> Files]
    PROVE  TypeInv' /\ ReleaseInv' /\ BundledInv'
           /\ (pc' # "write" => CopyInv') /\ (TakesLocal' <=> TakesLocal) /\ Tag' = Tag
<1>1. TypeInv'
  BY DEF FilesInv, TypeInv
<1>2. ReleaseInv'
  BY DEF FilesInv, ReleaseInv
<1>3. BundledInv'
  BY DEF FilesInv, BundledInv, ChecksumHolds, ReleaseWhole, LocalCurrent
<1>4. pc' # "write" => CopyInv'
  BY DEF FilesInv, CopyInv, Passes
<1>5. (TakesLocal' <=> TakesLocal) /\ Tag' = Tag
  BY DEF TakesLocal, Tag
<1> QED BY <1>1, <1>2, <1>3, <1>4, <1>5

\* cargo's output may move on, and with it what counts as up to date.
LEMMA KeptByCargo ==
    ASSUME FilesInv, Cargo, UNCHANGED <<config, host, bundled>>, pc' # "write"
    PROVE  TypeInv' /\ ReleaseInv' /\ BundledInv' /\ CopyInv'
           /\ (TakesLocal' <=> TakesLocal) /\ Tag' = Tag
<1>1. CASE UNCHANGED <<built, files>>
  <2>1. UNCHANGED <<config, host, built, file, newer, bundled>> /\ temp' \in [Tags -> Files]
    BY <1>1 DEF files, FilesInv, TypeInv
  <2> QED BY <2>1, KeptQuiet
<1>2. CASE /\ built < MaxBuilt /\ built' = built + 1
           /\ newer' = [tag \in Tags |-> FALSE]
           /\ UNCHANGED <<file, temp>>
  <2>1. TypeInv'
    <3>1. built' \in Versions
      BY <1>2, BoundsAssumption DEF FilesInv, TypeInv, Versions
    <3> QED BY <1>2, <3>1 DEF FilesInv, TypeInv
  <2>2. ReleaseInv'
    BY <1>2 DEF FilesInv, ReleaseInv
  <2>3. BundledInv'
    BY <1>2 DEF FilesInv, BundledInv, ChecksumHolds, ReleaseWhole, LocalCurrent
  <2>4. CopyInv'
    BY <1>2 DEF CopyInv, Passes
  <2>5. (TakesLocal' <=> TakesLocal) /\ Tag' = Tag
    BY <1>2 DEF TakesLocal, Tag
  <2> QED BY <2>1, <2>2, <2>3, <2>4, <2>5
<1> QED BY <1>1, <1>2 DEF Cargo

\* The steps that only look, and those of a download before it is renamed.
LEMMA QuietSteps ==
    ASSUME FilesInv,
           \/ Begin \/ Fetch \/ NoChoice \/ Keep \/ Open \/ Receive \/ Verify \/ Skip
           \/ DownloadFails \/ Crash
    PROVE  FilesInv'
<1> USE DEF files, Goto, Throw, Fault
<1>0. TypeInv
  BY DEF FilesInv
<1>1. UNCHANGED <<config, host, built, file, newer, bundled>> /\ pc' # "write"
  BY DEF Begin, Fetch, NoChoice, Keep, Open, Receive, Verify, Skip, DownloadFails, Crash
<1>2. temp' \in [Tags -> Files]
  <2>1. CASE Open
    BY <1>0, <2>1, TypeFacts DEF Open, Set, TypeInv
  <2>2. CASE Receive
    <3>1. Tag \in Tags /\ temp \in [Tags -> Files]
      BY <1>0, TypeFacts DEF TypeInv
    <3>2. temp[Tag] \in Files
      BY <3>1
    <3>3. [temp[Tag] EXCEPT !.blocks = @ + 1] \in Files
      BY <3>2 DEF Files
    <3>4. temp' = [temp EXCEPT ![Tag] = [temp[Tag] EXCEPT !.blocks = @ + 1]]
      BY <2>2 DEF Receive
    <3> QED BY <3>1, <3>3, <3>4
  <2>3. CASE DownloadFails
    BY <1>0, <2>3, TypeFacts DEF DownloadFails, Set, TypeInv
  <2>4. CASE Begin \/ Fetch \/ NoChoice \/ Keep \/ Verify \/ Skip \/ Crash
    BY <1>0, <2>4 DEF Begin, Fetch, NoChoice, Keep, Verify, Skip, Crash, TypeInv
  <2> QED BY <2>1, <2>2, <2>3, <2>4
<1>3. TypeInv' /\ ReleaseInv' /\ BundledInv' /\ CopyInv' /\ (TakesLocal' <=> TakesLocal) /\ Tag' = Tag
  BY <1>1, <1>2, KeptQuiet
<1>4. PathInv'
  <2>1. PathInv
    BY DEF FilesInv
  <2>2. CASE Begin
    BY <1>1, <2>2 DEF Begin, PathInv
  <2>3. CASE Fetch
    BY <1>1, <2>1, <2>3 DEF Fetch, PathInv, TakesLocal, Tag
  <2>4. CASE NoChoice \/ DownloadFails \/ Crash
    BY <1>1, <2>4 DEF NoChoice, DownloadFails, Crash, PathInv
  <2>5. CASE Keep \/ Open \/ Receive \/ Verify \/ Skip
    BY <1>1, <1>3, <2>1, <2>5 DEF Keep, Open, Receive, Verify, Skip, PathInv
  <2> QED BY <2>2, <2>3, <2>4, <2>5
<1>5. DoneInv'
  <2>1. CASE Verify
    <3>1. ~ TakesLocal /\ Matches
      BY <2>1 DEF Verify, FilesInv, PathInv
    <3> QED BY <1>1, <1>3, <3>1 DEF DoneInv, Matches
  <2>2. CASE Skip
    <3>1. TakesLocal /\ newer[Tag] /\ file[Tag].blocks = Length(Local(built))
      BY <2>2, Zenon DEF Skip, UpToDate, FilesInv, PathInv
    <3>2. Passes(Tag)
      BY <1>0, <3>1, TypeFacts DEF FilesInv, CopyInv, TypeInv
    <3> QED BY <1>1, <1>3, <3>1, <3>2 DEF DoneInv, Passes
  <2>3. CASE Begin \/ Fetch \/ NoChoice \/ Keep \/ Open \/ Receive \/ DownloadFails \/ Crash
    BY <2>3 DEF Begin, Fetch, NoChoice, Keep, Open, Receive, DownloadFails, Crash, DoneInv
  <2> QED BY <2>1, <2>2, <2>3
<1> QED BY <1>3, <1>4, <1>5 DEF FilesInv

\* A local build, preferred or tried next to the release.
LEMMA CargoSteps == FilesInv /\ (PreferLocal \/ Fallback) => FilesInv'
<1> SUFFICES ASSUME FilesInv, PreferLocal \/ Fallback PROVE FilesInv'
  OBVIOUS
<1> USE DEF Goto
<1>1. Cargo /\ UNCHANGED <<config, host, bundled>> /\ pc' \notin {"write", "done"}
  BY DEF PreferLocal, Fallback, Cargo
<1>2. TypeInv' /\ ReleaseInv' /\ BundledInv' /\ CopyInv' /\ (TakesLocal' <=> TakesLocal) /\ Tag' = Tag
  BY <1>1, KeptByCargo
<1>3. PathInv'
  <2>1. CASE PreferLocal
    <3>1. config.local
      BY <2>1 DEF PreferLocal, PathInv, FilesInv
    <3> QED BY <1>1, <1>2, <2>1, <3>1 DEF PreferLocal, PathInv, TakesLocal
  <2>2. CASE Fallback
    <3>1. ~ config.local /\ (host \/ Tag \in Published)
      BY <2>2 DEF Fallback, PathInv, FilesInv
    <3>2. CASE Tag \in Published
      <4>1. pc' = "download" /\ ~ TakesLocal
        BY <2>2, <3>1, <3>2 DEF Fallback, TakesLocal
      <4> QED BY <1>2, <4>1 DEF PathInv
    <3>3. CASE Tag \notin Published
      <4>1. pc' = "copy" /\ TakesLocal
        BY <2>2, <3>1, <3>3 DEF Fallback, TakesLocal
      <4> QED BY <1>2, <4>1 DEF PathInv
    <3> QED BY <3>2, <3>3
  <2> QED BY <2>1, <2>2
<1>4. DoneInv'
  BY <1>1 DEF DoneInv
<1> QED BY <1>2, <1>3, <1>4 DEF FilesInv

\* Renaming the download, deleting what does not match, copying: the steps that change
\* what is under the build's tag, and nothing else of the directory.
LEMMA FileSteps == FilesInv /\ (Rename \/ Mismatch \/ Copy \/ Write) => FilesInv'
<1> SUFFICES ASSUME FilesInv, Rename \/ Mismatch \/ Copy \/ Write PROVE FilesInv'
  OBVIOUS
<1> USE DEF Goto, Throw, Set
<1>1. TypeInv /\ Tag \in Tags /\ file \in [Tags -> Files] /\ temp \in [Tags -> Files]
      /\ newer \in [Tags -> BOOLEAN] /\ built \in Versions
  BY TypeFacts DEF FilesInv, TypeInv
<1>2. UNCHANGED <<config, host, built, bundled>> /\ Tag' = Tag /\ (TakesLocal' <=> TakesLocal)
  BY DEF Rename, Mismatch, Copy, Write, Tag, TakesLocal
<1>3. BundledInv'
  BY <1>2 DEF FilesInv, BundledInv, ChecksumHolds, ReleaseWhole, LocalCurrent
<1>4. CASE Rename
  <2>1. /\ file' = [file EXCEPT ![Tag] = Whole(Release(Tag))]
        /\ newer' = [newer EXCEPT ![Tag] = TRUE]
        /\ temp' = [temp EXCEPT ![Tag] = NoFile]
        /\ pc' = "verify"
    BY <1>4 DEF Rename
  <2>2. Whole(Release(Tag)) \in Files
    BY <1>1, TypeFacts, Lengths DEF Whole
  <2>3. TypeInv'
    BY <1>1, <1>2, <2>1, <2>2, TypeFacts DEF TypeInv
  <2>4. PathInv' /\ DoneInv'
    BY <1>2, <1>4, <2>1 DEF Rename, FilesInv, PathInv, DoneInv
  <2>5. ReleaseInv'
    BY <1>1, <1>2, <2>1 DEF FilesInv, ReleaseInv
  <2>6. CopyInv'
    BY <1>1, <1>2, <2>1, WholeFacts DEF FilesInv, CopyInv, Passes
  <2> QED BY <1>3, <2>3, <2>4, <2>5, <2>6 DEF FilesInv
<1>5. CASE Mismatch
  <2>1. /\ file' = [file EXCEPT ![Tag] = NoFile]
        /\ UNCHANGED <<newer, temp>>
        /\ pc' = "idle"
    BY <1>5 DEF Mismatch
  <2>3. TypeInv'
    BY <1>1, <1>2, <2>1, TypeFacts DEF TypeInv
  <2>4. PathInv' /\ DoneInv'
    BY <2>1 DEF PathInv, DoneInv
  <2>5. ReleaseInv'
    BY <1>1, <1>2, <2>1, WholeFacts DEF FilesInv, ReleaseInv
  <2>6. CopyInv'
    BY <1>1, <1>2, <2>1, WholeFacts, Lengths DEF FilesInv, CopyInv, Passes
  <2> QED BY <1>3, <2>3, <2>4, <2>5, <2>6 DEF FilesInv
<1>6. CASE Copy
  <2>1. /\ file' = [file EXCEPT ![Tag] = Part(Local(built), 0)]
        /\ UNCHANGED temp
        /\ pc' = "write"
        /\ TakesLocal
    BY <1>6 DEF Copy, FilesInv, PathInv
  <2>2. PICK after \in BOOLEAN : newer' = [newer EXCEPT ![Tag] = after]
    BY <1>6 DEF Copy
  <2>3. TypeInv'
    BY <1>1, <1>2, <2>1, <2>2, TypeFacts DEF TypeInv
  <2>4. PathInv' /\ DoneInv'
    BY <1>2, <2>1 DEF PathInv, DoneInv
  <2>5. Part(Local(built), 0).of = Local(built) /\ Part(Local(built), 0).blocks = 0
    BY DEF Part
  <2>6. ReleaseInv'
    BY <1>1, <1>2, <2>1, <2>5, WholeFacts DEF FilesInv, ReleaseInv
  <2>7. CopyInv'
    BY <1>1, <1>2, <2>1, <2>2, <2>5, Lengths DEF FilesInv, CopyInv, Passes
  <2> QED BY <1>3, <2>3, <2>4, <2>6, <2>7 DEF FilesInv
<1>7. CASE Write
  <2> DEFINE longer == [file[Tag] EXCEPT !.blocks = @ + 1]
  <2>1. /\ file' = [file EXCEPT ![Tag] = longer]
        /\ UNCHANGED <<temp, newer>>
        /\ pc' = IF file'[Tag] = Whole(Local(built)) THEN "done" ELSE "write"
    BY <1>7 DEF Write
  <2>2. file[Tag] \in Files /\ file[Tag].of = Local(built) /\ TakesLocal
    BY <1>1, <1>7 DEF Write, FilesInv, CopyInv, PathInv
  <2>3. longer \in Files /\ longer.of = Local(built)
    BY <2>2 DEF Files
  <2> HIDE DEF longer
  <2>4. TypeInv'
    BY <1>1, <1>2, <2>1, <2>3 DEF TypeInv
  <2>5. file'[Tag] = longer
    BY <1>1, <2>1
  <2>6. PathInv' /\ DoneInv'
    <3>1. PathInv'
      BY <1>2, <2>1, <2>2 DEF PathInv
    <3>2. pc' = "done" => Passes(Tag)'
      BY <1>2, <2>1, WholeFacts DEF Passes
    <3> QED BY <1>2, <2>2, <3>1, <3>2 DEF DoneInv
  <2>7. ReleaseInv'
    BY <1>1, <1>2, <2>1, <2>3, WholeFacts DEF FilesInv, ReleaseInv
  <2>8. longer.blocks = Length(Local(built)) => longer = Whole(Local(built))
    BY <2>3 DEF Files, Whole, Part
  <2>9. CopyInv'
    BY <1>1, <1>2, <2>1, <2>3, <2>5, <2>8 DEF FilesInv, CopyInv, Passes
  <2> QED BY <1>3, <2>4, <2>6, <2>7, <2>9 DEF FilesInv
<1> QED BY <1>4, <1>5, <1>6, <1>7

\* What a build bundles is what it ended with.
LEMMA BundleStep == FilesInv /\ Bundle => FilesInv'
<1> SUFFICES ASSUME FilesInv, Bundle PROVE FilesInv'
  OBVIOUS
<1>1. TypeInv' /\ ReleaseInv' /\ PathInv' /\ DoneInv' /\ CopyInv'
  BY DEF Bundle, files, FilesInv, TypeInv, ReleaseInv, PathInv, DoneInv, CopyInv,
         Passes, TakesLocal, Tag
<1>2. /\ bundled'.config = config /\ bundled'.file = file[Tag] /\ bundled'.built = built
      /\ bundled'.via = IF TakesLocal THEN "local" ELSE "release"
  BY DEF Bundle, TakesLocal
<1>3. IF TakesLocal THEN Passes(Tag) ELSE Matches
  BY DEF Bundle, FilesInv, DoneInv
<1>4. ChecksumHolds' /\ LocalCurrent'
  BY <1>2, <1>3 DEF ChecksumHolds, LocalCurrent, Matches, Passes, Tag
<1>5. ReleaseWhole'
  <2>1. Tag \in Tags
    BY TypeFacts DEF FilesInv, TypeInv
  <2> QED BY <1>2, <2>1 DEF ReleaseWhole, FilesInv, ReleaseInv, Tag
<1> QED BY <1>1, <1>4, <1>5 DEF FilesInv, BundledInv

\* Between builds the application may ask for something else.
LEMMA ConfigureStep == FilesInv /\ Configure => FilesInv'
<1> SUFFICES ASSUME FilesInv, Configure PROVE FilesInv'
  OBVIOUS
<1>1. TypeInv' /\ ReleaseInv' /\ PathInv' /\ DoneInv' /\ CopyInv'
  BY DEF Configure, files, FilesInv, TypeInv, ReleaseInv, PathInv, DoneInv, CopyInv,
         Passes
<1>2. BundledInv'
  BY DEF Configure, FilesInv, BundledInv, ChecksumHolds, ReleaseWhole, LocalCurrent
<1> QED BY <1>1, <1>2 DEF FilesInv

\* Every step keeps the invariant.
LEMMA FilesStep == FilesInv /\ [Next]_vars => FilesInv'
<1> SUFFICES ASSUME FilesInv, [Next]_vars PROVE FilesInv'
  OBVIOUS
<1>1. CASE Next
  BY <1>1, QuietSteps, CargoSteps, FileSteps, BundleStep, ConfigureStep DEF Next, Build
<1>2. CASE UNCHANGED vars
  <2>1. UNCHANGED <<config, host, built, file, temp, newer, pc, bundled>>
    BY <1>2 DEF vars, files
  <2> QED BY <2>1 DEF FilesInv, TypeInv, ReleaseInv, PathInv, DoneInv, CopyInv, BundledInv,
                      TakesLocal, Tag, Matches, Passes, ChecksumHolds, ReleaseWhole, LocalCurrent
<1> QED BY <1>1, <1>2

\* The invariant holds at every step of every sequence of builds.
LEMMA FilesAlways == Spec => []FilesInv
<1> QED BY FilesInit, FilesStep, PTL DEF Spec

\* With a checksum configured a build bundles, for the release's asset, the library of that
\* checksum (main and _verifyChecksumIfConfigured of build.dart).
THEOREM ChecksumHoldsCorrect == Spec => []ChecksumHolds
<1>1. FilesInv => ChecksumHolds
  BY DEF FilesInv, BundledInv
<1> QED BY <1>1, FilesAlways, PTL

\* No build bundles a part of a release, nor the release of another tag
\* (_downloadIfNeeded of build.dart).
THEOREM ReleaseWholeCorrect == Spec => []ReleaseWhole
<1>1. FilesInv => ReleaseWhole
  BY DEF FilesInv, BundledInv
<1> QED BY <1>1, FilesAlways, PTL

\* A local build bundles what cargo has just built, or a whole release of its length that was
\* downloaded later: no earlier version and no part of anything, whatever the lengths of
\* libraries (_copyIfNeeded of build.dart).
THEOREM LocalCurrentCorrect == Spec => []LocalCurrent
<1>1. FilesInv => LocalCurrent
  BY DEF FilesInv, BundledInv
<1> QED BY <1>1, FilesAlways, PTL
=============================================================================
