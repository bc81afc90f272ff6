------------------------------ MODULE NativeAssets ------------------------------
(***************************************************************************)
(* The build hook of src/flutter/sgtp_chat_core/hook/build.dart: it        *)
(* chooses the chat_core library for one target, a release's asset or a    *)
(* local cargo build, and leaves it in the shared output directory, which  *)
(* later builds find again, whatever they are configured to.               *)
(*                                                                         *)
(* Builds run one at a time, as the hook runner locks the directory; any   *)
(* of their steps may fail, or be their last.  A file is the library it    *)
(* was written from and how many blocks of it are there; a missing file is *)
(* an empty one, the hook treats them alike.  The library's asset is of    *)
(* the right name and link mode.                                           *)
(***************************************************************************)
EXTENDS Naturals

CONSTANTS
    Tags,       \* release tags
    Published,  \* those whose release has an asset for the target
    MaxBuilt,   \* bound: versions cargo builds
    MaxFaults,  \* bound: failures and crashes
    ReleaseLength,  \* ReleaseLength[tag]: blocks of the asset of a release
    LocalLength     \* LocalLength[version]: blocks of cargo's output

ASSUME PublishedAssumption == Published \subseteq Tags
ASSUME BoundsAssumption == MaxBuilt \in Nat /\ MaxFaults \in Nat
ASSUME LengthsAssumption ==
    /\ ReleaseLength \in [Tags -> Nat \ {0}]
    /\ LocalLength \in [0 .. MaxBuilt -> Nat \ {0}]

VARIABLES
    config,     \* the application's user defines
    host,       \* is the target this machine, in a checkout with its Cargo.toml?
    built,      \* the version target/release holds
    file,       \* file[tag]: the library in the output directory
    temp,       \* temp[tag]: the download next to it
    newer,      \* newer[tag]: was the file modified after cargo's output?
    pc,         \* the step the build is at, or "idle"
    bundled,    \* what the last successful build bundled
    faults      \* failures and crashes so far, for the bound

files == <<file, temp, newer>>
vars == <<config, host, built, files, pc, bundled, faults>>
-----------------------------------------------------------------------------
(* Libraries and files. *)

Release(tag) == [kind |-> "release", id |-> tag]
Local(version) == [kind |-> "local", id |-> version]
None == [kind |-> "none", id |-> 0]

\* In blocks.  Any two libraries may be of one length.
Length(library) ==
    IF library.kind = "release" THEN ReleaseLength[library.id] ELSE LocalLength[library.id]

Part(library, blocks) == [of |-> library, blocks |-> blocks]
Whole(library) == Part(library, Length(library))
NoFile == Part(None, 0)
Set(f, tag, content) == [f EXCEPT ![tag] = content]

\* _Defines: a checksum is that of some library, perhaps of another release.
Configs == [tag: Tags, checksum: {Release(tag) : tag \in Tags} \cup {None}, local: BOOLEAN]
Tag == config.tag

Init ==
    /\ config \in Configs
    /\ host \in BOOLEAN
    /\ built = 0
    /\ file = [tag \in Tags |-> NoFile]
    /\ temp = [tag \in Tags |-> NoFile]
    /\ newer = [tag \in Tags |-> FALSE]
    /\ pc = "idle"
    /\ bundled = [config |-> config, via |-> "nothing", file |-> NoFile, built |-> 0]
    /\ faults = 0

Goto(step) == pc' = step /\ UNCHANGED <<config, host, bundled, faults>>

\* An exception ends the build.
Throw == pc' = "idle" /\ UNCHANGED <<config, host, bundled>>
Fault == faults < MaxFaults /\ faults' = faults + 1
-----------------------------------------------------------------------------
(* Choosing. *)

Configure ==
    /\ pc = "idle"
    /\ config' \in Configs
    /\ UNCHANGED <<host, built, files, pc, bundled, faults>>

Begin ==
    /\ pc = "idle"
    /\ Goto(IF config.local THEN "local" ELSE "fetch")
    /\ UNCHANGED <<built, files>>

\* cargo writes its output only when the sources have changed.
Cargo ==
    \/ UNCHANGED <<built, files>>
    \/ /\ built < MaxBuilt
       /\ built' = built + 1
       /\ newer' = [tag \in Tags |-> FALSE]
       /\ UNCHANGED <<file, temp>>

\* tryBuildLocalDynamic when a local build is preferred.
PreferLocal ==
    /\ pc = "local"
    /\ IF host THEN Cargo /\ Goto("copy") ELSE UNCHANGED <<built, files>> /\ Goto("fetch")

\* The release's list of assets.  Without a preference a local build is tried as well,
\* whether or not the release has the asset.
Fetch ==
    /\ pc = "fetch"
    /\ ~ config.local \/ Tag \in Published
    /\ Goto(IF config.local THEN "download" ELSE "fallback")
    /\ UNCHANGED <<built, files>>

Fallback ==
    /\ pc = "fallback"
    /\ host \/ Tag \in Published
    /\ IF host THEN Cargo ELSE UNCHANGED <<built, files>>
    /\ Goto(IF Tag \in Published THEN "download" ELSE "copy")

\* Nothing was found: UnsupportedError.
NoChoice ==
    /\ Tag \notin Published /\ ~ host
    /\ pc = IF config.local THEN "fetch" ELSE "fallback"
    /\ Throw
    /\ UNCHANGED <<built, files, faults>>
-----------------------------------------------------------------------------
(* _downloadIfNeeded and _verifyChecksumIfConfigured. *)

\* Mutant of Keep: a file that is there has been verified before.
KeepUnverified ==
    /\ pc = "download"
    /\ file[Tag].blocks > 0
    /\ Goto("done")
    /\ UNCHANGED <<built, files>>

\* A file that is there is not downloaded again.
Keep ==
    /\ pc = "download"
    /\ file[Tag].blocks > 0
    /\ Goto("verify")
    /\ UNCHANGED <<built, files>>

\* What an earlier build left of a download is deleted.
Open ==
    /\ pc = "download"
    /\ file[Tag].blocks = 0
    /\ temp' = Set(temp, Tag, Part(Release(Tag), 0))
    /\ Goto("receive")
    /\ UNCHANGED <<built, file, newer>>

\* Mutant of Receive: the download goes to the output file itself.
ReceiveInPlace ==
    /\ pc = "receive"
    /\ temp[Tag].blocks < Length(Release(Tag))
    /\ temp' = [temp EXCEPT ![Tag].blocks = @ + 1]
    /\ file' = temp'
    /\ Goto("receive")
    /\ UNCHANGED <<built, newer>>

Receive ==
    /\ pc = "receive"
    /\ temp[Tag].blocks < Length(Release(Tag))
    /\ temp' = [temp EXCEPT ![Tag].blocks = @ + 1]
    /\ Goto("receive")
    /\ UNCHANGED <<built, file, newer>>

Rename ==
    /\ pc = "receive"
    /\ temp[Tag] = Whole(Release(Tag))
    /\ file' = Set(file, Tag, temp[Tag])
    /\ temp' = Set(temp, Tag, NoFile)
    /\ newer' = [newer EXCEPT ![Tag] = TRUE]
    /\ Goto("verify")
    /\ UNCHANGED built

Matches == config.checksum = None \/ file[Tag] = Whole(config.checksum)

Verify ==
    /\ pc = "verify"
    /\ Matches
    /\ Goto("done")
    /\ UNCHANGED <<built, files>>

\* Mutant of Mismatch: the file stays.
MismatchKept ==
    /\ pc = "verify"
    /\ ~ Matches
    /\ Throw
    /\ UNCHANGED <<built, files, faults>>

\* The file is deleted, so that the next build downloads it.
Mismatch ==
    /\ pc = "verify"
    /\ ~ Matches
    /\ file' = Set(file, Tag, NoFile)
    /\ Throw
    /\ UNCHANGED <<built, temp, newer, faults>>
-----------------------------------------------------------------------------
(* _copyIfNeeded. *)

\* Mutant of UpToDate: the length alone.
UpToDateByLength == file[Tag].blocks = Length(Local(built))

UpToDate == file[Tag].blocks = Length(Local(built)) /\ newer[Tag]

Skip ==
    /\ pc = "copy"
    /\ UpToDate
    /\ Goto("done")
    /\ UNCHANGED <<built, files>>

\* Copying truncates the file and writes it block by block.  The clock may be too coarse
\* to show it modified after cargo's output.
Copy ==
    /\ pc = "copy"
    /\ ~ UpToDate
    /\ file' = Set(file, Tag, Part(Local(built), 0))
    /\ \E after \in BOOLEAN : newer' = [newer EXCEPT ![Tag] = after]
    /\ Goto("write")
    /\ UNCHANGED <<built, temp>>

Write ==
    /\ pc = "write"
    /\ file' = [file EXCEPT ![Tag].blocks = @ + 1]
    /\ Goto(IF file'[Tag] = Whole(Local(built)) THEN "done" ELSE "write")
    /\ UNCHANGED <<built, temp, newer>>
-----------------------------------------------------------------------------
(* Ending. *)

\* The asset is added to the output; via tells which branch of main() the build took.
Bundle ==
    /\ pc = "done"
    /\ bundled' = [config |-> config, file |-> file[Tag], built |-> built,
                   via |-> IF host /\ (config.local \/ Tag \notin Published)
                           THEN "local" ELSE "release"]
    /\ pc' = "idle"
    /\ UNCHANGED <<config, host, built, files, faults>>

\* An HTTP error, a broken connection: finally deletes what was received.
DownloadFails ==
    /\ Fault
    /\ pc = "receive"
    /\ temp' = Set(temp, Tag, NoFile)
    /\ Throw
    /\ UNCHANGED <<built, file, newer>>

\* The build dies, or a step that has nothing to undo throws: cargo, the list of assets,
\* a full disk.
Crash ==
    /\ Fault
    /\ pc # "idle"
    /\ Throw
    /\ UNCHANGED <<built, files>>

Build ==
    \/ Begin \/ PreferLocal \/ Fetch \/ Fallback \/ NoChoice
    \/ Keep \/ Open \/ Receive \/ Rename \/ Verify \/ Mismatch
    \/ Skip \/ Copy \/ Write \/ Bundle

Next == Configure \/ Build \/ DownloadFails \/ Crash

\* A build that is begun goes on, and after it another is begun.
Spec == Init /\ [][Next]_vars /\ WF_vars(Build)
-----------------------------------------------------------------------------
(* Properties. *)

\* With a checksum configured, what a build takes for the release's asset is the library
\* of that checksum, whatever earlier builds, local or interrupted ones, left there.
ChecksumHolds ==
    bundled.via = "release" /\ bundled.config.checksum # None =>
        bundled.file = Whole(bundled.config.checksum)

\* Of a release no build bundles a part, nor another tag's.
ReleaseWhole ==
    bundled.file.of.kind = "release" => bundled.file = Whole(Release(bundled.config.tag))

\* A local build bundles what cargo has built, and of what earlier builds left neither an
\* earlier version nor a part of anything.  What can pass for cargo's output is a release of
\* just its length, downloaded after it was written.
LocalCurrent ==
    bundled.via = "local" =>
        /\ bundled.file.blocks = Length(Local(bundled.built))
        /\ bundled.file \in {Whole(Local(bundled.built)), Whole(Release(bundled.config.tag))}

\* Once the configuration stays, asks for the release and has its checksum, builds come to
\* bundle that library and nothing else, whatever was in the output directory.
Wants(c) == ~ c.local /\ c.tag \in Published /\ c.checksum = Release(c.tag)
Recovers ==
    \A c \in {c \in Configs : Wants(c)} :
        <>[](config = c) =>
            <>[](bundled.config = c /\ bundled.file = Whole(Release(c.tag)))
=============================================================================
