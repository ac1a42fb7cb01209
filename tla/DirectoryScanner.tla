-------------------------- MODULE DirectoryScanner --------------------------
(***************************************************************************)
(* FileSystem/DirectoryScanner.m: one scanner over a directory tree that   *)
(* other programs change while it is being scanned.                        *)
(*                                                                         *)
(* A scan is a depth-first walk, one readdir entry per step; frames is the *)
(* recursion stack of _scanSubdirectory.  The snapshot it builds replaces  *)
(* _directories at the end, after a comparison if one was asked for.       *)
(* A path is a sequence of names below the root directory <<>>.  What      *)
(* lstat and the metadata calls return is abstracted to the kind of the    *)
(* item, its node, a modification date and the metadata, which includes    *)
(* the creation date.                                                      *)
(***************************************************************************)
EXTENDS Naturals, FiniteSets, Sequences, SequencesExt

CONSTANTS
    Paths,          \* the paths that may exist, the root <<>> among them
    InitialDisk,    \* what the disk holds at first
    Excludable,     \* paths that an exclusion predicate, or the hidden flag, may exclude
    SystemFiles,    \* paths whose name begins with "._" or ".afpDeleted"
    DotFiles,       \* the other paths whose name begins with a dot
    DSStores,       \* those named ".DS_Store"
    CompareOptions, \* the options that scanAndCompareRootDirectory is given
    ScanMetadata,   \* scanMetadata of the scanner
    MaxScans,       \* bound on the number of scans
    MaxChanges,     \* bound on changes to the disk, the items and the predicate
    MaxFaults       \* bound on failing calls and aborts

Absent == [kind |-> "absent", node |-> 0, mod |-> 0, meta |-> 0]

Nodes == [kind : {"absent", "file", "dir", "special"}, node : Nat, mod : {0, 1}, meta : {0, 1}]

Options == [compare : BOOLEAN, bump : BOOLEAN, detectMoved : BOOLEAN, reportAll : BOOLEAN]

Names == UNION {Range(p) : p \in Paths}

\* Everything above an item is a directory.
IsTree(d) ==
    /\ d[<<>>].kind = "dir"
    /\ \A p, q \in Paths : IsStrictPrefix(q, p) /\ d[p].kind # "absent" => d[q].kind = "dir"

ASSUME ScannerAssumption ==
    /\ CompareOptions \subseteq {o \in Options : o.compare}
    /\ Paths \subseteq Seq(Names) /\ IsFiniteSet(Paths)
    /\ <<>> \in Paths /\ \A p \in Paths : \A n \in 0..Len(p) : SubSeq(p, 1, n) \in Paths
    /\ InitialDisk \in [Paths -> Nodes] /\ IsTree(InitialDisk)
    /\ Excludable \cup SystemFiles \cup DotFiles \subseteq Paths \ {<<>>} /\ DSStores \subseteq DotFiles
    /\ ScanMetadata \in BOOLEAN
    /\ MaxScans \in Nat /\ MaxChanges \in Nat /\ MaxFaults \in Nat

VARIABLES
    disk,           \* what is on the disk now
    excluded,       \* what exclusionPredicate, or the hidden flag, excludes
    hiding,         \* _excludeHidden, _excludeDSStore and _reportHidden
    revision,       \* _revision
    root,           \* _root, or Absent
    directories,    \* _directories: for each directory, its items by path
    at,             \* "idle", "scan" or "finish"
    options,        \* arguments of _scanRootDirectory
    frames,         \* the active calls of _scanSubdirectory
    newRoot, newDirectories, excludedPaths, errorPaths,     \* local variables
    report,         \* the dictionary returned by a scan, until something changes
    touched,        \* history: has anything changed since the last scan started?
    drift,          \* history: may disk and directories differ?
    masked,         \* history: directories whose readdir_r error this scan does not report
    patched,        \* history: those of the last scan, and items updated since
    counts          \* scans, changes and faults so far

itemVars == <<excluded, hiding, revision, root, directories, patched>>
localVars == <<options, newRoot, newDirectories, excludedPaths, masked>>
vars == <<disk, itemVars, at, localVars, frames, errorPaths, report, touched, drift, counts>>

Parent(p) == Front(p)

Children(d) == {p \in Paths \ {<<>>} : Parent(p) = d}

\* Function f with one more argument p.
With(f, p, value) == [q \in DOMAIN f \cup {p} |-> IF q = p THEN value ELSE f[q]]

\* The items of a snapshot, whichever directory they are in.
ItemPaths(dirs) == {p \in Paths \ {<<>>} : Parent(p) \in DOMAIN dirs /\ p \in DOMAIN dirs[Parent(p)]}

Item(dirs, p) == dirs[Parent(p)][p]

\* _CreateDirectoryItemData
NewItem(stats, rev) == [stats |-> stats, revision |-> rev, userInfo |-> "none"]

NoChange == [nil |-> FALSE, added |-> {}, removed |-> {}, modData |-> {}, modMeta |-> {}, moved |-> {},
             excluded |-> {}, errors |-> {}]

NoReport == [NoChange EXCEPT !.nil = TRUE]

Settings == [hidden : BOOLEAN, dsStore : BOOLEAN, report : BOOLEAN]

\* What a scan passes over because of its name, without a look at it ...
LeftOut ==
    SystemFiles \cup {p \in DotFiles : hiding.hidden} \cup {p \in DSStores : hiding.dsStore}

\* ... and, unless hidden items are to be reported, without a word about it.
Unreported == {p \in LeftOut : ~hiding.report}

Unwanted == excluded \cup LeftOut

ScanOptions == [compare |-> FALSE, bump |-> FALSE, detectMoved |-> FALSE, reportAll |-> FALSE]

Init ==
    /\ disk = InitialDisk /\ excluded = {}
    /\ hiding = [hidden |-> FALSE, dsStore |-> FALSE, report |-> FALSE]
    /\ revision = 0 /\ root = Absent /\ directories = <<>>
    /\ at = "idle" /\ options = ScanOptions /\ frames = <<>>
    /\ newRoot = Absent /\ newDirectories = <<>> /\ excludedPaths = {} /\ errorPaths = {}
    /\ report = NoReport
    /\ touched = FALSE /\ drift = TRUE /\ masked = {} /\ patched = {}
    /\ counts = [scans |-> 0, changes |-> 0, faults |-> 0]

\* One more scan, change or fault, within its bound.
Count(what, bound) ==
    /\ counts[what] < bound
    /\ counts' = [counts EXCEPT ![what] = @ + 1]

-----------------------------------------------------------------------------
(***************************************************************************)
(* _scanRootDirectory up to the walk, and its walk.                        *)
(***************************************************************************)

\* The root is gone, or there is nothing to compare with: nil, nothing changes.
ScanRefused ==
    /\ at = "idle"
    /\ report' = NoReport
    /\ UNCHANGED <<disk, itemVars, at, localVars, frames, errorPaths, touched, drift, counts>>

Frame(d, stats) ==
    [dir |-> d, stats |-> stats, todo |-> {c \in Children(d) : disk[c].kind # "absent"},
     items |-> <<>>, result |-> 0]

\* scanRootDirectory that is aborted, or whose opendir fails, at the root: the
\* revision has been reset nevertheless.
StartFails(opt) ==
    /\ at = "idle"
    /\ opt.compare => revision # 0
    /\ Count("faults", MaxFaults)
    /\ revision' = IF opt.compare THEN revision ELSE 1
    /\ report' = NoReport
    /\ UNCHANGED <<disk, excluded, hiding, root, directories, patched, at, localVars, frames,
                   errorPaths, touched, drift>>

\* The root directory is open.
StartScan(opt) ==
    /\ at = "idle"
    /\ opt.compare => revision # 0
    /\ Count("scans", MaxScans)
    /\ at' = "scan" /\ options' = opt
    /\ revision' = IF opt.compare THEN revision ELSE 1
    /\ newRoot' = disk[<<>>]
    /\ newDirectories' = <<>> /\ excludedPaths' = {} /\ errorPaths' = {} /\ masked' = {}
    /\ frames' = <<Frame(<<>>, disk[<<>>])>>
    /\ report' = NoReport
    /\ touched' = FALSE
    /\ UNCHANGED <<disk, excluded, hiding, root, directories, patched, drift>>

Top == Last(frames)

\* The top frame with one entry c dealt with and its items and result replaced.
Advance(c, items, result) ==
    frames' = [frames EXCEPT ![Len(frames)].todo = @ \ {c},
                             ![Len(frames)].items = items,
                             ![Len(frames)].result = result]

\* The error is dropped.
MutantEntryFails(c) ==
    /\ c \notin LeftOut
    /\ \/ disk[c].kind \in {"absent", "special"} /\ UNCHANGED counts
       \/ /\ c \notin excluded
          /\ disk[c].kind = "file" /\ ScanMetadata
          /\ Count("faults", MaxFaults)
    /\ Advance(c, Top.items, Top.result)
    /\ UNCHANGED <<excludedPaths, errorPaths>>

\* An entry that vanished, is neither file, directory nor link, cannot be read, or
\* whose metadata cannot be read.
EntryFails(c) ==
    /\ c \notin LeftOut
    /\ \/ disk[c].kind \in {"absent", "special"} /\ UNCHANGED counts
       \/ /\ c \notin excluded
          /\ disk[c].kind = "file" /\ ScanMetadata
          /\ Count("faults", MaxFaults)
    /\ errorPaths' = errorPaths \cup {c}
    /\ Advance(c, Top.items, Top.result)
    /\ UNCHANGED excludedPaths

\* An entry whose name is left out, whatever it is.
EntryHidden(c) ==
    /\ c \in LeftOut
    /\ excludedPaths' = excludedPaths \cup ({c} \ Unreported)
    /\ Advance(c, Top.items, Top.result)
    /\ UNCHANGED <<errorPaths, counts>>

\* An entry that the predicate, or its hidden flag, excludes.
EntryExcluded(c) ==
    /\ disk[c].kind \in {"file", "dir"} /\ c \in excluded \ LeftOut
    /\ excludedPaths' = excludedPaths \cup {c}
    /\ Advance(c, Top.items, Top.result)
    /\ UNCHANGED <<errorPaths, counts>>

EntryIsFile(c) ==
    /\ disk[c].kind = "file" /\ c \notin Unwanted
    /\ Advance(c, With(Top.items, c, NewItem(disk[c], revision)), Top.result)
    /\ UNCHANGED <<excludedPaths, errorPaths, counts>>

\* A directory: its entries first.  It may fail to open.
EntryIsDirectory(c) ==
    /\ disk[c].kind = "dir" /\ c \notin Unwanted
    /\ \/ /\ frames' = Append([frames EXCEPT ![Len(frames)].todo = @ \ {c}], Frame(c, disk[c]))
          /\ UNCHANGED <<errorPaths, counts>>
       \/ /\ Count("faults", MaxFaults)
          /\ errorPaths' = errorPaths \cup {c}
          /\ Advance(c, Top.items, 0)
    /\ UNCHANGED excludedPaths

VisitEntry ==
    /\ at = "scan"
    /\ \E c \in Top.todo :
          EntryHidden(c) \/ EntryFails(c) \/ EntryExcluded(c) \/ EntryIsFile(c) \/ EntryIsDirectory(c)
    /\ UNCHANGED <<disk, itemVars, at, options, newRoot, newDirectories, masked, report, touched, drift>>

\* The scan returns nil and the snapshot it was building is dropped.
GiveUp ==
    /\ at' = "idle" /\ frames' = <<>>
    /\ options' = ScanOptions /\ newRoot' = Absent
    /\ newDirectories' = <<>> /\ excludedPaths' = {} /\ errorPaths' = {} /\ masked' = {}
    /\ report' = NoReport

\* shouldAbortScanning says yes when a directory is about to be opened.
Abort ==
    /\ at = "scan"
    /\ \E c \in Top.todo : disk[c].kind = "dir" /\ c \notin Unwanted
    /\ Count("faults", MaxFaults)
    /\ GiveUp
    /\ UNCHANGED <<disk, itemVars, touched, drift>>

\* The frames when the top call has returned to its caller, which makes an item of
\* the directory, with what lstat said before the walk, or not.
Popped(result, made) ==
    LET up == Len(frames) - 1
        items == frames[up].items
    IN  [Front(frames) EXCEPT
           ![up].items = IF made THEN With(items, Top.dir, NewItem(Top.stats, revision)) ELSE items,
           ![up].result = result]

\* readdir_r has returned all of the entries.  The item of the directory itself may
\* still fail if its metadata cannot be read.
EndDirectory ==
    /\ at = "scan" /\ Top.todo = {}
    /\ newDirectories' = With(newDirectories, Top.dir, Top.items)
    /\ \/ /\ Len(frames) = 1
          /\ at' = "finish" /\ frames' = <<>>
          /\ UNCHANGED <<errorPaths, counts>>
       \/ /\ Len(frames) > 1
          /\ frames' = Popped(1, TRUE)
          /\ UNCHANGED <<at, errorPaths, counts>>
       \/ /\ Len(frames) > 1 /\ ScanMetadata
          /\ Count("faults", MaxFaults)
          /\ frames' = Popped(1, FALSE)
          /\ errorPaths' = errorPaths \cup {Top.dir}
          /\ UNCHANGED at
    /\ UNCHANGED <<disk, itemVars, options, newRoot, excludedPaths, masked, report, touched, drift>>

\* readdir_r fails: the directory's items are dropped.  What is returned is the
\* result of the last subdirectory, or 0 if there was none; only 0 is an error.
ReaddirFails ==
    /\ at = "scan"
    /\ Count("faults", MaxFaults)
    /\ \/ /\ Top.result = 1
          /\ masked' = masked \cup {Top.dir}
          /\ \/ Len(frames) = 1 /\ at' = "finish" /\ frames' = <<>>
             \/ Len(frames) > 1 /\ frames' = Popped(1, TRUE) /\ UNCHANGED at
          /\ UNCHANGED <<options, newRoot, newDirectories, excludedPaths, errorPaths, report>>
       \/ /\ Top.result = 0 /\ Len(frames) > 1
          /\ frames' = Popped(0, FALSE)
          /\ errorPaths' = errorPaths \cup {Top.dir}
          /\ UNCHANGED <<at, options, newRoot, newDirectories, excludedPaths, masked, report>>
       \/ /\ Top.result = 0 /\ Len(frames) = 1
          /\ GiveUp
    /\ UNCHANGED <<disk, itemVars, touched, drift>>

-----------------------------------------------------------------------------
(***************************************************************************)
(* _CompareDirectories and the end of _scanRootDirectory.                  *)
(***************************************************************************)

\* _ItemContentsWasModified
ContentsWasModified(old, new) ==
    \/ old.stats.kind # new.stats.kind
    \/ new.stats.kind # "dir" /\ old.stats.mod # new.stats.mod

\* _ItemMetadataHasChanged
MetadataHasChanged(old, new) == old.stats.meta # new.stats.meta

\* isEqualToDirectoryItem:compareMetadata: of DirectoryItem
IsEqualToDirectoryItem(old, new) ==
    /\ old.stats.node = new.stats.node
    /\ old.stats.mod = new.stats.mod
    /\ ScanMetadata => old.stats.meta = new.stats.meta /\ old.stats.kind = new.stats.kind

Added(new, old) == ItemPaths(new) \ ItemPaths(old)

\* Items gone from directories that are still there ...
Removed(new, old) == {p \in ItemPaths(old) \ ItemPaths(new) : Parent(p) \in DOMAIN new}

\* Only directories whose parent is still there are looked at.
MutantPruned(new, old) ==
    {p \in ItemPaths(old) : Parent(p) \notin DOMAIN new /\ Parent(Parent(p)) \notin DOMAIN new}

\* ... and those of directories that are not.
Pruned(new, old) == {p \in ItemPaths(old) : Parent(p) \notin DOMAIN new}

ModifiedData(new, old) ==
    {p \in ItemPaths(new) \cap ItemPaths(old) : ContentsWasModified(Item(old, p), Item(new, p))}

ModifiedMetadata(new, old) ==
    {p \in ItemPaths(new) \cap ItemPaths(old) :
        /\ ScanMetadata
        /\ ~ContentsWasModified(Item(old, p), Item(new, p))
        /\ MetadataHasChanged(Item(old, p), Item(new, p))}

\* The pairs that the two nested loops may find between gone and added items: each
\* item once, and no pair left over.  Which ones depends on the order of the arrays.
Matchings(new, old, gone, added) ==
    LET equal == {m \in gone \X added : IsEqualToDirectoryItem(Item(old, m[1]), Item(new, m[2]))}
        apart(m, n) == m[1] # n[1] /\ m[2] # n[2]
    IN  {s \in SUBSET equal :
            /\ \A m, n \in s : m # n => apart(m, n)
            /\ \A m \in equal \ s : \E n \in s : ~apart(m, n)}

\* The dictionaries that _CompareDirectories may return.
CompareDirectories(new, old, opt) ==
    LET added == Added(new, old)
        pruned == Pruned(new, old)
        removed == Removed(new, old) \cup (IF opt.reportAll THEN pruned ELSE {})
        result(m1, m2) ==
            [NoChange EXCEPT
                !.moved = m1 \cup m2,
                !.added = added \ {m[2] : m \in m1 \cup m2},
                !.removed = removed \ {m[1] : m \in m2},
                !.modData = ModifiedData(new, old),
                !.modMeta = ModifiedMetadata(new, old)]
    IN  IF opt.detectMoved
          THEN UNION {{result(m1, m2) :
                         m2 \in Matchings(new, old, removed, added \ {m[2] : m \in m1})} :
                      m1 \in Matchings(new, old, pruned, added)}
          ELSE {result({}, {})}

\* What the comparison writes into the new items: the old user info, and the
\* revision of the last change.
Revised(new, old, rev) ==
    LET changed == Added(new, old) \cup ModifiedData(new, old) \cup ModifiedMetadata(new, old)
    IN  [d \in DOMAIN new |-> [p \in DOMAIN new[d] |->
            [new[d][p] EXCEPT
                !.userInfo = IF p \in ItemPaths(old) THEN Item(old, p).userInfo ELSE @,
                !.revision = IF p \in changed THEN rev ELSE Item(old, p).revision]]]

IsEmpty(r) == r.added = {} /\ r.removed = {} /\ r.modData = {} /\ r.modMeta = {} /\ r.moved = {}

\* The revision is only bumped for items that were added or removed.
MutantNextRevision(r) ==
    IF options.bump /\ r.added \cup r.removed # {} THEN revision + 1 ELSE revision

\* The revision is bumped by every comparison.
MutantAlwaysBumps(r) == IF options.bump THEN revision + 1 ELSE revision

NextRevision(r) == IF options.bump /\ ~IsEmpty(r) THEN revision + 1 ELSE revision

\* The snapshot replaces the last one, compared with it or not.
Finish ==
    /\ at = "finish"
    /\ at' = "idle"
    /\ \/ /\ options.compare
          /\ \E r \in CompareDirectories(newDirectories, directories, options) :
               LET rootChanged == ScanMetadata /\ root # Absent /\ root.meta # newRoot.meta
                   all == IF rootChanged THEN [r EXCEPT !.modMeta = @ \cup {<<>>}] ELSE r
               IN  /\ revision' = NextRevision(all)
                   /\ report' = [all EXCEPT !.excluded = excludedPaths, !.errors = errorPaths]
          /\ directories' = Revised(newDirectories, directories,
                                    IF options.bump THEN revision + 1 ELSE revision)
       \/ /\ ~options.compare
          /\ report' = [NoChange EXCEPT !.excluded = excludedPaths, !.errors = errorPaths]
          /\ directories' = newDirectories
          /\ UNCHANGED revision
    /\ root' = newRoot
    /\ options' = ScanOptions /\ newRoot' = Absent
    /\ newDirectories' = <<>> /\ excludedPaths' = {} /\ errorPaths' = {} /\ masked' = {}
    /\ patched' = masked
    /\ drift' = (touched \/ errorPaths # {} \/ masked # {})
    /\ UNCHANGED <<disk, excluded, hiding, frames, touched, counts>>

-----------------------------------------------------------------------------
(***************************************************************************)
(* Edits of the items between scans.                                       *)
(***************************************************************************)

Edit ==
    /\ at = "idle"
    /\ Count("changes", MaxChanges)
    /\ report' = NoReport /\ touched' = TRUE /\ drift' = TRUE
    /\ UNCHANGED <<disk, revision, root, at, localVars, frames, errorPaths>>

\* updateDirectoryItemAtSubpath: the item is made anew; the entries of a directory
\* are left as they are.
UpdateItem(p) ==
    /\ Edit
    /\ p \in ItemPaths(directories) /\ disk[p].kind # "absent"
    /\ directories' = [directories EXCEPT ![Parent(p)][p] = NewItem(disk[p], revision)]
    /\ patched' = patched \cup {p}
    /\ UNCHANGED <<excluded, hiding>>

\* removeDirectoryItemAtSubpath: likewise.
RemoveItem(p) ==
    /\ Edit
    /\ p \in ItemPaths(directories)
    /\ directories' = [directories EXCEPT ![Parent(p)] = [q \in DOMAIN @ \ {p} |-> @[q]]]
    /\ UNCHANGED <<excluded, hiding, patched>>

\* setUserInfo:forDirectoryItemAtSubpath:
SetUserInfo(p) ==
    /\ at = "idle" /\ p \in ItemPaths(directories)
    /\ Count("changes", MaxChanges)
    /\ directories' = [directories EXCEPT ![Parent(p)][p].userInfo = "info"]
    /\ UNCHANGED <<disk, excluded, hiding, revision, root, patched, at, localVars, frames, errorPaths,
                   report, touched, drift>>

\* setExclusionPredicate:, or the hidden flag with excludeHiddenItems.
SetExclusionPredicate(set) ==
    /\ Edit
    /\ excluded' = set
    /\ UNCHANGED <<hiding, directories, patched>>

\* setExcludeHiddenItems:, setExcludeDSStoreFiles: and setReportExcludedHiddenItems:
SetHiding(setting) ==
    /\ Edit
    /\ hiding' = [hiding EXCEPT ![setting] = ~@]
    /\ UNCHANGED <<excluded, directories, patched>>

-----------------------------------------------------------------------------
(***************************************************************************)
(* Other programs: what they may do to the disk, at any time.              *)
(***************************************************************************)

Change ==
    /\ at # "finish"
    /\ Count("changes", MaxChanges)
    /\ report' = NoReport /\ touched' = TRUE /\ drift' = TRUE
    /\ UNCHANGED <<itemVars, at, localVars, frames, errorPaths>>

\* A file is written, or anything given other metadata.
ChangeItem(p) ==
    /\ Change
    /\ \/ disk[p].kind = "file" /\ disk' = [disk EXCEPT ![p].mod = 1 - @]
       \/ disk[p].kind # "absent" /\ disk' = [disk EXCEPT ![p].meta = 1 - @]

\* A path is created, or replaced together with everything below it; or, if the kind
\* is "absent", deleted.
ReplaceItem(p, kind) ==
    /\ Change
    /\ p # <<>> /\ disk[Parent(p)].kind = "dir" /\ disk[p].kind # kind
    /\ disk' = [q \in Paths |->
                   IF q = p /\ kind # "absent"
                     THEN [kind |-> kind, node |-> Cardinality(Paths) + counts.changes, mod |-> 0, meta |-> 0]
                     ELSE IF IsPrefix(p, q) THEN Absent ELSE disk[q]]

\* A file, or a directory with everything below it, gets another path.
Rename(p, to) ==
    LET below(q) == p \o SubSeq(q, Len(to) + 1, Len(q))
    IN  /\ Change
        /\ p # <<>> /\ disk[p].kind # "absent"
        /\ ~IsPrefix(p, to) /\ disk[to].kind = "absent" /\ disk[Parent(to)].kind = "dir"
        /\ disk' = [q \in Paths |->
                       IF IsPrefix(to, q) /\ below(q) \in Paths THEN disk[below(q)]
                       ELSE IF IsPrefix(p, q) THEN Absent ELSE disk[q]]

-----------------------------------------------------------------------------
Scan ==
    \/ ScanRefused
    \/ \E opt \in {ScanOptions} \cup CompareOptions : StartFails(opt) \/ StartScan(opt)
    \/ VisitEntry \/ Abort \/ EndDirectory \/ ReaddirFails
    \/ Finish

Edits ==
    \/ \E p \in Paths : UpdateItem(p) \/ RemoveItem(p) \/ SetUserInfo(p)
    \/ \E set \in SUBSET Excludable : SetExclusionPredicate(set)
    \/ \E setting \in {"hidden", "dsStore", "report"} : SetHiding(setting)

Environment ==
    \E p \in Paths :
        \/ ChangeItem(p)
        \/ \E kind \in {"absent", "file", "dir", "special"} : ReplaceItem(p, kind)
        \/ \E to \in Paths : Rename(p, to)

Next == Scan \/ Edits \/ Environment

Spec == Init /\ [][Next]_vars

-----------------------------------------------------------------------------
Items == [stats : Nodes, revision : 1..MaxScans + 1, userInfo : {"none", "info"}]

IsSnapshot(dirs) ==
    /\ DOMAIN dirs \subseteq Paths
    /\ \A d \in DOMAIN dirs :
         /\ DOMAIN dirs[d] \subseteq Children(d)
         /\ \A p \in DOMAIN dirs[d] : dirs[d][p] \in Items

\* Types of the disk, the snapshots and the stack of the scan.
TypeOK ==
    /\ disk \in [Paths -> Nodes] /\ excluded \subseteq Paths /\ hiding \in Settings
    /\ revision \in 0..MaxScans + 1
    /\ root \in Nodes /\ newRoot \in Nodes
    /\ IsSnapshot(directories) /\ IsSnapshot(newDirectories)
    /\ at \in {"idle", "scan", "finish"} /\ (at = "scan" <=> frames # <<>>)
    /\ options \in Options
    /\ \A i \in DOMAIN frames :
         /\ frames[i].todo \cup DOMAIN frames[i].items \subseteq Children(frames[i].dir)
         /\ frames[i].result \in {0, 1}
    /\ excludedPaths \cup errorPaths \cup masked \cup patched \subseteq Paths

\* Is p, or a directory above it, in the set?
Below(p, set) == \E q \in set : IsPrefix(q, p)

\* A path of the disk is in the snapshot as it is, or reported, or left out because of
\* its name without a report, or below something that was; nothing unwanted is in the
\* snapshot.
IsAccountedFor(p, excused) ==
    IF p \in ItemPaths(directories)
      THEN Item(directories, p).stats = disk[p] /\ disk[p].kind # "absent" /\ ~Below(p, Unwanted)
      ELSE \/ disk[p].kind = "absent"
           \/ Below(p, report.errors \cup report.excluded \cup Unreported \cup excused)

\* So is every path after a scan, if nothing changed since it began.
Accounts(excused) ==
    at = "idle" /\ ~report.nil /\ ~touched => \A p \in Paths \ {<<>>} : IsAccountedFor(p, excused)

\* subpathsOfRootDirectory follows every directory item into _directories without a
\* test: each has its entries there, but for items that were updated in place and
\* directories whose readdir_r error was hidden.
DirectoryItemsHaveContents ==
    \A p \in ItemPaths(directories) :
        Item(directories, p).stats.kind = "dir" => p \in DOMAIN directories \cup patched

\* A scan that nobody disturbed and that hid no readdir_r error accounts for every
\* path: the snapshot, the error and excluded paths and, unless hidden items are to be
\* reported, the names left out together are the disk.  And every snapshot, of a scan
\* that was disturbed too, can be walked.
ScanIsComplete == Accounts(patched) /\ DirectoryItemsHaveContents

\* "Directories that are not accessible are skipped and reported as errors"
\* (DirectoryScanner.h:87), also when it is readdir_r that fails.
ErrorsAreReported == Accounts({})

\* An item left in _directories when the item of its directory could not be made, or
\* was removed or updated in place; and what is below one.
IsOrphan(dirs, p) ==
    \E q \in ItemPaths(dirs) :
        /\ IsPrefix(q, p) /\ Parent(q) # <<>>
        /\ Parent(q) \in ItemPaths(dirs) => Item(dirs, Parent(q)).stats.kind # "dir"

\* A report of scanAndCompareRootDirectory explains the difference between the two
\* snapshots: none is reported that did not come or go, and none does so unreported
\* or, if only top level removed items are wanted, without a directory above it that
\* is (an orphan has none).
ReportExplainsChanges ==
    [][at = "finish" /\ options.compare =>
         LET old == ItemPaths(directories)
             new == ItemPaths(directories')
             from == {m[1] : m \in report'.moved}
             to == {m[2] : m \in report'.moved}
         IN  /\ report'.added \cup to = new \ old
             /\ report'.removed \cup from \subseteq old \ new
             /\ options.reportAll => old \ new = report'.removed \cup from
             /\ \A p \in old \ new :
                  \/ Below(p, report'.removed \cup from \cup report'.modData \cup masked)
                  \/ IsOrphan(directories, p)]_vars

\* The revision of an item tells when it last changed: a comparison moves it to the
\* scanner's revision for every item it reports, and for no other; the user info of
\* an item that stays is kept.
RevisionsRecordChanges ==
    [][at = "finish" /\ options.compare =>
         \A p \in ItemPaths(directories') :
             LET changed == report'.added \cup report'.modData \cup report'.modMeta
                              \cup {m[2] : m \in report'.moved}
             IN  /\ p \in changed => Item(directories', p).revision = revision'
                 /\ p \notin changed =>
                      Item(directories', p).revision = Item(directories, p).revision
                 /\ p \in ItemPaths(directories) =>
                      Item(directories', p).userInfo = Item(directories, p).userInfo]_vars

\* A comparison when nothing has changed since the last scan, whatever scans failed
\* or were aborted in between, reports nothing and keeps the revision.
QuietRescanReportsNothing ==
    [][at = "finish" /\ options.compare /\ ~drift /\ errorPaths = {} /\ masked = {} =>
         IsEmpty(report') /\ revision' = revision]_vars

=============================================================================
