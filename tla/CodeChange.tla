------------------------------ MODULE CodeChange ------------------------------
(***************************************************************************)
(* The code change a replay is tagged with (replay_code_change.go): the    *)
(* commit the working tree is compared with, which depends on the branches *)
(* of the repository, and the files that differ from it, read one by one   *)
(* while they may be edited and git may fail.                              *)
(***************************************************************************)
EXTENDS Integers, Sequences, FiniteSets, SequencesExt

CONSTANTS
  Parent,          \* the first parent of each commit, None for the first; no merges
  Repositories,    \* branches, remote branches, HEAD's branch or None, its commit, the branch's
                   \* upstream, a local or remote branch, and origin/HEAD, a remote one, or None
  DefaultNames,    \* <<"main", "master">>
  Modes,           \* CodeChange of the options, with CodeChangeBase for "ref"
  MaxWalk,         \* maxBranchWalk
  Tree,            \* the files of each commit: for each path a content, or None
  WorkingTrees,    \* work: likewise, untracked: paths that are not in the index; contents have
                   \* a text, its size, line ends, what git takes them to be renamed from, and
                   \* their runes (see LooksLikeBinary)
  Handoffs,        \* the files that BITFAB_CODE_CHANGE_PATH hands over, or None if it hands over
                   \* nothing that can be read
  Manual,          \* CodeChangeFiles
  Edits,           \* contents the user may save meanwhile
  MaxFiles, MaxFileBytes, MaxTotal,
  None, Unknown

Commits == DOMAIN Parent
Paths == DOMAIN Tree[CHOOSE c \in Commits : TRUE]

VARIABLES
  repo, mode, handoff,
  work, untracked,   \* the working tree
  stage,             \* begin, list, read or done
  base,              \* the commit to compare with, or None; or Unknown: no such branch
  entries,           \* what git lists, as far as it has not been looked at
  files,             \* what is attached
  measured,          \* the entry whose files have been measured, to be read next
  reliable           \* every git command has succeeded and nothing was saved meanwhile

changeVars == <<repo, mode, handoff, work, untracked, stage, base, entries, files, measured, reliable>>

Init ==
  /\ repo \in Repositories /\ mode \in Modes /\ handoff \in Handoffs
  /\ \E w \in WorkingTrees : work = w.work /\ untracked = w.untracked
  /\ stage = "begin" /\ base = None /\ entries = <<>> /\ files = <<>>
  /\ measured = None /\ reliable = TRUE

------------------------------------------------------------------------------
(* git: refs are <<"heads", name>> and <<"origin", name>>. *)
Tip(ref) == IF ref[1] = "heads" THEN repo.heads[ref[2]] ELSE repo.remotes[ref[2]]
Refs == {<<"heads", n>> : n \in DOMAIN repo.heads} \cup {<<"origin", n>> : n \in DOMAIN repo.remotes}

History(c) ==      \* c and its ancestors, newest first
  LET history[n \in 0..Cardinality(Commits)] ==
        IF n = 0 THEN <<c>>
        ELSE LET h == history[n - 1] IN IF Parent[Last(h)] = None THEN h ELSE Append(h, Parent[Last(h)])
  IN history[Cardinality(Commits)]
MergeBase(c, d) ==
  LET common == SelectSeq(History(c), LAMBDA e : e \in ToSet(History(d)))
  IN  IF common = <<>> THEN None ELSE Head(common)

(* defaultBranchCandidates, resolveDefaultBranch. *)
DefaultBranch ==
  LET named == [i \in DOMAIN DefaultNames |-> <<"origin", DefaultNames[i]>>]
                 \o [i \in DOMAIN DefaultNames |-> <<"heads", DefaultNames[i]>>]
      candidates == (IF repo.originHead = None THEN <<>> ELSE <<<<"origin", repo.originHead>>>>) \o named
      existing == SelectSeq(candidates, LAMBDA ref : ref \in Refs)
  IN  IF existing = <<>> THEN None ELSE Head(existing)

(* currentBranchRefs, ownBranchRefs: HEAD's branch and its remote copies,  *)
(* and what it follows, be that a remote or a local branch.                *)
CurrentBranchRefs == IF repo.branch = None THEN {} ELSE {"heads", "origin"} \X {repo.branch}
NoUpstream == CurrentBranchRefs      \* a mutant: a copy pushed by another name counts as a branch
OwnBranchRefs == CurrentBranchRefs \cup IF repo.upstream = None THEN {} ELSE {repo.upstream}
BranchTips == {Tip(ref) : ref \in Refs \ OwnBranchRefs}

(* resolveBranchPoint: the nearest commit below HEAD that another branch   *)
(* ends at, but none that the default branch has too; else where HEAD      *)
(* split from that.                                                        *)
BranchPoint ==
  LET default == DefaultBranch
      defaultBase == IF default = None THEN None ELSE MergeBase(repo.head, Tip(default))
      walk == SelectSeq(History(repo.head),
                LAMBDA c : defaultBase = None \/ c \notin ToSet(History(defaultBase)))
      last == IF Len(walk) < MaxWalk THEN Len(walk) ELSE MaxWalk
      tips == SelectSeq(SubSeq(walk, 2, last), LAMBDA c : c \in BranchTips)
  IN  IF default # None /\ default \in CurrentBranchRefs THEN None
      ELSE IF tips # <<>> THEN Head(tips)
      ELSE IF defaultBase # repo.head THEN defaultBase ELSE None

(* resolveChosenBase: a branch or commit, or the remote branch.            *)
ChosenBase(name) ==
  LET named == SelectSeq(<<<<"heads", name>>, <<"origin", name>>>>, LAMBDA ref : ref \in Refs)
  IN  IF named = <<>> THEN Unknown ELSE MergeBase(repo.head, Tip(Head(named)))

(* resolveCodeChangeBase. *)
CodeChangeBase ==
  CASE mode.kind = "ref" -> ChosenBase(mode.base)
    [] mode.kind = "last-branch" -> BranchPoint
    [] mode.kind = "default-branch" ->
         IF DefaultBranch = None THEN None ELSE MergeBase(repo.head, Tip(DefaultBranch))
    [] mode.kind = "working-tree" -> repo.head

(* resolveCodeChange, captureCodeChange: "skip" and "manual" need no       *)
(* repository, and with the others files that are handed over, even none,  *)
(* come before what git would say (readCodeChangeOverride).                *)
Given == CASE mode.kind = "skip" -> <<>>
           [] mode.kind = "manual" -> Manual
           [] OTHER -> handoff
Resolve ==
  /\ stage = "begin"
  /\ \/ /\ Given # None
        /\ files' = Given /\ base' = None /\ stage' = "done"
     \/ /\ Given = None
        /\ base' = CodeChangeBase
        /\ stage' = IF CodeChangeBase \in {None, Unknown} THEN "done" ELSE "list"
        /\ UNCHANGED files
  /\ UNCHANGED <<repo, mode, handoff, work, untracked, entries, measured, reliable>>

------------------------------------------------------------------------------
(* git diff --name-status --find-renames -z: a status and one path, or two *)
(* for a rename; of the paths here at most one is like another that went.  *)
Indexed(p) == IF p \in untracked THEN None ELSE work[p]
Renamed(p, q) ==
  /\ Tree[base][p] # None /\ Indexed(p) = None
  /\ Tree[base][q] = None /\ Indexed(q) # None /\ Indexed(q).like = Tree[base][p].like
Status(q) ==
  LET before == Tree[base][q]
      after == Indexed(q)
      from == {p \in Paths : Renamed(p, q)}
  IN  CASE before = after -> <<>>
        [] from # {} -> <<"R", CHOOSE p \in from : TRUE, q>>
        [] before = None /\ from = {} -> <<"A", q>>
        [] after = None -> IF \E p \in Paths : Renamed(q, p) THEN <<>> ELSE <<"D", q>>
        [] OTHER -> <<"M", q>>
NameStatus == FlattenSeq([i \in 1..Cardinality(Paths) |-> Status(SetToSortSeq(Paths, <)[i])])

(* parseGitNameStatus. *)
Entry(status, beforePath, path) == [status |-> status, beforePath |-> beforePath, path |-> path]
ParseGitNameStatus(parts) ==
  LET changes[i \in 1..(Len(parts) + 1)] ==
        IF i + 1 > Len(parts) THEN <<>>
        ELSE IF parts[i] = "R" /\ i + 2 <= Len(parts)
             THEN <<Entry("R", parts[i + 1], parts[i + 2])>> \o changes[i + 3]
             ELSE <<Entry(parts[i], parts[i + 1], parts[i + 1])>> \o changes[i + 2]
  IN changes[1]

(* listCodeChanges: either command may fail, which looks like no change. *)
List ==
  /\ stage = "list" /\ stage' = "read"
  /\ \E tracked, others \in BOOLEAN :
       /\ entries' = (IF tracked THEN ParseGitNameStatus(NameStatus) ELSE <<>>)
                       \o IF ~others THEN <<>>
                          ELSE LET new == SetToSortSeq(untracked, <)
                               IN [i \in DOMAIN new |-> Entry("A", new[i], new[i])]
       /\ reliable' = (reliable /\ tracked /\ others)
  /\ UNCHANGED <<repo, mode, handoff, work, untracked, base, files, measured>>

Size(content) == IF content = None THEN 0 ELSE content.bytes + IF content.crlf THEN 1 ELSE 0
Before(entry) == IF entry.status = "A" THEN None ELSE Tree[base][entry.beforePath]
After(entry) == IF entry.status = "D" THEN None ELSE work[entry.path]

(* captureCodeChangeFromGit, for one entry: measure both files, ...        *)
Measure ==
  /\ stage = "read" /\ measured = None /\ entries # <<>> /\ Len(files) < MaxFiles
  /\ \E known \in BOOLEAN :
       /\ measured' = IF Size(After(Head(entries))) > MaxFileBytes
                         \/ (known /\ Size(Before(Head(entries))) > MaxFileBytes)
                      THEN None ELSE Head(entries)
       /\ reliable' = (reliable /\ known)
  /\ entries' = Tail(entries)
  /\ UNCHANGED <<repo, mode, handoff, work, untracked, stage, base, files>>

(* ... then read them, both with the same line ends, and attach them       *)
(* unless they are equal, seem not to be text or are too much in all. What *)
(* cannot be read is empty.                                                *)
Text(content) ==
  IF content = None THEN [text |-> "", bytes |-> 0, runes |-> "whole"]
  ELSE [text |-> content.text, bytes |-> content.bytes, runes |-> content.runes]
Total == FoldLeft(LAMBDA n, file : n + file.before.bytes + file.after.bytes, 0, files)
FitsTotal(before, after) == Total + before.bytes + after.bytes <= MaxTotal

(* looksLikeBinary asks whether the first 8000 bytes are UTF-8: they are   *)
(* not if the text is none, nor if one of its runes is split by the cut.   *)
LooksLikeBinary(text) == text.runes \in {"none", "split"}

Read ==
  /\ measured # None
  /\ \E known \in BOOLEAN :
       LET before == Text(IF known THEN Before(measured) ELSE None)
           after == Text(After(measured))
       IN  /\ files' = IF \/ before = after \/ ~FitsTotal(before, after)
                          \/ LooksLikeBinary(before) \/ LooksLikeBinary(after)
                       THEN files
                       ELSE Append(files, [path |-> measured.path, before |-> before, after |-> after])
           /\ reliable' = (reliable /\ known)
  /\ measured' = None
  /\ UNCHANGED <<repo, mode, handoff, work, untracked, stage, base, entries>>

End ==
  /\ stage = "read" /\ measured = None /\ (entries = <<>> \/ Len(files) >= MaxFiles)
  /\ stage' = "done"
  /\ UNCHANGED <<repo, mode, handoff, work, untracked, base, entries, files, measured, reliable>>

(* The user saves or deletes a file between two steps. *)
Edit ==
  /\ stage = "read" /\ reliable
  /\ \E p \in Paths, content \in Edits : work[p] # content /\ work' = [work EXCEPT ![p] = content]
  /\ reliable' = FALSE
  /\ UNCHANGED <<repo, mode, handoff, untracked, stage, base, entries, files, measured>>

Next == Resolve \/ List \/ Measure \/ Read \/ End \/ Edit
Spec == Init /\ [][Next]_changeVars

------------------------------------------------------------------------------
(* The commit compared with is an ancestor of HEAD; with "last-branch" it  *)
(* is where another branch ends, or the default one was left, never where  *)
(* the branch itself was pushed to or what it follows, and nothing between it and HEAD has    *)
(* another branch's end; nothing is compared on the default branch itself  *)
(* (CodeChangeLastBranch's comment: "Nothing is attached on the default    *)
(* branch itself").                                                        *)
Elsewhere == {Tip(ref) : ref \in Refs \ {<<"heads", repo.branch>>, <<"origin", repo.branch>>, repo.upstream}}
BaseExact ==
  base \in Commits =>
    /\ base \in ToSet(History(repo.head))
    /\ mode.kind = "last-branch" =>
         /\ base # repo.head
         /\ base \in Elsewhere \/ (DefaultBranch # None /\ base = MergeBase(repo.head, Tip(DefaultBranch)))
         /\ \A c \in ToSet(History(repo.head)) \ ({repo.head} \cup ToSet(History(base))) : c \notin Elsewhere
         /\ DefaultBranch # None => DefaultBranch[2] # repo.branch

(* What the trees differ in, said without git's list: each path with what  *)
(* it was in the base, there perhaps by the name it was renamed from; one  *)
(* that is not tracked is new, even if the base has it, and is gone too.   *)
Source(p) == IF \E q \in Paths : Renamed(q, p) THEN CHOOSE q \in Paths : Renamed(q, p) ELSE p
RenamedAway == {p \in Paths : \E q \in Paths : Renamed(p, q)}
Changes ==
  {[path |-> p, before |-> Tree[base][Source(p)], after |-> Indexed(p)] : p \in Paths \ RenamedAway}
    \cup {[path |-> p, before |-> None, after |-> work[p]] : p \in untracked}
Shown(change) == [path |-> change.path, before |-> Text(change.before), after |-> Text(change.after)]

(* What is captured is within its limits whatever happens meanwhile, and   *)
(* text that differs; if nothing was edited and git did not fail it is a   *)
(* change between the two trees, whole and once, and a change, be it of a  *)
(* tracked, a new or a renamed file, is left out only because it is too    *)
(* large, seems not to be text or is one too many                          *)
(* (captureCodeChangeFromGit). What the user gives is attached as it is.   *)
LimitsKept ==
  /\ Len(files) <= MaxFiles /\ Total <= MaxTotal
  /\ \A i \in DOMAIN files :
       /\ files[i].before # files[i].after
       /\ {files[i].before.runes, files[i].after.runes} = {"whole"}
NothingElse ==
  /\ \A i \in DOMAIN files : \E change \in Changes : files[i] = Shown(change)
  /\ \A i, j \in DOMAIN files : i # j => files[i] # files[j]
NothingMissing ==
  \A change \in Changes :
    LET shown == Shown(change) IN
    \/ shown \in ToSet(files) \/ shown.before = shown.after
    \/ Len(files) = MaxFiles
    \/ {shown.before.runes, shown.after.runes} # {"whole"}
    \/ Size(change.before) > MaxFileBytes \/ Size(change.after) > MaxFileBytes
    \/ Total + shown.before.bytes + shown.after.bytes > MaxTotal
AttachedExact ==
  IF stage # "begin" /\ Given # None THEN files = Given
  ELSE /\ LimitsKept
       /\ reliable /\ base \in Commits => NothingElse /\ (stage = "done" => NothingMissing)

(* The code change a replay is tagged with is the right one, of the right  *)
(* commit (resolveCodeChange).                                             *)
CodeChangeExact == BaseExact /\ AttachedExact
=============================================================================
