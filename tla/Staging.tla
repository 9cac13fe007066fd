------------------------------- MODULE Staging -------------------------------
(***************************************************************************)
(* The host files a kitchen file names and their copies in the guest:      *)
(* which sources there are, where each lands and how the guest's copy of   *)
(* the kitchen file refers to it (config/staging.rs); what they expand to  *)
(* and how a stage replaces the last one (sandbox/staging.rs).             *)
(*                                                                         *)
(* The host's files are a function from paths to [kind, bytes].  A glob    *)
(* character makes a component one of Globs.  A pattern of an `exclude` is *)
(* [anchored, path]: a path below the source, or one component anywhere.   *)
(* Modes, ownership and the digest's hashing are left out: the digest is   *)
(* the archive itself.  That several paths share the digest of a directory *)
(* is not: Digests says which.                                             *)
(***************************************************************************)
EXTENDS Kitchen

CONSTANTS
  Globs,     \* the components with glob characters
  Digests,   \* the short hash of each directory's path
  Tracked,   \* what git's index holds, as host paths
  Repos      \* the directories `git ls-files` works in

FilesDir == <<"opt", "kitchen", "files">>

\* Where `source` lands: under `project` if it lies in the project, by the
\* hash of its directory otherwise.
GuestPath(host, kitchenDir) ==
  FilesDir \o
  (IF IsStrictPrefix(kitchenDir, host)
   THEN <<"project">> \o SubSeq(host, Len(kitchenDir) + 1, Len(host))
   ELSE IF host = <<>> THEN <<Digests[<<>>], "root">> ELSE <<Digests[Front(host)], Last(host)>>)

\* split_glob(): the directory a pattern searches, and the pattern.
SplitGlob(path) ==
  LET plain == {n \in 0..Len(path) : \A i \in 1..n : path[i] \notin Globs}
      n == Max(plain)
  IN [host |-> SubSeq(path, 1, n), pattern |-> SubSeq(path, n + 1, Len(path))]

-----------------------------------------------------------------------------
(* The sources an entry names.  An entry is [table, target, value], where  *)
(* value is the source itself (a path as written) or a table; `source` in  *)
(* a table and in its `variants` is a path as written, Junk or Absent.     *)

FileTables == <<"dotfiles", "files", "directories">>

\* A source to be staged, and the key that is to refer to its copy.
Ask(text, slot, exclude, git) ==
  [text |-> text, slot |-> slot, exclude |-> exclude, git |-> git, root |-> FALSE, action |-> "set"]

Requests(e) ==
  IF e.short THEN <<Ask(e.value, <<e.table, e.target>>, <<>>, FALSE)>>
  ELSE IF ~IsTable(e.value) THEN <<>>
  ELSE LET exclude == Elements(Get(e.value, "exclude"))
           git == Get(e.value, "manifest") = "git"
           variants == Elements(Get(e.value, "variants"))
           named == Kept([i \in DOMAIN variants |-> [at |-> i, source |-> Get(variants[i], "source")]],
                         {i \in DOMAIN variants : IsTable(Get(variants[i], "source"))})
       IN (IF IsTable(Get(e.value, "source"))
           THEN <<Ask(e.value.source, <<e.table, e.target, "source">>, exclude, git)>> ELSE <<>>)
          \o [n \in DOMAIN named |->
                Ask(named[n].source, <<e.table, e.target, "variants", ToString(named[n].at)>>, exclude, git)]

\* `manifest = "git"` is applied on the host, so the guest's copy drops it.
Drops(request) == request.git /\ Len(request.slot) = 3

\* Collector::add(), and the rewrites of what it returns.  One copy of a host
\* path named twice: of everything that one of the two leaves in.
Add(c, request, base, kitchenDir) ==
  IF ~Resolvable(request.text) THEN [c EXCEPT !.errors = @ \cup {"dotfiles"}]
  ELSE LET split == SplitGlob(Resolved(request.text, base))
           host == split.host
           guest == GuestPath(host, kitchenDir)
           known == {s \in c.sources : s.host = host}
           rewritten == c.rewrites
             \cup {[slot |-> request.slot, action |-> request.action, to |-> guest, rest |-> split.pattern]}
             \cup (IF Drops(request) THEN {[slot |-> [request.slot EXCEPT ![3] = "manifest"],
                                           action |-> "remove", to |-> <<>>, rest |-> <<>>]} ELSE {})
       IN IF known # {}
          THEN [c EXCEPT !.rewrites = rewritten,
                  !.sources = (@ \ known) \cup
                    {[s EXCEPT !.root = @ \/ request.root,
                               !.exclude = IF @ = request.exclude THEN @ ELSE <<>>,
                               !.git = @ /\ request.git] : s \in known}]
          ELSE IF \E s \in c.sources : s.guest = guest
          THEN [c EXCEPT !.errors = @ \cup {"dotfiles"}]
          ELSE [c EXCEPT !.rewrites = rewritten,
                  !.sources = @ \cup {[host |-> host, guest |-> guest, exclude |-> request.exclude,
                                        git |-> request.git, root |-> request.root]}]

\* collapse_nested(): a source below one that is copied whole is not copied
\* again.  (What covers a source that is itself covered covers both.)
Covers(t, s) == IsStrictPrefix(t.host, s.host) /\ t.exclude = <<>> /\ ~t.git
Collapsed(sources) == {s \in sources : ~\E t \in sources : Covers(t, s)}

\* What the requests add up to, one after the other.
Collected(requests, base, kitchenDir) ==
  LET none == [sources |-> {}, rewrites |-> {}, errors |-> {}]
      upto[n \in 0..Len(requests)] ==
        IF n = 0 THEN none ELSE Add(upto[n - 1], requests[n], base, kitchenDir)
  IN upto[Len(requests)]

Joined(parts) ==
  LET upto[n \in 0..Len(parts)] == IF n = 0 THEN <<>> ELSE upto[n - 1] \o parts[n]
  IN upto[Len(parts)]

RootSlot == <<"settings.dotfiles.root">>

\* The requests of plan(), in its order: `dotfiles` is [_.microkitchen]
\* dotfiles, and wins over the settings.dotfiles.root of the file.
AllRequests(text, dotfiles) ==
  LET entriesOf(table) ==
        Kept(text.entries, {i \in DOMAIN text.entries : text.entries[i].table = table})
      entries == Joined([i \in DOMAIN FileTables |-> entriesOf(FileTables[i])])
      root == IF IsTable(dotfiles) THEN dotfiles ELSE text.root
      roots == IF ~IsTable(root) THEN <<>>
               ELSE <<[Ask(root, RootSlot, <<>>, FALSE) EXCEPT
                         !.root = TRUE, !.action = IF IsTable(dotfiles) THEN "ensure" ELSE "set"]>>
  IN Joined([i \in DOMAIN entries |-> Requests(entries[i])]) \o roots

\* plan()
StagePlan(text, base, kitchenDir, dotfiles) ==
  [Collected(AllRequests(text, dotfiles), base, kitchenDir) EXCEPT !.sources = Collapsed(@)]

-----------------------------------------------------------------------------
(* What the sources expand to on the host now.                             *)

Excluded(rel, patterns) ==
  \E p \in Range(patterns) : IF p.anchored THEN rel = p.path ELSE p.path[1] \in Range(rel)

\* Fault variant: The index is not looked at.
Walked_Untracked(s, tree) ==
  {rel \in {SubSeq(path, Len(s.host) + 1, Len(path)) : path \in {p \in DOMAIN tree : IsPrefix(s.host, p)}} :
     /\ \A n \in 1..Len(rel) : ~Excluded(SubSeq(rel, 1, n), s.exclude)
     /\ tree[s.host \o rel].kind # "device"}

\* collect_dir(): an excluded directory is not entered; git's index tells
\* files apart, not directories; devices and sockets are skipped.
Walked(s, tree) ==
  {rel \in {SubSeq(path, Len(s.host) + 1, Len(path)) : path \in {p \in DOMAIN tree : IsPrefix(s.host, p)}} :
     /\ \A n \in 1..Len(rel) : ~Excluded(SubSeq(rel, 1, n), s.exclude)
     /\ (s.git /\ tree[s.host \o rel].kind # "dir") => (s.host \o rel) \in Tracked
     /\ tree[s.host \o rel].kind # "device"}

\* A source that is missing is left out; a file is copied as it is.
Expanded(s, tree) ==
  IF s.host \notin DOMAIN tree THEN {}
  ELSE IF tree[s.host].kind = "dir" THEN Walked(s, tree) ELSE {<<>>}

\* git_manifest() fails outside of a repository, and with it the plan.
Collectable(sources, tree) ==
  \A s \in sources :
    (s.git /\ s.host \in DOMAIN tree /\ tree[s.host].kind = "dir") =>
      \E repo \in Repos : IsPrefix(repo, s.host)

\* collect(): the archive, a function from guest paths.
Archive(sources, tree) ==
  LET copies == UNION {{[to |-> s.guest \o rel, from |-> s.host \o rel] : rel \in Expanded(s, tree)} :
                         s \in sources}
  IN [to \in {c.to : c \in copies} |-> tree[(CHOOSE c \in copies : c.to = to).from]]

Roots(sources) == {s.guest : s \in sources}

-----------------------------------------------------------------------------
(* apply(): what earlier stages left is removed, then the archive is       *)
(* extracted over what is there.                                           *)

Removable(path) == IsStrictPrefix(FilesDir, path) /\ ".." \notin Range(path)

Without(guest, stale) ==
  [p \in {q \in DOMAIN guest : ~\E s \in stale : Removable(s) /\ IsPrefix(s, q)} |-> guest[p]]
Extracted(guest, archive) ==
  [p \in DOMAIN guest \cup DOMAIN archive |-> IF p \in DOMAIN archive THEN archive[p] ELSE guest[p]]

\* Fault variant: The archive is extracted before the stale paths are removed.
Applied_Late(guest, archive, stale) == Without(Extracted(guest, archive), stale)

Applied(guest, archive, stale) == Extracted(Without(guest, stale), archive)
=============================================================================
