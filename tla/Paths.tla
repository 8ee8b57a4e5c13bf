-------------------------------- MODULE Paths --------------------------------
(***************************************************************************)
(* Paths as src/workspace/worktree.ts and src/sessions/enumerator.ts       *)
(* compare them.  A path is the sequence of its names, and the file system *)
(* (external) gives every one that exists its real path.                   *)
(***************************************************************************)
EXTENDS Naturals, Sequences

CONSTANTS
  Allowlist,  \* config.projectRoots
  RealPath    \* realpathSync: a function on the paths that exist

ASSUME PathAssumption ==
  /\ Allowlist \subseteq Seq(STRING)
  /\ RealPath \in [DOMAIN RealPath -> DOMAIN RealPath]
  /\ \A p \in DOMAIN RealPath : p \in Seq(STRING) /\ RealPath[RealPath[p]] = RealPath[p]

Exists(p) == p \in DOMAIN RealPath

\* p === d || p.startsWith(d + sep), which nothing below the file system's root does.
Within(p, d) == p = d \/ (d # <<>> /\ Len(d) <= Len(p) /\ SubSeq(p, 1, Len(d)) = d)

\* An allowed root that does not resolve is left out.
RealAllowlist == {RealPath[a] : a \in {b \in Allowlist : Exists(b)}}
RootsOf(real) == {a \in RealAllowlist : Within(real, a)}

\* scopeCwd: null, or the path from the longest allowed root above it.
InScope(cwd) == Exists(cwd) /\ RootsOf(RealPath[cwd]) # {}
Redacted(cwd) ==
  LET real == RealPath[cwd]
      root == CHOOSE a \in RootsOf(real) : \A b \in RootsOf(real) : Len(b) <= Len(a)
  IN SubSeq(real, Len(root) + 1, Len(real))
=============================================================================
