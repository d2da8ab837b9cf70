----------------------------- MODULE MountTable -----------------------------
(***************************************************************************)
(* Mount points, and the mount table that prepare leaves in                *)
(* DiskInfo.Partitions and later stages rebuild: a function from devices   *)
(* to mount points, "" for a partition that is not mounted.                *)
(***************************************************************************)
EXTENDS Naturals, Sequences, FiniteSets, Functions

CONSTANTS
  Paths,    \* where a guest can have a filesystem mounted, "/" among them
  Under,    \* the pairs of them the first of which is on the way to the second
  Length,   \* of a path, in characters
  Depth     \* of a path, in directories

ASSUME PathsAssumption ==
  /\ IsFiniteSet(Paths) /\ {"/", "/boot/efi"} \subseteq Paths /\ {"", "/proc", "scan"} \cap Paths = {}
  /\ Under \subseteq Paths \X Paths /\ Length \in [Paths -> Nat] /\ Depth \in [Paths -> Nat]
  /\ \A p \in Paths \ {"/"} : <<"/", p>> \in Under
  /\ \A p, q \in Paths : <<p, q>> \in Under => Length[p] < Length[q] /\ Depth[p] < Depth[q]

Entry(d, p) == [dev |-> d, at |-> p]

\* The orders of the entries S by a key of their mount points, which is what
\* sort.Slice may return: entries with the same key come in any order.
OrdersBy(key, S) ==
  {s \in [1..Cardinality(S) -> S] :
     /\ Range(s) = S /\ IsInjective(s)
     /\ \A i, j \in DOMAIN s : i < j => key[s[i].at] <= key[s[j].at]}

\* SortSpecs: shortest mount point first, and so parents before children
SortSpecs(S) == OrdersBy(Length, S)

\* updateMountPoint: the partition's entry is overwritten, and a device that
\* is no partition gets an entry of its own.
UpdateMountPoint(table, device, path) ==
  [d \in DOMAIN table \cup {device} |-> IF d = device THEN path ELSE table[d]]

\* WithRootMount: "/" belongs to the root device, and to nobody else unless the
\* table had it right already.
WithRootMount(table, root) ==
  IF root = "" \/ (root \in DOMAIN table /\ table[root] = "/") THEN table
  ELSE UpdateMountPoint([d \in DOMAIN table |-> IF table[d] = "/" THEN "" ELSE table[d]], root, "/")

\* orderMountPlans: what is mounted, shortest mount point first; the order of the
\* disk infos, which decides between equal lengths, is not in the table.
MountEntries(table) == {Entry(d, table[d]) : d \in {e \in DOMAIN table : table[e] # ""}}
Plans(table) == SortSpecs(MountEntries(table))
=============================================================================
