--------------------------------- MODULE MkFat ---------------------------------
(***************************************************************************)
(* tools/mkfat.py, which builds the FAT16 image of the EFI partition, and  *)
(* the reader tests/media/validate_media.py checks it with.                *)
(*                                                                         *)
(* The image is a function from sectors to what they hold: a piece of the  *)
(* FAT, a piece of a directory, or <<path, k>>, the k-th cluster of a      *)
(* file.  A cluster is one sector (SPC = 1).  A node of the tree is named  *)
(* by its path, the root by the empty one.                                 *)
(***************************************************************************)
EXTENDS Integers, SequencesExt, TLC

CONSTANTS
    SEC,                        \* bytes of a sector: 512
    FatEntry, DirEntry,         \* bytes of a FAT and a directory entry: 2, 32
    RESERVED, NFATS, ROOT_ENTRIES,
    MinClusters, MaxClusters,   \* 4085 and 65524
    Sizes,                      \* total_secs to try
    Names, LongNames,           \* names, and those that do not fit 8.3
    Mappings                    \* lists of files, each with a path and a size

Path == Seq(Names)
Root == << >>

\* No path is given twice or is a directory of another, as in the Makefile.
ASSUME MkFatAssumption ==
    /\ SEC \in Nat /\ SEC % FatEntry = 0 /\ SEC % DirEntry = 0
    /\ (ROOT_ENTRIES * DirEntry) % SEC = 0
    /\ MinClusters \in Nat /\ MaxClusters \in Nat /\ Sizes \subseteq Nat
    /\ LongNames \subseteq Names
    /\ \A m \in Mappings : \A j, k \in DOMAIN m :
         /\ m[k].path \in Path \ {Root} /\ m[k].size \in Nat
         /\ j # k => ~IsPrefix(m[j].path, m[k].path)

VARIABLES
    pc, total_secs, mappings,
    fat_secs, clusters,
    children,      \* dictionary of each directory: names in insertion order
    size,          \* bytes of each file
    next_free, cluster, nclusters,
    todo,          \* paths still to visit, in the order of the recursion
    img

vars == <<pc, total_secs, mappings, fat_secs, clusters, children, size,
          next_free, cluster, nclusters, todo, img>>
tree == <<children, size>>
layout == <<fat_secs, clusters>>
chains == <<next_free, cluster, nclusters>>
input == <<total_secs, mappings>>

CeilDiv(a, b) == (a + b - 1) \div b
ROOT_SECS == (ROOT_ENTRIES * DirEntry) \div SEC

--------------------------------------------------------------------------------
(* The size of the FAT *)

ClustersWith(secs) == total_secs - RESERVED - NFATS * secs - ROOT_SECS

\* Mutant: the two entries that name no cluster are forgotten.
NeedNoReserved(n) == CeilDiv(n * FatEntry, SEC)

Need(n) == CeilDiv((n + 2) * FatEntry, SEC)

\* One turn of the loop.
SizeStep ==
    /\ pc = "size"
    /\ clusters' = ClustersWith(fat_secs)
    /\ IF Need(clusters') <= fat_secs
       THEN /\ pc' = IF clusters' \in MinClusters .. MaxClusters
                     THEN "tree" ELSE "error"
            /\ UNCHANGED fat_secs
       ELSE fat_secs' = Need(clusters') /\ UNCHANGED pc
    /\ UNCHANGED <<input, tree, chains, todo, img>>

data_start == RESERVED + NFATS * fat_secs + ROOT_SECS

--------------------------------------------------------------------------------
(* The tree *)

Dirs == DOMAIN children
Files == DOMAIN size

\* Directories on the way to a path that are not there yet get no children.
WithParents(p) ==
    children @@ [d \in {SubSeq(p, 1, n) : n \in 0 .. (Len(p) - 1)} |-> << >>]

\* setdefault, and the assignment of a file: every name on the way is a key
\* of its parent's dictionary, last if it is new.
Linked(p) ==
    [d \in DOMAIN WithParents(p) |->
       LET old == WithParents(p)[d]
           name == p[Len(d) + 1]
       IN  IF IsStrictPrefix(d, p) /\ ~Contains(old, name)
           THEN Append(old, name) ELSE old]

AddMapping ==
    /\ pc = "tree"
    /\ IF Cardinality(Files) < Len(mappings)
       THEN LET m == mappings[Cardinality(Files) + 1]
            IN  /\ children' = Linked(m.path)
                /\ size' = (m.path :> m.size) @@ size
                /\ UNCHANGED <<pc, todo>>
       ELSE pc' = "assign" /\ todo' = <<Root>> /\ UNCHANGED tree
    /\ UNCHANGED <<input, layout, chains, img>>

--------------------------------------------------------------------------------
(* Clusters *)

ClustersOf(p) ==
    IF p \in Files THEN CeilDiv(size[p], SEC)
    ELSE CeilDiv(DirEntry * (2 + Len(children[p])), SEC)

Below(p) ==
    IF p \in Files THEN << >>
    ELSE [k \in DOMAIN children[p] |-> Append(p, children[p][k])]

\* assign, for the next node of the recursion; alloc included.
Assign ==
    /\ pc = "assign" /\ todo # << >>
    /\ LET p == Head(todo)
           n == IF p = Root THEN 0 ELSE ClustersOf(p)
       IN  /\ nclusters' = (p :> n) @@ nclusters
           /\ cluster' = (p :> IF n = 0 THEN 0 ELSE next_free) @@ cluster
           /\ next_free' = next_free + n
           /\ todo' = Below(p) \o Tail(todo)
    /\ UNCHANGED <<pc, input, layout, tree, img>>

\* Mutant: the number of the next cluster is taken for a count.
FitsTightly == next_free <= clusters

Fits == next_free - 2 <= clusters

AssignDone ==
    /\ pc = "assign" /\ todo = << >>
    /\ IF Fits THEN pc' = "fat" ELSE pc' = "error"
    /\ UNCHANGED <<input, layout, tree, chains, todo, img>>

--------------------------------------------------------------------------------
(* The image *)

EOF == 65535
Chain(p) == cluster[p] .. (cluster[p] + nclusters[p] - 1)

\* Mutant: the last cluster of a chain points to the one after it.
LinkOpen(p, c) == c + 1

Link(p, c) == IF c + 1 \in Chain(p) THEN c + 1 ELSE EOF

\* chain_all
Fat ==
    [c \in 0 .. (clusters + 1) |->
       LET owners == {p \in DOMAIN cluster : c \in Chain(p)}
       IN  CASE c < 2 -> EOF
             [] owners # {} -> Link(CHOOSE p \in owners : TRUE, c)
             [] OTHER -> 0]

\* Write a sequence to consecutive sectors, so many elements to each.
Written(first, seq, per) ==
    [s \in first .. (first + CeilDiv(Len(seq), per) - 1) |->
       SubSeq(seq, (s - first) * per + 1,
              IF (s - first + 1) * per < Len(seq) THEN (s - first + 1) * per
              ELSE Len(seq))] @@ img

FatBlob == [k \in 1 .. (clusters + 2) |-> Fat[k - 1]]

\* Copy n of the FAT.
WriteFat(n) ==
    /\ pc = "fat" /\ Len(todo) = n
    /\ img' = Written(RESERVED + n * fat_secs, FatBlob, SEC \div FatEntry)
    /\ todo' = IF n + 1 < NFATS THEN Append(todo, Root) ELSE <<Root>>
    /\ pc' = IF n + 1 < NFATS THEN "fat" ELSE "render"
    /\ UNCHANGED <<input, layout, tree, chains>>

cluster_off(c) == data_start + (c - 2)

dirent(name, attr, c, n) == [name |-> name, attr |-> attr, cluster |-> c, size |-> n]

\* The entries render writes for a directory.
Entries(p) ==
    (IF p = Root THEN << >>
     ELSE <<dirent(".", "dir", cluster[p], 0),
            dirent("..", "dir", cluster[Front(p)], 0)>>)
    \o [k \in DOMAIN children[p] |->
          LET c == Append(p, children[p][k])
          IN  dirent(Last(c), IF c \in Files THEN "file" ELSE "dir", cluster[c],
                     IF c \in Files THEN size[c] ELSE 0)]

\* name83 raises, or the root directory is full.
RenderError(p) ==
    /\ p \in Dirs
    /\ \/ \E k \in DOMAIN children[p] : children[p][k] \in LongNames
       \/ p = Root /\ Len(children[p]) > ROOT_ENTRIES

\* render, for the next node of the recursion.
Render ==
    /\ pc = "render" /\ todo # << >>
    /\ LET p == Head(todo)
           first == IF p = Root THEN RESERVED + NFATS * fat_secs
                    ELSE cluster_off(cluster[p])
       IN  IF RenderError(p) THEN pc' = "error" /\ UNCHANGED <<todo, img>>
           ELSE /\ img' = IF p \in Dirs
                          THEN Written(first, Entries(p), SEC \div DirEntry)
                          ELSE Written(first, [k \in 1 .. CeilDiv(size[p], SEC) |->
                                                 <<p, k>>], 1)
                /\ todo' = Below(p) \o Tail(todo)
                /\ UNCHANGED pc
    /\ UNCHANGED <<input, layout, tree, chains>>

Finish ==
    /\ pc = "render" /\ todo = << >>
    /\ pc' = "done"
    /\ UNCHANGED <<input, layout, tree, chains, todo, img>>

Init ==
    /\ pc = "size" /\ total_secs \in Sizes /\ mappings \in Mappings
    /\ fat_secs = 1 /\ clusters = 0
    /\ children = (Root :> << >>) /\ size = << >>
    /\ next_free = 2 /\ cluster = << >> /\ nclusters = << >>
    /\ todo = << >> /\ img = << >>

Next ==
    \/ SizeStep \/ AddMapping \/ Assign \/ AssignDone \/ Render \/ Finish
    \/ \E n \in 0 .. (NFATS - 1) : WriteFat(n)

Spec == Init /\ [][Next]_vars

--------------------------------------------------------------------------------
(* validate_media.py: fat16_files *)

SectorAt(s) == IF s \in DOMAIN img THEN img[s] ELSE << >>

\* The entry of a cluster in copy n of the FAT.
next_cluster(n, c) ==
    LET per == SEC \div FatEntry
        piece == SectorAt(RESERVED + n * fat_secs + c \div per)
    IN  IF c \div per < fat_secs /\ (c % per) + 1 \in DOMAIN piece
        THEN piece[(c % per) + 1] ELSE 0

BadChain == dirent("bad chain", "file", 0, 0)

RECURSIVE chain_bytes(_, _)
chain_bytes(c, seen) ==
    IF c = EOF THEN << >>
    ELSE IF c < 2 \/ c \in seen \/ cluster_off(c) >= total_secs THEN <<BadChain>>
    ELSE SectorAt(cluster_off(c)) \o chain_bytes(next_cluster(0, c), seen \union {c})

RECURSIVE read_entries(_, _)
read_entries(blob, prefix) ==
    UNION {LET e == blob[k]
               path == Append(prefix, e.name)
           IN  IF e.name \in {".", ".."} THEN {}
               ELSE IF e.attr = "dir"
               THEN read_entries(chain_bytes(e.cluster, {}), path)
               ELSE {[path |-> path, size |-> e.size,
                      data |-> IF e.size = 0 THEN << >>
                               ELSE chain_bytes(e.cluster, {})]} : k \in DOMAIN blob}

RootBlob ==
    FoldLeft(LAMBDA b, s : b \o SectorAt(s), << >>,
             [k \in 1 .. ROOT_SECS |-> RESERVED + NFATS * fat_secs + k - 1])

fat16_files == read_entries(RootBlob, Root)

--------------------------------------------------------------------------------
(* Properties *)

\* What a file with this path and this many bytes must read as.
Content(p, n) == FlattenSeq([k \in 1 .. CeilDiv(n, SEC) |-> <<<<p, k>>>>])

\* The size is out of range, the contents are too large, or a name does not
\* fit.
Impossible ==
    \/ clusters \notin MinClusters .. MaxClusters
    \/ \E k \in DOMAIN mappings : ToSet(mappings[k].path) \intersect LongNames # {}
    \/ Len(children[Root]) > ROOT_ENTRIES
    \/ clusters <
         MapThenSumSet(LAMBDA p : CeilDiv(size[p], SEC), Files) +
         MapThenSumSet(LAMBDA p : CeilDiv(DirEntry * (2 + Len(children[p])), SEC),
                       Dirs \ {Root})

\* docs/testing.md:83: the walk of the image finds every file that went in,
\* byte for byte, and nothing else; and only an impossible image is refused.
RoundTrip ==
    /\ pc = "done" =>
        fat16_files = {[path |-> mappings[k].path, size |-> mappings[k].size,
                        data |-> Content(mappings[k].path, mappings[k].size)] :
                          k \in DOMAIN mappings}
    /\ pc = "error" => Impossible

\* The reserved sectors, the copies of the FAT, the root directory and the
\* clusters in use do not overlap and end within the image; the copies of
\* the FAT agree.
LayoutSound ==
    pc = "done" =>
        /\ (clusters + 2) * FatEntry <= fat_secs * SEC
        /\ \A s \in DOMAIN img : RESERVED <= s /\ s < total_secs
        /\ \A p, q \in DOMAIN cluster : p # q => Chain(p) \intersect Chain(q) = {}
        /\ \A c \in 0 .. (clusters + 1) : next_cluster(0, c) = next_cluster(1, c)

================================================================================
