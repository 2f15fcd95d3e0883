------------------------------- MODULE Fat16 -------------------------------
(***************************************************************************)
(* The read paths of penguin-fat16: the walk of a directory (dir.c), which *)
(* lookup (inode.c) and getdents share, and read (file.c), on an image of  *)
(* sectors whose addresses super.c and fat16.h compute. The file system is *)
(* read-only, so calls do not disturb each other: one task opens a path,   *)
(* lists a directory or reads a file in as many calls as it likes. In each *)
(* call the read of one sector may fail; a kmalloc that fails makes the    *)
(* call return -ENOMEM and changes nothing.                                *)
(***************************************************************************)
EXTENDS Integers, Sequences, FiniteSets, SequencesExt

CONSTANTS
  bytes_per_sector, sectors_per_cluster, reserved_sectors, FAT_count,
  sectors_per_FAT, root_dir_entries,    \* the fields of the BPB
  DirentSize,     \* sizeof(fat16_direntry_t)
  FatEntrySize,   \* sizeof(u16)
  Disk,           \* the cells of every sector: entries, FAT cells or bytes
  BadSectors,     \* the sectors whose read may fail, and 0 for none: sector 0
                  \* is read at the mount only
  CaseFold,       \* tolower, on the characters of names
  Tree,           \* what the image holds: see TreeAssumption
  Root,           \* the node of Tree for the root directory
  Names,          \* the names looked up
  Rooms,          \* directory entries that fit the buffer of a getdents
  Sizes,          \* the byte counts passed to read(2)
  None

(***************************************************************************)
(* Layout of the image: fat16.h, stored in sbi by fill_super               *)
(***************************************************************************)
fat_start == reserved_sectors
root_dir_start == fat_start + FAT_count * sectors_per_FAT
bytes_per_cluster == bytes_per_sector * sectors_per_cluster
entries_per_sector == bytes_per_sector \div DirentSize
entries_per_cluster == bytes_per_cluster \div DirentSize
root_sectors ==
  (root_dir_entries * DirentSize + bytes_per_sector - 1) \div bytes_per_sector
data_start == root_dir_start + root_sectors

FAT16_FINAL_CLUSTER == 65528

fat16_cluster_sector(cluster) == data_start + (cluster - 2) * sectors_per_cluster

fat16_entry_sector(cs, i) == cs + i \div entries_per_sector

fat16_entry_idx(i) == i % entries_per_sector

ClusterSectors(cluster) ==
  fat16_cluster_sector(cluster) .. fat16_cluster_sector(cluster) + sectors_per_cluster - 1

\* The k-th cell of a cluster that fat16_read_cluster has put together, where
\* a sector has perSector cells.
fat16_read_cluster(cluster, k, perSector) ==
  Disk[fat16_cluster_sector(cluster) + k \div perSector][k % perSector]

ent_per_sec == bytes_per_sector \div FatEntrySize

FatSector(cluster) == fat_start + cluster \div ent_per_sec

fat16_next_cluster(cluster) == Disk[FatSector(cluster)][cluster % ent_per_sec]

(***************************************************************************)
(* For each cluster, the clusters of the chain that starts at it, by their *)
(* place in the chain. The chains of the image end.                        *)
(***************************************************************************)
FatCells == sectors_per_FAT * ent_per_sec

Clusters == 2 .. FatCells - 1

Chain ==
  [start \in Clusters |->
     LET at[n \in 0 .. FatCells] ==
           IF n = 0 THEN start
           ELSE LET cluster == at[n - 1]
                IN  IF cluster >= FAT16_FINAL_CLUSTER THEN cluster
                    ELSE fat16_next_cluster(cluster)
     IN  at]

\* The places of a chain at which it has ended.
Ended(start) == {n \in 0 .. FatCells : Chain[start][n] >= FAT16_FINAL_CLUSTER}

ChainLen == [start \in Clusters |-> Min(Ended(start))]

ASSUME LayoutAssumption ==
  /\ {bytes_per_sector, sectors_per_cluster, reserved_sectors, DirentSize, FatEntrySize}
       \subseteq Nat \ {0}
  /\ {FAT_count, sectors_per_FAT, root_dir_entries} \subseteq Nat
  /\ DirentSize > 1
  /\ bytes_per_sector % DirentSize = 0
  /\ bytes_per_sector % FatEntrySize = 0

ASSUME CallAssumption == Rooms \subseteq Nat /\ Sizes \subseteq Nat

(***************************************************************************)
(* fat16_dir_walk of the directory that begins at the cluster start, or of *)
(* the root if start is 0. Slots are counted through the sectors of the    *)
(* root directory or the clusters of another one. The walk visits the      *)
(* slots below WalkEnd, and fails if it ends at a sector that cannot be    *)
(* read.                                                                   *)
(***************************************************************************)
SlotCount(start) ==
  IF start = 0 THEN root_sectors * entries_per_sector
  ELSE ChainLen[start] * entries_per_cluster

ClusterOf(start, i) == Chain[start][i \div entries_per_cluster]

Entry(start, i) ==
  IF start = 0
  THEN Disk[root_dir_start + i \div entries_per_sector][i % entries_per_sector]
  ELSE fat16_read_cluster(ClusterOf(start, i), i % entries_per_cluster, entries_per_sector)

\* The sector and the place in it that the walk hands to its callback.
EntrySector(start, i) ==
  IF start = 0 THEN root_dir_start + i \div entries_per_sector
  ELSE fat16_entry_sector(fat16_cluster_sector(ClusterOf(start, i)), i % entries_per_cluster)

EntryIdx(start, i) ==
  IF start = 0 THEN i % entries_per_sector ELSE fat16_entry_idx(i % entries_per_cluster)

fat16_de_is_end(de) == de.kind = "end"
fat16_de_is_skip(de) == de.kind = "skip"
fat16_de_is_dir(de) == de.kind = "dir"

\* The first end mark of a directory, or the end of its slots.
DirEnd(start) ==
  Min({SlotCount(start)} \cup
        {i \in 0 .. SlotCount(start) - 1 : fat16_de_is_end(Entry(start, i))})

\* The sectors the walk has read when it looks at slot i.
ReadBefore(start, i) ==
  IF start = 0 THEN root_dir_start .. (root_dir_start + i \div entries_per_sector)
  ELSE LET n == i \div entries_per_cluster
       IN  UNION {ClusterSectors(Chain[start][j]) : j \in 0 .. n}
             \cup {FatSector(Chain[start][j]) : j \in 0 .. n - 1}

\* The sectors read before the walk of a directory without an end mark stops.
ReadInAll(start) ==
  ReadBefore(start, SlotCount(start) - 1)
    \cup IF start = 0 THEN {} ELSE {FatSector(Chain[start][ChainLen[start] - 1])}

WalkEnd(start, bad) ==
  Min({DirEnd(start)} \cup {i \in 0 .. DirEnd(start) - 1 : bad \in ReadBefore(start, i)})

WalkFails(start, bad) ==
  LET end == WalkEnd(start, bad)
  IN  bad \in IF end < SlotCount(start) THEN ReadBefore(start, end) ELSE ReadInAll(start)

Live(start, from, to) == {i \in from .. to - 1 : ~fat16_de_is_skip(Entry(start, i))}

\* The k-th live slot from slot from on.
NthLive(start, from, to, k) ==
  CHOOSE i \in Live(start, from, to) : Cardinality(Live(start, from, i)) = k - 1

(***************************************************************************)
(* Names: a stem and an extension, padded with blanks                      *)
(***************************************************************************)
Unpadded(chars) ==
  LET blank == SelectInSeq(chars, LAMBDA c : c = " ")
  IN  IF blank = 0 THEN chars ELSE SubSeq(chars, 1, blank - 1)

fat16_83_to_str(de) ==
  Unpadded(de.stem) \o IF Head(de.ext) = " " THEN <<>> ELSE <<".">> \o Unpadded(de.ext)

strncasecmp_equal(s, t) ==
  Len(s) = Len(t) /\ \A k \in 1 .. Len(s) : CaseFold[s[k]] = CaseFold[t[k]]

Dots == <<<<".">>, <<".", ".">>>>

(***************************************************************************)
(* What it means that the image holds Tree. A node is a file, or a         *)
(* directory with its first cluster, the names of its live entries in the  *)
(* order of the image and the nodes that they lead to.                     *)
(***************************************************************************)
Dirs == {n \in DOMAIN Tree : Tree[n].dir}

Slots(d) == Live(Tree[d].start, 0, DirEnd(Tree[d].start))

SlotName(d, i) == fat16_83_to_str(Entry(Tree[d].start, i))

\* Every node but the root is in one directory under one name.
ASSUME TreeAssumption ==
  /\ Root \in Dirs
  /\ \A n \in DOMAIN Tree : Tree[n].dir \in BOOLEAN
  /\ \A d \in Dirs : /\ Tree[d].names \in Seq(DOMAIN Tree[d].children \cup Range(Dots))
                      /\ \A name \in DOMAIN Tree[d].children :
                           Tree[d].children[name] \in DOMAIN Tree \ {Root}
  /\ \A d, e \in Dirs :
       \A m \in DOMAIN Tree[d].children, n \in DOMAIN Tree[e].children :
         Tree[d].children[m] = Tree[e].children[n] => d = e /\ m = n

\* The VFS resolves "." and ".." itself.
ASSUME NamesAssumption ==
  \A name \in Names, dot \in Range(Dots) : ~strncasecmp_equal(dot, name)

\* Chains end, and no cluster is in the chains of two directories or twice in
\* the chain of one.
ASSUME ChainAssumption ==
  /\ Tree[Root].start = 0
  /\ \A d \in Dirs \ {Root} :
       /\ Tree[d].start \in Clusters
       /\ Ended(Tree[d].start) # {}
       /\ \A j \in 0 .. ChainLen[Tree[d].start] - 1 : Chain[Tree[d].start][j] \in Clusters
  /\ \A d, e \in Dirs \ {Root} :
       \A j \in 0 .. ChainLen[Tree[d].start] - 1, k \in 0 .. ChainLen[Tree[e].start] - 1 :
         Chain[Tree[d].start][j] = Chain[Tree[e].start][k] => d = e /\ j = k

\* The bytes of a file lie along its chain, a sector's worth in each sector.
HoldsContent(de, content) ==
  /\ content \in Seq(Range(content))
  /\ de.size = Len(content)
  /\ \A k \in 0 .. de.size - 1 :
       content[k + 1] =
         Disk[fat16_cluster_sector(Chain[de.start][k \div bytes_per_cluster])
                + (k % bytes_per_cluster) \div bytes_per_sector][k % bytes_per_sector]

\* The entry that leads to a node tells what it is and where it is.
LeadsTo(de, n) ==
  /\ fat16_de_is_dir(de) = Tree[n].dir
  /\ IF Tree[n].dir THEN de.start = Tree[n].start ELSE HoldsContent(de, Tree[n].content)

ASSUME ImageAssumption ==
  \A d \in Dirs :
    /\ Len(Tree[d].names) = Cardinality(Slots(d))
    /\ \A i \in Slots(d) :
         /\ Tree[d].names[Cardinality(Live(Tree[d].start, 0, i)) + 1] = SlotName(d, i)
         /\ Entry(Tree[d].start, i).size \in Nat
         /\ SlotName(d, i) \in DOMAIN Tree[d].children =>
              LeadsTo(Entry(Tree[d].start, i), Tree[d].children[SlotName(d, i)])
    /\ \A name \in DOMAIN Tree[d].children : \E i \in Slots(d) : SlotName(d, i) = name
    /\ \A i, j \in Slots(d) : strncasecmp_equal(SlotName(d, i), SlotName(d, j)) => i = j

VARIABLES
  inode,    \* the open inode: i_ino and what i_private holds
  pos,      \* the position of the open file: ctx->pos, or ki_pos
  out,      \* the names or bytes returned since the last open or rewind
  node,     \* the node of Tree that the path leads to
  held,     \* another open file, by its node and i_ino, or None
  dentry    \* the dentry that the last lookup left in the cache, or None

vars == <<inode, pos, out, node, held, dentry>>

penguin_fat16_get_root_inode ==
  [ino |-> 1, start_cluster |-> 0, file_size |-> 0, dir |-> TRUE]

Init ==
  /\ inode = penguin_fat16_get_root_inode
  /\ pos = 0
  /\ out = <<>>
  /\ node = Root
  /\ held = None
  /\ dentry = None

OpenRoot ==
  /\ inode' = penguin_fat16_get_root_inode
  /\ pos' = 0
  /\ out' = <<>>
  /\ node' = Root
  /\ dentry' = None
  /\ UNCHANGED held

\* A second descriptor keeps what is open now open.
Hold ==
  /\ held' = <<node, inode.ino>>
  /\ UNCHANGED <<inode, pos, out, node, dentry>>

(***************************************************************************)
(* penguin_fat16_lookup. "." and ".." are resolved by the VFS.             *)
(***************************************************************************)
fat16_make_ino_NoSector(sector, entry_index) == entry_index * DirentSize

fat16_make_ino(sector, entry_index) == sector * bytes_per_sector + entry_index * DirentSize

MakeIno(start, i) == fat16_make_ino(EntrySector(start, i), EntryIdx(start, i))

penguin_fat16_iget(start, i) ==
  [ino |-> MakeIno(start, i), start_cluster |-> Entry(start, i).start,
   file_size |-> Entry(start, i).size, dir |-> fat16_de_is_dir(Entry(start, i))]

Matches(name, bad) ==
  LET start == inode.start_cluster
  IN  {i \in Live(start, 0, WalkEnd(start, bad)) :
         strncasecmp_equal(fat16_83_to_str(Entry(start, i)), name)}

Child(name) ==
  LET found == {n \in DOMAIN Tree[node].children : strncasecmp_equal(n, name)}
  IN  IF found = {} THEN None ELSE Tree[node].children[CHOOSE n \in found : TRUE]

(***************************************************************************)
(* The dcache, as lookup uses it. A new dentry of the VFS has no inode and *)
(* is in no hash chain; d_splice_alias gives it the inode and hashes it,   *)
(* and d_add without an inode hashes it, whatever it has.                  *)
(***************************************************************************)
Dentry(dir, name, positive, hashed) ==
  [dir |-> dir, name |-> name, positive |-> positive, hashed |-> hashed]

d_alloc(name) == Dentry(node, name, FALSE, 0)

d_splice_alias(d) == Dentry(d.dir, d.name, TRUE, d.hashed + 1)

d_add(d) == Dentry(d.dir, d.name, d.positive, d.hashed + 1)

\* The inode is new and has no other dentry, so d_splice_alias returns NULL,
\* which lookup takes for a name that was not found: it calls d_add as well,
\* and the dentry, with its inode, is hashed twice.
LookupFound(name, bad) ==
  /\ inode.dir
  /\ Matches(name, bad) # {}
  /\ inode' = penguin_fat16_iget(inode.start_cluster, Min(Matches(name, bad)))
  /\ dentry' = d_add(d_splice_alias(d_alloc(name)))
  /\ pos' = 0
  /\ out' = <<>>
  /\ node' = Child(name)
  /\ UNCHANGED held

LookupAbsent_IgnoreError(name, bad) ==
  /\ inode.dir
  /\ Matches(name, bad) = {}
  /\ dentry' = d_add(d_alloc(name))
  /\ UNCHANGED <<inode, pos, out, node, held>>

\* A negative dentry is added, and open(2) reports -ENOENT.
LookupAbsent(name, bad) ==
  /\ inode.dir
  /\ Matches(name, bad) = {}
  /\ ~WalkFails(inode.start_cluster, bad)
  /\ dentry' = d_add(d_alloc(name))
  /\ UNCHANGED <<inode, pos, out, node, held>>

LookupError(name, bad) ==
  /\ inode.dir
  /\ Matches(name, bad) = {}
  /\ WalkFails(inode.start_cluster, bad)
  /\ UNCHANGED vars

(***************************************************************************)
(* penguin_fat16_iterate_shared: dir_emit_dots, then the entries from slot *)
(* start_idx on. ctx->pos counts the slots dealt with, skipped ones too,   *)
(* so that the next call resumes at the entry that did not fit.            *)
(***************************************************************************)
\* The slot at which the walk stops: full buffer, or end of the walk.
Resume(start, start_idx, left, end) ==
  IF Cardinality(Live(start, start_idx, end)) > left
  THEN NthLive(start, start_idx, end, left + 1)
  ELSE IF end > start_idx THEN end ELSE start_idx

PosAfter_LiveOnly(start_idx, stop) ==
  2 + start_idx + Cardinality(Live(inode.start_cluster, start_idx, stop))

\* ctx->pos is one up for each slot from start_idx on, emitted or skipped.
PosAfter(start_idx, stop) == 2 + stop

IterateDots(room) ==
  /\ inode.dir
  /\ room < 2 - pos
  /\ out' = out \o SubSeq(Dots, pos + 1, pos + room)
  /\ pos' = pos + room
  /\ UNCHANGED <<inode, node, held, dentry>>

Iterate(room, bad) ==
  LET start     == inode.start_cluster
      dots      == IF pos < 2 THEN SubSeq(Dots, pos + 1, 2) ELSE <<>>
      left      == room - Len(dots)
      start_idx == pos + Len(dots) - 2
      stop      == Resume(start, start_idx, left, WalkEnd(start, bad))
  IN  /\ inode.dir
      /\ room >= Len(dots)
      /\ out' = out \o dots \o
                  [k \in 1 .. Cardinality(Live(start, start_idx, stop)) |->
                     fat16_83_to_str(Entry(start, NthLive(start, start_idx, stop, k)))]
      /\ pos' = PosAfter(start_idx, stop)
      /\ UNCHANGED <<inode, node, held, dentry>>

\* lseek to the start, of a directory or a file.
Rewind ==
  /\ pos' = 0
  /\ out' = <<>>
  /\ UNCHANGED <<inode, node, held, dentry>>

(***************************************************************************)
(* penguin_fat16_read_iter: clusters are copied from the first one on,     *)
(* until the request, the file or the chain ends.                          *)
(***************************************************************************)
Requested(size) ==
  IF size > inode.file_size - pos THEN inode.file_size - pos ELSE size

ReadSectors(bytes) ==
  LET at == Chain[inode.start_cluster]
      clusters == 0 .. (bytes + bytes_per_cluster - 1) \div bytes_per_cluster - 1
  IN  UNION {ClusterSectors(at[n]) \cup {FatSector(at[n])} : n \in clusters}

FileByte_SameCluster(k) ==
  fat16_read_cluster(inode.start_cluster, k % bytes_per_cluster, bytes_per_sector)

FileByte(k) ==
  fat16_read_cluster(Chain[inode.start_cluster][k \div bytes_per_cluster],
                     k % bytes_per_cluster, bytes_per_sector)

Read_PosBySize(size, bad) ==
  /\ ~inode.dir
  /\ bad \notin ReadSectors(Requested(size))
  /\ out' = out \o [k \in 1 .. Requested(size) |-> FileByte(k - 1)]
  /\ pos' = pos + size
  /\ UNCHANGED <<inode, node, held, dentry>>

Read(size, bad) ==
  /\ ~inode.dir
  /\ bad \notin ReadSectors(Requested(size))
  /\ out' = out \o [k \in 1 .. Requested(size) |-> FileByte(k - 1)]
  /\ pos' = pos + Requested(size)
  /\ UNCHANGED <<inode, node, held, dentry>>

\* -EIO: what was copied before the error is not counted.
ReadError(size, bad) ==
  /\ ~inode.dir
  /\ bad \in ReadSectors(Requested(size))
  /\ UNCHANGED vars

Next ==
  \/ OpenRoot
  \/ Hold
  \/ Rewind
  \/ \E room \in Rooms : IterateDots(room)
  \/ \E bad \in BadSectors :
       \/ \E name \in Names : \/ LookupFound(name, bad)
                              \/ LookupAbsent(name, bad)
                              \/ LookupError(name, bad)
       \/ \E room \in Rooms : Iterate(room, bad)
       \/ \E size \in Sizes : Read(size, bad) \/ ReadError(size, bad)

Spec == Init /\ [][Next]_vars
-----------------------------------------------------------------------------
(***************************************************************************)
(* Every variable has its type, and reading never moves past the end of a  *)
(* file nor past the slots of a directory.                                 *)
(***************************************************************************)
TypeOK ==
  /\ inode.ino \in Nat /\ inode.dir \in BOOLEAN
  /\ pos \in 0 .. IF inode.dir THEN SlotCount(inode.start_cluster) + 2 ELSE inode.file_size
  /\ node \in DOMAIN Tree /\ inode.dir = Tree[node].dir
  /\ dentry \in {None} \cup
       [dir : DOMAIN Tree, name : Names, positive : BOOLEAN, hashed : 1 .. 2]

(***************************************************************************)
(* A directory read in any number of getdents calls, with buffers of any   *)
(* size and calls cut short by I/O errors, yields "." and ".." and then    *)
(* every live entry once, in the order of the image: none twice, none left *)
(* out when a call resumes behind deleted entries, none from behind the    *)
(* end mark.                                                               *)
(***************************************************************************)
ListsDirectory ==
  inode.dir => /\ IsPrefix(out, Dots \o Tree[node].names)
               /\ pos = DirEnd(inode.start_cluster) + 2 => out = Dots \o Tree[node].names

(***************************************************************************)
(* The dentry that a lookup leaves agrees with the directory, whatever the *)
(* case of the name: it has an inode exactly if an entry has that name. In *)
(* particular no existing name is cached as absent, not even when a sector *)
(* cannot be read (a negative dentry would outlive the error).             *)
(***************************************************************************)
DentryAgrees ==
  dentry # None =>
    (dentry.positive <=>
       \E name \in DOMAIN Tree[dentry.dir].children : strncasecmp_equal(name, dentry.name))

(***************************************************************************)
(* "inode numbers are unique between root and subdir entries" (a test of   *)
(* utests/fat16.bats): two open files have the same i_ino exactly if they  *)
(* are the same file, whatever directories make_ino numbered them in.      *)
(***************************************************************************)
InoUnique ==
  held # None => (held[1] = node <=> held[2] = inode.ino)

(***************************************************************************)
(* A read at the start of a file returns its first bytes, across clusters  *)
(* that do not follow each other on the disk, and no slack behind its end. *)
(***************************************************************************)
ReadFromStart ==
  [][pos = 0 /\ pos' # 0 /\ ~inode.dir => IsPrefix(out', Tree[node].content)]_vars

(***************************************************************************)
(* "reading BIG.BIN matches original bytes" (a test of utests/fat16.bats): *)
(* what consecutive reads return is the file.                              *)
(***************************************************************************)
ReadMatches == ~inode.dir => IsPrefix(out, Tree[node].content)
=============================================================================
