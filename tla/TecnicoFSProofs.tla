--------------------------- MODULE TecnicoFSProofs ---------------------------
(***************************************************************************)
(* Proofs about TecnicoFS, for tables of any size: types, the agreement of *)
(* directory and inodes, blocks with one owner, handles within their file, *)
(* and no block lost but through a handle that outlived its file.  All of  *)
(* it holds of TecnicoFSData too, which implements FileStore.              *)
(***************************************************************************)
EXTENDS TecnicoFSData, TLAPS, SequenceTheorems

(* Every table has a first entry where its size is not 0.                  *)
LEMMA RootInTables == ROOT_DIR_INUM \in Inodes /\ 0 \in Blocks
BY ParamsAssumption DEF ROOT_DIR_INUM, Inodes, Blocks

(* A new handle leads to an inode, at an offset a file can have.           *)
LEMMA OpenType ==
  ASSUME TypeOK, NEW i \in Inodes, NEW offset \in 0 .. BlockSize, AddToOpenFileTable(i, offset)
  PROVE  /\ handles' \subseteq Handles /\ handles \subseteq handles'
         /\ of_inumber' \in [Handles -> Inodes]
         /\ of_offset' \in [Handles -> 0 .. MaxOffset]
<1>1. offset \in 0 .. MaxOffset
  BY ParamsAssumption
<1> QED
  BY <1>1 DEF TypeOK, AddToOpenFileTable, openFiles

(* What tfs_write writes ends in the block.                                *)
LEMMA FitsType ==
  ASSUME TypeOK, NEW h \in Handles, NEW len \in 1 .. BlockSize, Fits(h, len) > 0
  PROVE  of_offset[h] + Fits(h, len) \in 0 .. BlockSize
<1>1. of_offset[h] \in Nat /\ BlockSize \in Nat
  BY ParamsAssumption DEF TypeOK
<1> QED
  BY <1>1 DEF Fits

(* Every variable keeps its type.                                          *)
LEMMA TypeStep == TypeOK /\ [Next]_vars => TypeOK'
<1> SUFFICES ASSUME TypeOK, [Next]_vars PROVE TypeOK'
  OBVIOUS
<1>p. BlockSize \in Nat /\ MaxOffset \in Nat /\ BlockSize <= MaxOffset
  BY ParamsAssumption
<1>1. CASE tfs_init
  BY <1>1, <1>p, RootInTables DEF tfs_init, TypeOK, openFiles
<1>2. CASE tfs_destroy
  BY <1>2, <1>p, RootInTables DEF tfs_destroy, TypeOK
<1>3. ASSUME NEW n \in Names, NEW mode \in Modes, OpenFile(n, mode) PROVE TypeOK'
  <2>1. PICK e \in DirEntries :
          /\ FindInDir(e, n)
          /\ AddToOpenFileTable(d_inumber[e], StartOffset(d_inumber[e], mode))
          /\ \/ /\ blocks' = BlocksWithout(d_inumber[e])
                /\ i_size' = [i_size EXCEPT ![d_inumber[e]] = 0]
                /\ stale' = stale \cup {h \in OpenHandles(d_inumber[e]) : of_offset[h] > 0}
             \/ UNCHANGED <<blocks, i_size, stale>>
    BY <1>3 DEF OpenFile
  <2>2. d_inumber[e] \in Inodes
    BY <2>1 DEF FindInDir, First, Linked, TypeOK
  <2>3. StartOffset(d_inumber[e], mode) \in 0 .. BlockSize
    BY <2>2, <1>p DEF StartOffset, TypeOK
  <2>4. /\ handles' \subseteq Handles /\ handles \subseteq handles'
        /\ of_inumber' \in [Handles -> Inodes]
        /\ of_offset' \in [Handles -> 0 .. MaxOffset]
    BY <2>1, <2>2, <2>3, OpenType
  <2>5. blocks' \subseteq Blocks /\ i_size' \in [Inodes -> 0 .. BlockSize]
    BY <2>1, <2>2, <1>p DEF TypeOK, BlocksWithout
  <2>6. stale' \subseteq handles'
    BY <2>1, <2>4 DEF TypeOK, OpenHandles
  <2> QED
    BY <1>3, <2>4, <2>5, <2>6 DEF OpenFile, Up, TypeOK, directory
<1>4. ASSUME NEW n \in Names, NEW mode \in Modes, CreateFile(n, mode) PROVE TypeOK'
  <2>1. PICK i \in Inodes :
          /\ CreateInode(i)
          /\ \/ UNCHANGED <<inodes, directory, openFiles>>
             \/ AddDirEntry(n, i) /\ inodes' = inodes \cup {i} /\ AddToOpenFileTable(i, 0)
    BY <1>4 DEF CreateFile
  <2>2. i_size' \in [Inodes -> 0 .. BlockSize] /\ i_data_block' \in [Inodes -> Blocks \cup {None}]
    BY <2>1, <1>p DEF CreateInode, TypeOK
  <2>3. /\ inodes' \subseteq Inodes
        /\ d_inumber' \in [DirEntries -> Inodes \cup {None}]
        /\ d_name' \in [DirEntries -> Names \cup {NoName}]
    BY <2>1 DEF AddDirEntry, TypeOK, directory
  <2>4. /\ handles' \subseteq Handles /\ handles \subseteq handles'
        /\ of_inumber' \in [Handles -> Inodes]
        /\ of_offset' \in [Handles -> 0 .. MaxOffset]
    <3>1. CASE UNCHANGED openFiles
      BY <3>1 DEF openFiles, TypeOK
    <3>2. CASE AddToOpenFileTable(i, 0)
      BY <3>2, <1>p, OpenType
    <3> QED
      BY <2>1, <3>1, <3>2
  <2> QED
    BY <1>4, <2>2, <2>3, <2>4 DEF CreateFile, Up, TypeOK
<1>5. ASSUME NEW h \in Handles, tfs_close(h) PROVE TypeOK'
  BY <1>5 DEF tfs_close, Up, TypeOK, inodeTable, directory
<1>6. ASSUME NEW h \in Handles, NEW len \in 1 .. BlockSize, tfs_write(h, len) PROVE TypeOK'
  <2>1. CASE Abort
    BY <2>1 DEF Abort, TypeOK, inodeTable, directory, openFiles
  <2>2. CASE Fits(h, len) > 0 /\ ~Abort
    <3>1. of_inumber[h] \in Inodes
      BY DEF TypeOK
    <3>2. of_offset[h] + Fits(h, len) \in 0 .. BlockSize
      BY <2>2, FitsType
    <3>3. blocks' \subseteq Blocks /\ i_data_block' \in [Inodes -> Blocks \cup {None}]
      BY <1>6, <2>2, <3>1 DEF tfs_write, AllocBlock, TypeOK
    <3>4. i_size' = [i_size EXCEPT ![of_inumber[h]] =
                       IF of_offset[h] + Fits(h, len) > @ THEN of_offset[h] + Fits(h, len) ELSE @]
      BY <1>6, <2>2 DEF tfs_write
    <3>5. i_size' \in [Inodes -> 0 .. BlockSize]
      BY <3>1, <3>2, <3>4 DEF TypeOK
    <3>6. of_offset' \in [Handles -> 0 .. MaxOffset]
      <4>1. of_offset[h] + Fits(h, len) \in 0 .. MaxOffset
        BY <3>2, <1>p
      <4>2. of_offset' = [of_offset EXCEPT ![h] = of_offset[h] + Fits(h, len)]
        BY <1>6, <2>2 DEF tfs_write
      <4> QED
        BY <4>1, <4>2 DEF TypeOK
    <3> QED
      BY <1>6, <2>2, <3>3, <3>5, <3>6 DEF tfs_write, TypeOK, directory
  <2> QED
    BY <1>6, <2>1, <2>2 DEF tfs_write
<1>7. ASSUME NEW h \in Handles, NEW len \in 1 .. BlockSize, tfs_read(h, len) PROVE TypeOK'
  <2>1. CASE Abort
    BY <2>1 DEF Abort, TypeOK, inodeTable, directory, openFiles
  <2>2. CASE ~Abort
    <3>1. /\ ToRead(h, len) > 0
          /\ of_offset[h] + ToRead(h, len) <= MaxOffset
          /\ of_offset' = [of_offset EXCEPT ![h] = of_offset[h] + ToRead(h, len)]
      BY <1>7, <2>2 DEF tfs_read
    <3>2. ToRead(h, len) \in Int /\ of_offset[h] \in Nat
      BY <1>p DEF ToRead, TypeOK
    <3>3. of_offset[h] + ToRead(h, len) \in 0 .. MaxOffset
      BY <3>1, <3>2, <1>p
    <3> QED
      BY <1>7, <2>2, <3>1, <3>3 DEF tfs_read, TypeOK, inodeTable, directory
  <2> QED
    BY <2>1, <2>2
<1>8. ASSUME NEW n \in Names, tfs_unlink(n) PROVE TypeOK'
  <2>1. /\ inodes' \subseteq Inodes /\ blocks' \subseteq Blocks
        /\ stale' \subseteq handles
    BY <1>8 DEF tfs_unlink, DeleteInode, BlocksWithout, OpenHandles, TypeOK
  <2>2. d_inumber' \in [DirEntries -> Inodes \cup {None}] /\ d_name' \in [DirEntries -> Names \cup {NoName}]
    BY <1>8 DEF tfs_unlink, ClearDirEntry, TypeOK
  <2> QED
    BY <1>8, <2>1, <2>2 DEF tfs_unlink, Up, DeleteInode, TypeOK, openFiles
<1>9. CASE UNCHANGED vars
  BY <1>9 DEF vars, TypeOK, inodeTable, directory, openFiles
<1> QED
  BY <1>1, <1>2, <1>3, <1>4, <1>5, <1>6, <1>7, <1>8, <1>9 DEF Next

(* Type correctness, for tables, blocks and directories of any size.       *)
THEOREM TypeCorrect == Spec => []TypeOK
<1>1. Init => TypeOK
  BY ParamsAssumption, RootInTables DEF Init, TypeOK
<1> QED
  BY <1>1, TypeStep, PTL DEF Spec
-----------------------------------------------------------------------------
(* DirectoryMatchesInodes is not inductive: an unlink clears the entry it  *)
(* looked up only because an unused entry below a used one never has its   *)
(* name, whatever malloc left there, which add_dir_entry ensures by taking *)
(* the first unused entry.                                                 *)
UsedLeadToFiles == \A e \in Used : d_inumber[e] \in inodes \ {ROOT_DIR_INUM} /\ d_name[e] \in Names
FilesHaveEntry  == \A i \in inodes \ {ROOT_DIR_INUM} : \E e \in Used : d_inumber[e] = i
UsedDiffer      == \A e1, e2 \in Used : e1 # e2 => d_inumber[e1] # d_inumber[e2] /\ d_name[e1] # d_name[e2]
NameBelowFree   == \A e \in Used, x \in DirEntries \ Used : x < e => d_name[x] # d_name[e]

DirInv ==
  fs = "up" => /\ ROOT_DIR_INUM \in inodes
               /\ UsedLeadToFiles /\ FilesHaveEntry /\ UsedDiffer /\ NameBelowFree

LEMMA DirInvSuffices == DirInv => DirectoryMatchesInodes
BY DEF DirInv, UsedLeadToFiles, FilesHaveEntry, UsedDiffer, DirectoryMatchesInodes

(* The entry clear_dir_entry finds is the one tfs_lookup has found.        *)
LEMMA ClearsWhatItFound ==
  ASSUME TypeOK, NameBelowFree, NEW n \in Names,
         NEW e \in DirEntries, FindInDir(e, n),
         NEW c \in DirEntries, First(c, {x \in DirEntries : d_name[x] = n})
  PROVE  c = e
<1>1. e \in Used /\ d_name[e] = n /\ d_name[c] = n /\ c <= e
  BY DEF FindInDir, First, Linked, Used
<1>2. c \in Used
  <2>1. SUFFICES ASSUME c \notin Used PROVE FALSE
    OBVIOUS
  <2>2. c < e
    BY <1>1, <2>1 DEF DirEntries
  <2> QED
    BY <1>1, <2>1, <2>2 DEF NameBelowFree
<1>3. e <= c
  BY <1>1, <1>2 DEF FindInDir, First, Linked, Used
<1> QED
  BY <1>1, <1>3 DEF DirEntries

(* Directory and inode table stay in agreement.                            *)
LEMMA DirStep == TypeOK /\ DirInv /\ [Next]_vars => DirInv'
<1> SUFFICES ASSUME TypeOK, DirInv, [Next]_vars, fs' = "up" PROVE DirInv'
  BY DEF DirInv
<1>same. ASSUME fs = "up", UNCHANGED <<inodes, directory>> PROVE DirInv'
  BY <1>same DEF DirInv, UsedLeadToFiles, FilesHaveEntry, UsedDiffer, NameBelowFree, Used, directory
<1>1. CASE tfs_init
  <2>1. Used' = {} /\ inodes' = {ROOT_DIR_INUM}
    BY <1>1 DEF tfs_init, Used
  <2> QED
    BY <2>1 DEF DirInv, UsedLeadToFiles, FilesHaveEntry, UsedDiffer, NameBelowFree
<1>2. CASE tfs_destroy
  BY <1>2 DEF tfs_destroy
<1>3. ASSUME NEW n \in Names, NEW mode \in Modes, OpenFile(n, mode) PROVE DirInv'
  BY <1>3, <1>same DEF OpenFile, Up
<1>4. ASSUME NEW n \in Names, NEW mode \in Modes, CreateFile(n, mode) PROVE DirInv'
  <2>1. CASE UNCHANGED <<inodes, directory>>
    BY <1>4, <2>1, <1>same DEF CreateFile, Up
  <2>2. CASE ~UNCHANGED <<inodes, directory>>
    <3>1. PICK i \in Inodes : i \notin inodes /\ AddDirEntry(n, i) /\ inodes' = inodes \cup {i}
      BY <1>4, <2>2 DEF CreateFile, CreateInode, First
    <3>2. PICK e \in DirEntries :
            /\ First(e, UnusedEntries)
            /\ d_inumber' = [d_inumber EXCEPT ![e] = i]
            /\ d_name' = [d_name EXCEPT ![e] = n]
      BY <3>1 DEF AddDirEntry
    <3>3. fs = "up" /\ Linked(n) = {}
      BY <1>4 DEF CreateFile, Up
    <3>4. i # ROOT_DIR_INUM /\ i # None
      BY <3>1, <3>3 DEF DirInv, Inodes, None
    <3>5. e \notin Used /\ Used' = Used \cup {e}
      BY <3>2, <3>4 DEF First, UnusedEntries, Used, TypeOK
    <3>6. /\ d_inumber'[e] = i /\ d_name'[e] = n
          /\ \A x \in DirEntries \ {e} : d_inumber'[x] = d_inumber[x] /\ d_name'[x] = d_name[x]
      BY <3>2 DEF TypeOK
    <3>7. UsedLeadToFiles'
      BY <3>1, <3>3, <3>4, <3>5, <3>6 DEF DirInv, UsedLeadToFiles, Used
    <3>8. FilesHaveEntry'
      BY <3>1, <3>3, <3>5, <3>6 DEF DirInv, FilesHaveEntry, Used
    <3>9. UsedDiffer'
      <4>1. \A x \in Used : x # e /\ d_inumber[x] # i /\ d_name[x] # n
        BY <3>1, <3>3, <3>5 DEF DirInv, UsedLeadToFiles, Linked, Used
      <4> QED
        BY <3>3, <3>5, <3>6, <4>1 DEF DirInv, UsedDiffer, Used
    <3>10. NameBelowFree'
      <4>1. \A x \in DirEntries \ Used' : x \in DirEntries \ Used /\ x # e /\ ~(x < e)
        BY <3>2, <3>5 DEF First, UnusedEntries, Used, DirEntries
      <4> QED
        BY <3>3, <3>5, <3>6, <4>1 DEF DirInv, NameBelowFree, Used
    <3> QED
      BY <3>1, <3>3, <3>7, <3>8, <3>9, <3>10 DEF DirInv
  <2> QED
    BY <2>1, <2>2
<1>5. ASSUME NEW h \in Handles, tfs_close(h) PROVE DirInv'
  BY <1>5, <1>same DEF tfs_close, Up, inodeTable
<1>6. ASSUME NEW h \in Handles, NEW len \in 1 .. BlockSize, tfs_write(h, len) PROVE DirInv'
  BY <1>6, <1>same DEF tfs_write, Abort
<1>7. ASSUME NEW h \in Handles, NEW len \in 1 .. BlockSize, tfs_read(h, len) PROVE DirInv'
  BY <1>7, <1>same DEF tfs_read, Abort, inodeTable
<1>8. ASSUME NEW n \in Names, tfs_unlink(n) PROVE DirInv'
  <2>1. fs = "up"
    BY <1>8 DEF tfs_unlink, Up
  <2>2. PICK e \in DirEntries : FindInDir(e, n) /\ inodes' = inodes \ {d_inumber[e]}
    BY <1>8 DEF tfs_unlink, DeleteInode
  <2>3. /\ d_inumber' = [d_inumber EXCEPT ![e] = None]
        /\ d_name' = [d_name EXCEPT ![e] = NoName]
    BY <1>8, <2>1, <2>2, ClearsWhatItFound DEF tfs_unlink, ClearDirEntry, DirInv
  <2>4. e \in Used /\ Used' = Used \ {e}
    BY <2>2, <2>3 DEF FindInDir, First, Linked, Used, TypeOK
  <2>5. /\ d_name'[e] = NoName
        /\ \A x \in DirEntries \ {e} : d_inumber'[x] = d_inumber[x] /\ d_name'[x] = d_name[x]
    BY <2>3 DEF TypeOK
  <2>6. UsedLeadToFiles'
    BY <2>1, <2>2, <2>4, <2>5 DEF DirInv, UsedLeadToFiles, UsedDiffer, Used
  <2>7. FilesHaveEntry'
    BY <2>1, <2>2, <2>4, <2>5 DEF DirInv, FilesHaveEntry, Used
  <2>8. UsedDiffer'
    BY <2>1, <2>4, <2>5 DEF DirInv, UsedDiffer, Used
  <2>9. NameBelowFree'
    <3>1. \A x \in DirEntries \ Used' : x = e \/ x \in DirEntries \ Used
      BY <2>4
    <3>2. \A x \in Used' : x \in Used /\ x # e /\ d_name'[x] = d_name[x] /\ d_name[x] # NoName
      BY <2>1, <2>4, <2>5, NameAssumption DEF DirInv, UsedLeadToFiles, Used
    <3> QED
      BY <2>1, <2>5, <3>1, <3>2 DEF DirInv, NameBelowFree
  <2>10. ROOT_DIR_INUM \in inodes'
    BY <2>1, <2>2, <2>4 DEF DirInv, UsedLeadToFiles
  <2> QED
    BY <2>6, <2>7, <2>8, <2>9, <2>10 DEF DirInv
<1>9. CASE UNCHANGED vars
  BY <1>9, <1>same DEF vars, inodeTable
<1> QED
  BY <1>1, <1>2, <1>3, <1>4, <1>5, <1>6, <1>7, <1>8, <1>9 DEF Next

(* Directory and inode table agree, for any number of inodes and entries   *)
(* and whatever the memory of the directory held before: no inode is lost  *)
(* by a create that fails, and an unlink clears the entry it looked up.    *)
THEOREM DirectoryCorrect == Spec => []DirectoryMatchesInodes
<1>1. Init => DirInv
  BY DEF Init, DirInv
<1> QED
  BY <1>1, TypeCorrect, DirStep, DirInvSuffices, PTL DEF Spec
-----------------------------------------------------------------------------
(* Blocks: an operation frees a block of the inode it works on, which the  *)
(* directory says is taken, and takes blocks that are free.                *)

LEMMA FreesOwnBlock ==
  ASSUME TypeOK, BlocksExclusive, NEW i \in inodes,
         blocks' = BlocksWithout(i), UNCHANGED i_data_block,
         NEW j \in inodes, j # i, i_size[j] > 0
  PROVE  i_data_block'[j] \in blocks'
<1>1. j \in WithContent /\ i_data_block[j] \in blocks
  BY DEF BlocksExclusive, WithContent
<1>2. i_size[i] > 0 => i_data_block[i] # i_data_block[j]
  BY <1>1 DEF BlocksExclusive, WithContent
<1> QED
  BY <1>1, <1>2 DEF BlocksWithout

(* What a write does to the tables, where it does not abort.               *)
WriteEffect(i, size) ==
  /\ UNCHANGED inodes
  /\ i_size' = [i_size EXCEPT ![i] = size]
  /\ \/ i_size[i] > 0 /\ UNCHANGED <<blocks, i_data_block>>
     \/ i_size[i] = 0 /\ AllocBlock(i)

LEMMA WriteStep ==
  ASSUME TypeOK, NEW h \in Handles, NEW len \in 1 .. BlockSize, tfs_write(h, len), ~Abort
  PROVE  /\ of_offset[h] + Fits(h, len) \in 1 .. BlockSize
         /\ \E size \in 1 .. BlockSize :
              /\ size >= i_size[of_inumber[h]] /\ size >= of_offset[h] + Fits(h, len)
              /\ WriteEffect(of_inumber[h], size)
         /\ h \in handles /\ fs = "up"
         /\ of_offset' = [of_offset EXCEPT ![h] = of_offset[h] + Fits(h, len)]
         /\ UNCHANGED <<fs, directory, handles, of_inumber, stale>>
<1> DEFINE i == of_inumber[h]
           end == of_offset[h] + Fits(h, len)
           size == IF end > i_size[i] THEN end ELSE i_size[i]
<1>1. Fits(h, len) > 0
  BY DEF tfs_write
<1>2. BlockSize \in Nat /\ of_offset[h] \in Nat /\ i \in Inodes /\ i_size[i] \in 0 .. BlockSize
  BY ParamsAssumption DEF TypeOK
<1>3. end \in 0 .. BlockSize /\ Fits(h, len) \in Int
  BY <1>1, <1>2, FitsType DEF Fits
<1>4. end \in 1 .. BlockSize
  BY <1>1, <1>2, <1>3
<1>5. size \in 1 .. BlockSize /\ size >= i_size[i] /\ size >= end
  BY <1>2, <1>4
<1>6. i_size' = [i_size EXCEPT ![i] = size]
  BY DEF tfs_write
<1>7. WriteEffect(i, size)
  BY <1>6 DEF WriteEffect, tfs_write
<1>8. /\ h \in handles /\ fs = "up"
      /\ of_offset' = [of_offset EXCEPT ![h] = end]
      /\ UNCHANGED <<fs, directory, handles, of_inumber, stale>>
  BY DEF tfs_write
<1> QED
  BY <1>4, <1>5, <1>7, <1>8

LEMMA BlocksStep == TypeOK /\ DirInv /\ BlocksExclusive /\ [Next]_vars => BlocksExclusive'
<1> SUFFICES ASSUME TypeOK, DirInv, BlocksExclusive, [Next]_vars PROVE BlocksExclusive'
  OBVIOUS
<1>same. ASSUME UNCHANGED <<inodes, i_size, i_data_block, blocks>> PROVE BlocksExclusive'
  BY <1>same DEF BlocksExclusive, WithContent
<1>1. CASE tfs_init
  <2>1. WithContent' \subseteq {ROOT_DIR_INUM} /\ blocks' = {0} /\ i_data_block'[ROOT_DIR_INUM] = 0
    BY <1>1, RootInTables DEF tfs_init, WithContent, TypeOK
  <2> QED
    BY <2>1 DEF BlocksExclusive
<1>2. CASE tfs_destroy
  BY <1>2 DEF tfs_destroy, BlocksExclusive, WithContent
<1>3. ASSUME NEW n \in Names, NEW mode \in Modes, OpenFile(n, mode) PROVE BlocksExclusive'
  <2>1. PICK e \in DirEntries :
          /\ FindInDir(e, n)
          /\ \/ /\ blocks' = BlocksWithout(d_inumber[e])
                /\ i_size' = [i_size EXCEPT ![d_inumber[e]] = 0]
             \/ UNCHANGED <<blocks, i_size>>
    BY <1>3 DEF OpenFile
  <2>2. UNCHANGED <<inodes, i_data_block>>
    BY <1>3 DEF OpenFile
  <2>3. d_inumber[e] \in inodes
    BY <1>3, <2>1 DEF OpenFile, Up, FindInDir, First, Linked, DirInv, UsedLeadToFiles, Used
  <2>4. CASE blocks' = BlocksWithout(d_inumber[e]) /\ i_size' = [i_size EXCEPT ![d_inumber[e]] = 0]
    <3>1. WithContent' = WithContent \ {d_inumber[e]}
      BY <2>2, <2>3, <2>4 DEF WithContent, TypeOK
    <3>2. \A j \in WithContent' : i_data_block'[j] \in blocks'
      BY <2>2, <2>3, <2>4, <3>1, FreesOwnBlock DEF WithContent
    <3> QED
      BY <2>2, <3>1, <3>2 DEF BlocksExclusive
  <2> QED
    BY <1>same, <2>1, <2>2, <2>4
<1>4. ASSUME NEW n \in Names, NEW mode \in Modes, CreateFile(n, mode) PROVE BlocksExclusive'
  <2>1. PICK i \in Inodes : /\ i \notin inodes /\ CreateInode(i)
                            /\ inodes' = inodes \/ inodes' = inodes \cup {i}
    BY <1>4 DEF CreateFile, CreateInode, First
  <2>2. UNCHANGED blocks
    BY <1>4 DEF CreateFile
  <2>3. /\ i_size'[i] = 0
        /\ \A j \in Inodes \ {i} : i_size'[j] = i_size[j] /\ i_data_block'[j] = i_data_block[j]
    BY <2>1 DEF CreateInode, TypeOK
  <2>4. WithContent' = WithContent /\ WithContent \subseteq Inodes \ {i}
    BY <2>1, <2>3 DEF WithContent, TypeOK
  <2> QED
    BY <2>2, <2>3, <2>4 DEF BlocksExclusive
<1>5. ASSUME NEW h \in Handles, tfs_close(h) PROVE BlocksExclusive'
  BY <1>5, <1>same DEF tfs_close, inodeTable
<1>6. ASSUME NEW h \in Handles, NEW len \in 1 .. BlockSize, tfs_write(h, len) PROVE BlocksExclusive'
  <2>1. CASE Abort
    BY <2>1, <1>same DEF Abort, inodeTable
  <2>2. CASE ~Abort
    <3>1. PICK size \in 1 .. BlockSize : WriteEffect(of_inumber[h], size)
      BY <1>6, <2>2, WriteStep
    <3> DEFINE i == of_inumber[h]
    <3>2. i \in Inodes
      BY DEF TypeOK
    <3>3. \A j \in Inodes \ {i} : i_size'[j] = i_size[j] /\ i_data_block'[j] = i_data_block[j]
      BY <3>1, <3>2 DEF WriteEffect, AllocBlock, TypeOK
    <3>4. WithContent' \subseteq WithContent \cup {i} /\ WithContent \subseteq Inodes
      BY <3>1, <3>2, <3>3 DEF WithContent, WriteEffect, TypeOK
    <3>5. CASE i_size[i] > 0 /\ UNCHANGED <<blocks, i_data_block>>
      <4>1. WithContent' \subseteq WithContent
        BY <3>1, <3>4, <3>5 DEF WithContent, WriteEffect
      <4> QED
        BY <3>5, <4>1 DEF BlocksExclusive
    <3>6. CASE i_size[i] = 0 /\ AllocBlock(i)
      <4>1. PICK b \in Blocks : /\ b \notin blocks
                                /\ blocks' = blocks \cup {b}
                                /\ i_data_block' = [i_data_block EXCEPT ![i] = b]
        BY <3>6 DEF AllocBlock, First
      <4>2. i_data_block'[i] = b
        BY <3>2, <4>1 DEF TypeOK
      <4>3. \A j \in WithContent' \ {i} : j \in WithContent /\ i_data_block'[j] = i_data_block[j]
        BY <3>3, <3>4
      <4>4. \A j \in WithContent' \ {i} : i_data_block'[j] \in blocks
        BY <4>3 DEF BlocksExclusive
      <4> QED
        BY <4>1, <4>2, <4>3, <4>4 DEF BlocksExclusive
    <3> QED
      BY <3>1, <3>5, <3>6 DEF WriteEffect
  <2> QED
    BY <2>1, <2>2
<1>7. ASSUME NEW h \in Handles, NEW len \in 1 .. BlockSize, tfs_read(h, len) PROVE BlocksExclusive'
  BY <1>7, <1>same DEF tfs_read, Abort, inodeTable
<1>8. ASSUME NEW n \in Names, tfs_unlink(n) PROVE BlocksExclusive'
  <2>1. PICK e \in DirEntries : FindInDir(e, n) /\ DeleteInode(d_inumber[e])
    BY <1>8 DEF tfs_unlink
  <2>2. d_inumber[e] \in inodes
    BY <1>8, <2>1 DEF tfs_unlink, Up, FindInDir, First, Linked, DirInv, UsedLeadToFiles, Used
  <2>3. WithContent' = WithContent \ {d_inumber[e]} /\ UNCHANGED i_data_block
    BY <2>1 DEF DeleteInode, WithContent
  <2>4. \A j \in WithContent' : i_data_block'[j] \in blocks'
    BY <2>1, <2>2, <2>3, FreesOwnBlock DEF DeleteInode, WithContent
  <2> QED
    BY <2>3, <2>4 DEF BlocksExclusive
<1>9. CASE UNCHANGED vars
  BY <1>9, <1>same DEF vars, inodeTable
<1> QED
  BY <1>1, <1>2, <1>3, <1>4, <1>5, <1>6, <1>7, <1>8, <1>9 DEF Next

(* No two files share a block, and no file has a block that is free,       *)
(* whatever is written through handles that outlived their file.           *)
THEOREM BlocksCorrect == Spec => []BlocksExclusive
<1>1. Init => DirInv /\ BlocksExclusive
  BY DEF Init, DirInv, BlocksExclusive, WithContent
<1> QED
  BY <1>1, TypeCorrect, DirStep, BlocksStep, PTL DEF Spec
-----------------------------------------------------------------------------
(* Handles: while the file system is down there are none, and what an      *)
(* operation does to a file makes the handles stale that it leaves behind. *)

NoneWhileDown == fs = "down" => handles = {}
HandleInv == NoneWhileDown /\ OffsetsInFile

(* A new handle is good where its file and its offset are.                 *)
LEMMA OpenKeepsOffsets ==
  ASSUME TypeOK, NEW i \in inodes' \ {ROOT_DIR_INUM}, NEW offset \in Nat,
         AddToOpenFileTable(i, offset), offset <= i_size'[i],
         stale \subseteq stale',
         \A h \in handles \ stale' : /\ of_inumber[h] \in inodes' \ {ROOT_DIR_INUM}
                                     /\ of_offset[h] <= i_size'[of_inumber[h]]
  PROVE  OffsetsInFile'
<1>1. CASE UNCHANGED openFiles
  BY <1>1 DEF openFiles, OffsetsInFile
<1>2. CASE ~UNCHANGED openFiles
  <2>1. PICK h \in Handles : /\ h \notin handles
                             /\ handles' = handles \cup {h}
                             /\ of_inumber' = [of_inumber EXCEPT ![h] = i]
                             /\ of_offset' = [of_offset EXCEPT ![h] = offset]
    BY <1>2 DEF AddToOpenFileTable, First
  <2>2. of_inumber'[h] = i /\ of_offset'[h] = offset
    BY <2>1 DEF TypeOK
  <2>3. \A x \in handles : of_inumber'[x] = of_inumber[x] /\ of_offset'[x] = of_offset[x]
    BY <2>1 DEF TypeOK
  <2> QED
    BY <2>1, <2>2, <2>3 DEF OffsetsInFile
<1> QED
  BY <1>1, <1>2

LEMMA HandlesStep == TypeOK /\ DirInv /\ HandleInv /\ [Next]_vars => HandleInv'
<1> SUFFICES ASSUME TypeOK, DirInv, HandleInv, [Next]_vars PROVE HandleInv'
  OBVIOUS
<1>same. ASSUME UNCHANGED <<inodes, i_size, handles, of_inumber, of_offset, stale>> PROVE OffsetsInFile'
  BY <1>same DEF HandleInv, OffsetsInFile
<1>up. ASSUME fs' # "down" PROVE NoneWhileDown'
  BY <1>up DEF NoneWhileDown
<1>1. CASE tfs_init
  BY <1>1 DEF tfs_init, HandleInv, NoneWhileDown, OffsetsInFile, openFiles
<1>2. CASE tfs_destroy
  BY <1>2 DEF tfs_destroy, HandleInv, NoneWhileDown, OffsetsInFile
<1>3. ASSUME NEW n \in Names, NEW mode \in Modes, OpenFile(n, mode) PROVE HandleInv'
  <2>1. PICK e \in DirEntries :
          /\ FindInDir(e, n)
          /\ AddToOpenFileTable(d_inumber[e], StartOffset(d_inumber[e], mode))
          /\ \/ /\ "TRUNC" \in mode
                /\ i_size' = [i_size EXCEPT ![d_inumber[e]] = 0]
                /\ stale' = stale \cup {h \in OpenHandles(d_inumber[e]) : of_offset[h] > 0}
             \/ UNCHANGED <<i_size, stale>>
    BY <1>3 DEF OpenFile
  <2>2. fs = "up" /\ UNCHANGED <<fs, inodes>>
    BY <1>3 DEF OpenFile, Up
  <2> DEFINE i == d_inumber[e]
  <2>3. i \in inodes' \ {ROOT_DIR_INUM} /\ i \in Inodes
    BY <2>1, <2>2 DEF FindInDir, First, Linked, DirInv, UsedLeadToFiles, Used, TypeOK
  <2>4. StartOffset(i, mode) \in Nat /\ StartOffset(i, mode) <= i_size'[i]
    BY <2>1, <2>3, ParamsAssumption DEF StartOffset, TypeOK
  <2>5. stale \subseteq stale'
    BY <2>1
  <2>6. \A h \in handles \ stale' : of_offset[h] <= i_size'[of_inumber[h]]
    <3> SUFFICES ASSUME NEW h \in handles \ stale' PROVE of_offset[h] <= i_size'[of_inumber[h]]
      OBVIOUS
    <3>1. of_offset[h] \in Nat /\ of_inumber[h] \in Inodes /\ of_offset[h] <= i_size[of_inumber[h]]
      BY <2>5 DEF TypeOK, HandleInv, OffsetsInFile
    <3>2. CASE UNCHANGED i_size
      BY <3>1, <3>2
    <3>3. CASE /\ i_size' = [i_size EXCEPT ![i] = 0]
               /\ stale' = stale \cup {x \in OpenHandles(i) : of_offset[x] > 0}
      <4>1. CASE of_inumber[h] = i
        <5>1. ~(of_offset[h] > 0)
          BY <3>3, <4>1 DEF OpenHandles
        <5> QED
          BY <3>1, <3>3, <4>1, <5>1 DEF TypeOK
      <4>2. CASE of_inumber[h] # i
        BY <3>1, <3>3, <4>2 DEF TypeOK
      <4> QED
        BY <4>1, <4>2
    <3> QED
      BY <2>1, <3>2, <3>3
  <2>7. \A h \in handles \ stale' : of_inumber[h] \in inodes' \ {ROOT_DIR_INUM}
    BY <2>2, <2>5 DEF HandleInv, OffsetsInFile
  <2>8. OffsetsInFile'
    BY <2>1, <2>3, <2>4, <2>5, <2>6, <2>7, OpenKeepsOffsets
  <2> QED
    BY <2>2, <2>8, <1>up DEF HandleInv
<1>4. ASSUME NEW n \in Names, NEW mode \in Modes, CreateFile(n, mode) PROVE HandleInv'
  <2>1. PICK i \in Inodes :
          /\ CreateInode(i)
          /\ \/ UNCHANGED <<inodes, openFiles>>
             \/ inodes' = inodes \cup {i} /\ AddToOpenFileTable(i, 0)
    BY <1>4 DEF CreateFile
  <2>2. fs = "up" /\ UNCHANGED <<fs, stale>>
    BY <1>4 DEF CreateFile, Up
  <2>3. i \notin inodes /\ i # ROOT_DIR_INUM
    BY <2>1, <2>2 DEF CreateInode, First, DirInv
  <2>4. i_size'[i] = 0 /\ \A j \in Inodes \ {i} : i_size'[j] = i_size[j]
    BY <2>1 DEF CreateInode, TypeOK
  <2>5. \A h \in handles \ stale' : /\ of_inumber[h] \in inodes \ {ROOT_DIR_INUM}
                                    /\ of_offset[h] <= i_size'[of_inumber[h]]
    BY <2>2, <2>3, <2>4 DEF HandleInv, OffsetsInFile, TypeOK
  <2>6. CASE UNCHANGED <<inodes, openFiles>>
    BY <2>2, <2>5, <2>6, <1>up DEF HandleInv, OffsetsInFile, openFiles
  <2>7. CASE inodes' = inodes \cup {i} /\ AddToOpenFileTable(i, 0)
    <3>1. OffsetsInFile'
      BY <2>2, <2>3, <2>4, <2>5, <2>7, OpenKeepsOffsets
    <3> QED
      BY <2>2, <3>1, <1>up DEF HandleInv
  <2> QED
    BY <2>1, <2>6, <2>7
<1>5. ASSUME NEW h \in Handles, tfs_close(h) PROVE HandleInv'
  BY <1>5, <1>up DEF tfs_close, Up, HandleInv, OffsetsInFile, inodeTable
<1>6. ASSUME NEW h \in Handles, NEW len \in 1 .. BlockSize, tfs_write(h, len) PROVE HandleInv'
  <2>1. CASE Abort
    BY <2>1, <1>same, <1>up DEF Abort, HandleInv, inodeTable, openFiles
  <2>2. CASE ~Abort
    <3>1. /\ fs = "up"
          /\ UNCHANGED <<fs, handles, of_inumber, stale>>
          /\ of_offset' = [of_offset EXCEPT ![h] = of_offset[h] + Fits(h, len)]
      BY <1>6, <2>2, WriteStep
    <3>2. PICK size \in 1 .. BlockSize :
            /\ size >= i_size[of_inumber[h]] /\ size >= of_offset[h] + Fits(h, len)
            /\ WriteEffect(of_inumber[h], size)
      BY <1>6, <2>2, WriteStep
    <3>3. of_inumber[h] \in Inodes /\ UNCHANGED inodes
      BY <3>2 DEF TypeOK, WriteEffect
    <3>4. i_size'[of_inumber[h]] = size
      BY <3>2, <3>3 DEF TypeOK, WriteEffect
    <3>5. \A j \in Inodes : i_size'[j] >= i_size[j]
      BY <3>2, <3>3, ParamsAssumption DEF TypeOK, WriteEffect
    <3>6. \A x \in handles \ stale : of_offset'[x] <= i_size'[of_inumber[x]]
      <4> SUFFICES ASSUME NEW x \in handles \ stale PROVE of_offset'[x] <= i_size'[of_inumber[x]]
        OBVIOUS
      <4>1. CASE x = h
        BY <3>1, <3>2, <3>4, <4>1 DEF TypeOK
      <4>2. CASE x # h
        <5>1. of_offset'[x] = of_offset[x] /\ of_offset[x] <= i_size[of_inumber[x]]
          BY <3>1, <4>2 DEF TypeOK, HandleInv, OffsetsInFile
        <5>2. /\ of_inumber[x] \in Inodes /\ of_offset[x] \in Nat
              /\ i_size[of_inumber[x]] \in Nat /\ i_size'[of_inumber[x]] \in Nat
          BY <1>6, TypeStep, ParamsAssumption DEF TypeOK
        <5> QED
          BY <3>5, <5>1, <5>2
      <4> QED
        BY <4>1, <4>2
    <3>7. OffsetsInFile'
      BY <3>1, <3>3, <3>6 DEF HandleInv, OffsetsInFile
    <3> QED
      BY <3>1, <3>7, <1>up DEF HandleInv
  <2> QED
    BY <2>1, <2>2
<1>7. ASSUME NEW h \in Handles, NEW len \in 1 .. BlockSize, tfs_read(h, len) PROVE HandleInv'
  <2>1. CASE Abort
    BY <2>1, <1>same, <1>up DEF Abort, HandleInv, inodeTable, openFiles
  <2>2. CASE ~Abort
    <3>1. /\ fs = "up" /\ h \in handles
          /\ UNCHANGED <<fs, inodes, i_size, handles, of_inumber, stale>>
          /\ of_offset' = [of_offset EXCEPT ![h] = of_offset[h] + ToRead(h, len)]
      BY <1>7, <2>2 DEF tfs_read, inodeTable
    <3>2. h \notin stale => of_offset'[h] <= i_size[of_inumber[h]]
      <4>1. /\ of_inumber[h] \in Inodes /\ of_offset[h] \in Nat /\ i_size[of_inumber[h]] \in Nat
            /\ of_offset'[h] = of_offset[h] + ToRead(h, len)
        BY <3>1, ParamsAssumption DEF TypeOK
      <4>2. h \notin stale => of_offset[h] <= i_size[of_inumber[h]]
        BY <3>1 DEF HandleInv, OffsetsInFile
      <4> QED
        BY <4>1, <4>2 DEF ToRead
    <3>3. \A x \in handles \ {h} : of_offset'[x] = of_offset[x]
      BY <3>1 DEF TypeOK
    <3>4. OffsetsInFile'
      BY <3>1, <3>2, <3>3 DEF HandleInv, OffsetsInFile
    <3> QED
      BY <3>1, <3>4, <1>up DEF HandleInv
  <2> QED
    BY <2>1, <2>2
<1>8. ASSUME NEW n \in Names, tfs_unlink(n) PROVE HandleInv'
  <2>1. PICK e \in DirEntries : /\ FindInDir(e, n)
                                /\ inodes' = inodes \ {d_inumber[e]}
                                /\ stale' = stale \cup OpenHandles(d_inumber[e])
    BY <1>8 DEF tfs_unlink, DeleteInode
  <2>2. fs = "up" /\ UNCHANGED <<fs, i_size, handles, of_inumber, of_offset>>
    BY <1>8 DEF tfs_unlink, Up, DeleteInode, openFiles
  <2>3. \A h \in handles \ stale' : of_inumber[h] # d_inumber[e]
    BY <2>1 DEF OpenHandles
  <2> QED
    BY <2>1, <2>2, <2>3, <1>up DEF HandleInv, OffsetsInFile
<1>9. CASE UNCHANGED vars
  BY <1>9, <1>same DEF vars, inodeTable, openFiles, HandleInv, NoneWhileDown
<1> QED
  BY <1>1, <1>2, <1>3, <1>4, <1>5, <1>6, <1>7, <1>8, <1>9 DEF Next

(* A handle whose file was neither unlinked nor truncated while it was     *)
(* open leads to a file, and to an offset within it.                       *)
THEOREM OffsetsCorrect == Spec => []OffsetsInFile
<1>1. Init => DirInv /\ HandleInv
  BY DEF Init, DirInv, HandleInv, NoneWhileDown, OffsetsInFile
<1>2. HandleInv => OffsetsInFile
  BY DEF HandleInv
<1> QED
  BY <1>1, <1>2, TypeCorrect, DirStep, HandlesStep, PTL DEF Spec
-----------------------------------------------------------------------------
(* A step that frees the block of i takes i out of the files with content. *)
LEMMA FreeLosesNothing ==
  ASSUME NEW i, blocks' = BlocksWithout(i), UNCHANGED i_data_block,
         WithContent' = WithContent \ {i}
  PROVE  Unowned' \subseteq Unowned
<1> SUFFICES ASSUME NEW b \in blocks', \A j \in WithContent \ {i} : i_data_block[j] # b
             PROVE  b \in blocks /\ \A j \in WithContent : i_data_block[j] # b
  BY DEF Unowned
<1>1. i \in WithContent => i_data_block[i] # b
  BY DEF BlocksWithout, WithContent
<1> QED
  BY <1>1 DEF BlocksWithout

LEMMA LossStep ==
  TypeOK /\ DirInv /\ HandleInv /\ [Next]_vars =>
    Unowned' \subseteq Unowned \/ \E h \in stale, len \in 1 .. BlockSize : tfs_write(h, len)
<1> SUFFICES ASSUME TypeOK, DirInv, HandleInv, [Next]_vars,
                    ~\E h \in stale, len \in 1 .. BlockSize : tfs_write(h, len)
             PROVE  Unowned' \subseteq Unowned
  OBVIOUS
<1>same. ASSUME UNCHANGED <<inodes, i_size, i_data_block, blocks>> PROVE Unowned' \subseteq Unowned
  BY <1>same DEF Unowned, WithContent
<1>1. CASE tfs_init
  <2>1. ROOT_DIR_INUM \in WithContent' /\ blocks' = {0} /\ i_data_block'[ROOT_DIR_INUM] = 0
    BY <1>1, RootInTables, ParamsAssumption DEF tfs_init, WithContent, TypeOK
  <2> QED
    BY <2>1 DEF Unowned
<1>2. CASE tfs_destroy
  BY <1>2 DEF tfs_destroy, Unowned
<1>3. ASSUME NEW n \in Names, NEW mode \in Modes, OpenFile(n, mode) PROVE Unowned' \subseteq Unowned
  <2>1. PICK e \in DirEntries :
          /\ FindInDir(e, n)
          /\ \/ /\ blocks' = BlocksWithout(d_inumber[e])
                /\ i_size' = [i_size EXCEPT ![d_inumber[e]] = 0]
             \/ UNCHANGED <<blocks, i_size>>
    BY <1>3 DEF OpenFile
  <2>2. UNCHANGED <<inodes, i_data_block>>
    BY <1>3 DEF OpenFile
  <2>3. CASE blocks' = BlocksWithout(d_inumber[e]) /\ i_size' = [i_size EXCEPT ![d_inumber[e]] = 0]
    <3>1. d_inumber[e] \in Inodes
      BY <2>1 DEF FindInDir, First, Linked, TypeOK
    <3>2. WithContent' = WithContent \ {d_inumber[e]}
      BY <2>2, <2>3, <3>1 DEF WithContent, TypeOK
    <3> QED
      BY <2>2, <2>3, <3>2, FreeLosesNothing
  <2> QED
    BY <1>same, <2>1, <2>2, <2>3
<1>4. ASSUME NEW n \in Names, NEW mode \in Modes, CreateFile(n, mode) PROVE Unowned' \subseteq Unowned
  <2>1. PICK i \in Inodes : /\ i \notin inodes /\ CreateInode(i)
                            /\ inodes' = inodes \/ inodes' = inodes \cup {i}
    BY <1>4 DEF CreateFile, CreateInode, First
  <2>2. UNCHANGED blocks
    BY <1>4 DEF CreateFile
  <2>3. /\ i_size'[i] = 0
        /\ \A j \in Inodes \ {i} : i_size'[j] = i_size[j] /\ i_data_block'[j] = i_data_block[j]
    BY <2>1 DEF CreateInode, TypeOK
  <2>4. WithContent' = WithContent /\ WithContent \subseteq Inodes \ {i}
    BY <2>1, <2>3 DEF WithContent, TypeOK
  <2> QED
    BY <2>2, <2>3, <2>4 DEF Unowned
<1>5. ASSUME NEW h \in Handles, tfs_close(h) PROVE Unowned' \subseteq Unowned
  BY <1>5, <1>same DEF tfs_close, inodeTable
<1>6. ASSUME NEW h \in Handles, NEW len \in 1 .. BlockSize, tfs_write(h, len) PROVE Unowned' \subseteq Unowned
  <2>1. CASE Abort
    BY <2>1, <1>same DEF Abort, inodeTable
  <2>2. CASE ~Abort
    <3>1. PICK size \in 1 .. BlockSize : WriteEffect(of_inumber[h], size)
      BY <1>6, <2>2, WriteStep
    <3>2. h \in handles \ stale
      BY <1>6, <2>2, WriteStep
    <3> DEFINE i == of_inumber[h]
    <3>3. i \in inodes /\ i \in Inodes
      BY <3>2 DEF HandleInv, OffsetsInFile, TypeOK
    <3>4. \A j \in Inodes \ {i} : i_size'[j] = i_size[j] /\ i_data_block'[j] = i_data_block[j]
      BY <3>1, <3>3 DEF WriteEffect, AllocBlock, TypeOK
    <3>5. i \in WithContent'
      <4>1. i_size'[i] = size /\ size > 0
        BY <3>1, <3>3, ParamsAssumption DEF WriteEffect, TypeOK
      <4> QED
        BY <3>1, <3>3, <4>1 DEF WithContent, WriteEffect
    <3>6. WithContent \subseteq WithContent'
      BY <3>1, <3>4, <3>5 DEF WithContent, WriteEffect, TypeOK
    <3>7. CASE i_size[i] > 0 /\ UNCHANGED <<blocks, i_data_block>>
      BY <3>6, <3>7 DEF Unowned
    <3>8. CASE i_size[i] = 0 /\ AllocBlock(i)
      <4>1. PICK b \in Blocks : /\ blocks' = blocks \cup {b}
                                /\ i_data_block' = [i_data_block EXCEPT ![i] = b]
        BY <3>8 DEF AllocBlock
      <4>2. i_data_block'[i] = b
        BY <3>3, <4>1 DEF TypeOK
      <4>3. i \notin WithContent
        BY <3>8 DEF WithContent
      <4>4. \A j \in WithContent : j \in WithContent' /\ i_data_block'[j] = i_data_block[j]
        BY <3>4, <3>6, <4>3 DEF WithContent, TypeOK
      <4> QED
        BY <3>5, <4>1, <4>2, <4>4 DEF Unowned
    <3> QED
      BY <3>1, <3>7, <3>8 DEF WriteEffect
  <2> QED
    BY <2>1, <2>2
<1>7. ASSUME NEW h \in Handles, NEW len \in 1 .. BlockSize, tfs_read(h, len) PROVE Unowned' \subseteq Unowned
  BY <1>7, <1>same DEF tfs_read, Abort, inodeTable
<1>8. ASSUME NEW n \in Names, tfs_unlink(n) PROVE Unowned' \subseteq Unowned
  <2>1. PICK e \in DirEntries : DeleteInode(d_inumber[e])
    BY <1>8 DEF tfs_unlink
  <2>2. WithContent' = WithContent \ {d_inumber[e]} /\ UNCHANGED i_data_block
    BY <2>1 DEF DeleteInode, WithContent
  <2> QED
    BY <2>1, <2>2, FreeLosesNothing DEF DeleteInode
<1>9. CASE UNCHANGED vars
  BY <1>9, <1>same DEF vars, inodeTable
<1> QED
  BY <1>1, <1>2, <1>3, <1>4, <1>5, <1>6, <1>7, <1>8, <1>9 DEF Next

(* No block is lost but by a write through a handle whose file was         *)
(* unlinked or truncated while it was open.                                *)
THEOREM BlocksKept == Spec => OnlyStaleLoseBlocks
<1>1. Init => DirInv /\ HandleInv
  BY DEF Init, DirInv, HandleInv, NoneWhileDown, OffsetsInFile
<1> QED
  BY <1>1, TypeCorrect, DirStep, HandlesStep, LossStep, PTL DEF Spec, OnlyStaleLoseBlocks

(***************************************************************************)
(* What is proved of TecnicoFS holds of TecnicoFSData, which adds the      *)
(* bytes and leaves out modes that ask nothing of the file at hand.        *)
(***************************************************************************)

(* A step of an operation with bytes is a step of the operation.           *)
LEMMA DataStep == DataNext => Next
<1> SUFFICES ASSUME DataNext PROVE Next
  OBVIOUS
<1>1. CASE tfs_init \/ tfs_destroy
  BY <1>1 DEF Next
<1>2. CASE \E n \in Names, mode \in SUBSET {"TRUNC", "APPEND"} : OpenFile(n, mode)
  BY <1>2 DEF Next, Modes
<1>3. CASE \E n \in Names : CreateFile(n, {"CREAT"})
  BY <1>3 DEF Next, Modes
<1>4. CASE \E h \in Handles : tfs_close(h)
  BY <1>4 DEF Next
<1>5. CASE \E h \in Handles, len \in 1 .. BlockSize : tfs_write(h, len) \/ tfs_read(h, len)
  BY <1>5 DEF Next
<1>6. CASE \E n \in Names : tfs_unlink(n)
  BY <1>6 DEF Next
<1> QED
  BY <1>1, <1>2, <1>3, <1>4, <1>5, <1>6 DEF DataNext, WriteData

(* TecnicoFSData implements TecnicoFS: reads and writes move bytes in the  *)
(* blocks and do nothing else to the tables (operations.c:229, :275).      *)
THEOREM DataImplementsTables == DataSpec => Spec
<1>1. DataInit => Init
  BY DEF DataInit
<1>2. [DataNext]_dvars => [Next]_vars
  BY DataStep DEF dvars
<1> QED
  BY <1>1, <1>2, PTL DEF DataSpec, Spec

(* The invariants of the tables hold while bytes are moved: directory,     *)
(* blocks and handles agree after every call (fs/operations.c).            *)
THEOREM DataTablesCorrect ==
  DataSpec => [](DirectoryMatchesInodes /\ BlocksExclusive /\ OffsetsInFile)
BY DataImplementsTables, DirectoryCorrect, BlocksCorrect, OffsetsCorrect, PTL

(***************************************************************************)
(* The file store.  The mapping is FileOf, ContentOf and CursorOf; the     *)
(* first lemmas are about its values in one state.                         *)
(***************************************************************************)

(* The values of a cursor differ.                                          *)
LEMMA CursorKinds ==
  ASSUME NEW i, NEW at
  PROVE  /\ <<i, at>> # <<>> /\ <<i, at>> # <<None>> /\ <<None>> # <<>>
         /\ <<i, at>>[1] = i /\ <<i, at>>[2] = at
OBVIOUS

(* What the cursor of a handle tells.                                      *)
LEMMA CursorFacts ==
  ASSUME TypeOK, NEW h \in Handles
  PROVE  /\ CursorOf[h] = <<>> <=> h \notin handles
         /\ CursorOf[h] = <<None>> <=> h \in stale
         /\ h \in handles \ stale => CursorOf[h] = <<of_inumber[h], of_offset[h]>>
BY CursorKinds DEF TypeOK, CursorOf

(* The good handles in a file.                                             *)
LEMMA InFile ==
  ASSUME TypeOK, NEW i
  PROVE  Store!In(CursorOf, i) = OpenHandles(i) \ stale
<1>1. ASSUME NEW h \in handles \ stale
      PROVE  CursorOf[h] \notin {<<>>, <<None>>} /\ CursorOf[h][1] = of_inumber[h]
  <2>1. h \in Handles /\ CursorOf[h] = <<of_inumber[h], of_offset[h]>>
    BY CursorFacts DEF TypeOK
  <2> QED
    BY <2>1, CursorKinds
<1>2. ASSUME NEW h \in Handles, h \notin handles \ stale
      PROVE  CursorOf[h] \in {<<>>, <<None>>}
  BY <1>2, CursorFacts
<1> QED
  BY <1>1, <1>2 DEF TypeOK, Store!In, OpenHandles

(* A handle is opened as FileStore has it, while those in H become stale.  *)
LEMMA Opened ==
  ASSUME TypeOK, NEW i \in Inodes, NEW at \in Nat, AddToOpenFileTable(i, at),
         NEW H \in SUBSET handles, stale' = stale \cup H
  PROVE  Store!OpenIn(Store!Without(H), i, at)
<1> DEFINE c == Store!Without(H)
<1>0. c = [h \in Handles |-> IF h \in H THEN <<None>> ELSE CursorOf[h]]
  BY DEF Store!Without
<1>1. \A h \in Handles : h \in handles =>
        c[h] = IF h \in stale' THEN <<None>> ELSE <<of_inumber[h], of_offset[h]>>
  BY <1>0, CursorFacts
<1>2. \A h \in Handles \ handles : c[h] = <<>> /\ h \notin stale'
  BY <1>0, CursorFacts DEF TypeOK
<1> HIDE DEF c
<1>3. CASE handles = Handles /\ UNCHANGED openFiles
  <2>1. ASSUME NEW h \in Handles PROVE c[h] # <<>>
    <3>1. <<None>> # <<>> /\ <<of_inumber[h], of_offset[h]>> # <<>>
      BY CursorKinds
    <3> QED
      BY <1>1, <1>3, <3>1
  <2>2. CursorOf' = [h \in Handles |-> c[h]]
    BY <1>1, <1>3 DEF CursorOf, openFiles
  <2>3. CursorOf' = c
    BY <1>0, <2>2
  <2> QED
    BY <2>1, <2>3 DEF Store!OpenIn, c
<1>4. CASE ~(handles = Handles /\ UNCHANGED openFiles)
  <2>1. PICK h \in Handles \ handles : /\ handles' = handles \cup {h}
                                       /\ of_inumber' = [of_inumber EXCEPT ![h] = i]
                                       /\ of_offset' = [of_offset EXCEPT ![h] = at]
    BY <1>4 DEF AddToOpenFileTable, First
  <2>2. \A x \in Handles : CursorOf'[x] = IF x = h THEN <<i, at>> ELSE c[x]
    BY <1>1, <1>2, <2>1 DEF CursorOf, TypeOK
  <2>3. CursorOf' = [c EXCEPT ![h] = <<i, at>>]
    BY <1>0, <2>2 DEF CursorOf
  <2>4. c[h] = <<>>
    BY <1>2
  <2> QED
    BY <2>3, <2>4 DEF Store!OpenIn, c
<1> QED
  BY <1>3, <1>4

(* The file of a name.                                                     *)
LEMMA FileFacts ==
  ASSUME TypeOK, DirInv, fs = "up", NEW n \in Names
  PROVE  /\ Linked(n) = {} => FileOf[n] = None
         /\ \A e \in DirEntries : FindInDir(e, n) =>
              FileOf[n] = d_inumber[e] /\ d_inumber[e] \in inodes \cap Files /\ Linked(n) = {e}
         /\ FileOf[n] \in inodes \cup {None}
<1>1. \A e, x \in Linked(n) : e = x
  BY DEF Linked, DirInv, UsedDiffer, Used
<1>2. ASSUME NEW e \in Linked(n)
      PROVE FileOf[n] = d_inumber[e] /\ d_inumber[e] \in inodes \cap Files /\ Linked(n) = {e}
  <2>1. Linked(n) = {e}
    BY <1>1
  <2>2. Min(Linked(n)) = e
    BY <2>1 DEF Min, Linked, DirEntries
  <2>3. d_inumber[e] \in inodes \ {ROOT_DIR_INUM}
    BY DEF Linked, DirInv, UsedLeadToFiles, Used
  <2> QED
    BY <2>1, <2>2, <2>3 DEF FileOf, Files, TypeOK
<1>3. Linked(n) = {} => FileOf[n] = None
  BY DEF FileOf
<1> QED
  BY <1>2, <1>3 DEF FindInDir, First

(* A name whose entry is not the one that changes keeps its file.          *)
LEMMA OtherName ==
  ASSUME TypeOK, DirInv, fs = "up", NEW m \in Names, NEW e \in DirEntries \ Linked(m), NEW value,
         Linked(m)' = Linked(m), d_inumber' = [d_inumber EXCEPT ![e] = value]
  PROVE  FileOf'[m] = FileOf[m]
<1>1. CASE Linked(m) = {}
  BY <1>1 DEF FileOf
<1>2. CASE Linked(m) # {}
  <2>1. PICK x \in DirEntries : Linked(m) = {x} /\ x # e
    <3>1. PICK x \in Linked(m) : x \in DirEntries /\ x # e
      BY <1>2 DEF Linked
    <3>2. \A y \in Linked(m) : y = x
      BY <3>1 DEF Linked, DirInv, UsedDiffer, Used
    <3> QED
      BY <3>1, <3>2
  <2>2. Min({x}) = x
    BY DEF Min, DirEntries
  <2>3. FileOf'[m] = d_inumber'[Min({x})] /\ FileOf[m] = d_inumber[Min({x})]
    BY <2>1 DEF FileOf
  <2> QED
    BY <2>1, <2>2, <2>3 DEF TypeOK
<1> QED
  BY <1>1, <1>2

(* An operation that leaves the directory, the tables or the handles.      *)
LEMMA SameNames == UNCHANGED directory => FileOf' = FileOf
BY DEF directory, FileOf, Linked

(* Bytes are where they belong because files have blocks of their own      *)
(* (BlocksExclusive) and handles lead to files (HandleInv).                *)
DataType == data \in [Blocks -> [Cells -> Inodes \cup {Garbage}]]
NoneToRoot == \A h \in handles : of_inumber[h] # ROOT_DIR_INUM

StoreInv ==
  /\ TypeOK /\ DirInv /\ BlocksExclusive /\ HandleInv
  /\ NoneToRoot /\ DataType

LEMMA KeptType ==
  ASSUME NEW d \in [Blocks -> [Cells -> Inodes \cup {Garbage}]], Kept(d)
  PROVE  DataType'
BY DEF Kept, DataType, Unwritten

(* What is left of a block of a file.                                      *)
LEMMA ContentNext ==
  ASSUME TypeOK', BlocksExclusive', NEW d, Kept(d), NEW i \in Files
  PROVE  Content(i)' = IF i \in WithContent'
                       THEN [k \in 1 .. i_size'[i] |-> d[i_data_block'[i]][k - 1]] ELSE <<>>
<1>1. CASE i \in WithContent'
  <2>1. i_data_block'[i] \in FileBlocks' /\ i_data_block'[i] \in Blocks
    BY <1>1 DEF FileBlocks, Files, BlocksExclusive, TypeOK
  <2>2. data'[i_data_block'[i]] = d[i_data_block'[i]]
    BY <2>1 DEF Kept
  <2> QED
    BY <1>1, <2>2 DEF Content
<1>2. CASE i \notin WithContent'
  BY <1>2 DEF Content
<1> QED
  BY <1>1, <1>2

(* A file whose inode is as before, and whose block was not written.       *)
LEMMA SameContent ==
  ASSUME TypeOK', BlocksExclusive', NEW d, Kept(d), NEW i \in Files,
         i \in WithContent' <=> i \in WithContent,
         i \in WithContent => /\ i_size'[i] = i_size[i]
                              /\ i_data_block'[i] = i_data_block[i]
                              /\ d[i_data_block[i]] = data[i_data_block[i]]
  PROVE  Content(i)' = Content(i)
BY ContentNext DEF Content

LEMMA SameContents ==
  ASSUME TypeOK', BlocksExclusive', Kept(data) \/ UNCHANGED data,
         UNCHANGED <<inodes, i_size, i_data_block>>
  PROVE  ContentOf' = ContentOf
<1>1. ASSUME NEW i \in Files, Kept(data) PROVE Content(i)' = Content(i)
  BY <1>1, SameContent DEF WithContent
<1>2. ASSUME NEW i \in Files, UNCHANGED data PROVE Content(i)' = Content(i)
  BY <1>2 DEF Content, WithContent
<1> QED
  BY <1>1, <1>2 DEF ContentOf

LEMMA SameCursors ==
  UNCHANGED <<handles, of_inumber, of_offset, stale>> => CursorOf' = CursorOf
BY DEF CursorOf

(* The length of a file.                                                   *)
LEMMA ContentType ==
  ASSUME StoreInv, NEW i \in Files
  PROVE  /\ ContentOf[i] = Content(i)
         /\ i \in inodes =>
              Content(i) \in [1 .. i_size[i] -> Inodes \cup {Garbage}] /\ Len(Content(i)) = i_size[i]
<1>1. i \in Inodes /\ i_size[i] \in 0 .. BlockSize /\ BlockSize \in Nat
  BY ParamsAssumption DEF Files, StoreInv, TypeOK
<1>2. CASE i \in WithContent
  <2>1. i_data_block[i] \in Blocks
    BY <1>2 DEF StoreInv, BlocksExclusive, TypeOK
  <2>2. data[i_data_block[i]] \in [Cells -> Inodes \cup {Garbage}]
    BY <2>1 DEF StoreInv, DataType
  <2>3. \A k \in 1 .. i_size[i] : k - 1 \in Cells
    BY <1>1 DEF Cells
  <2>4. Content(i) = [k \in 1 .. i_size[i] |-> data[i_data_block[i]][k - 1]]
    BY <1>2 DEF Content
  <2>5. Content(i) \in [1 .. i_size[i] -> Inodes \cup {Garbage}]
    BY <2>2, <2>3, <2>4
  <2>6. Len(Content(i)) = i_size[i]
    BY <1>1, <2>4
  <2> QED
    BY <2>5, <2>6 DEF ContentOf
<1>3. CASE i \notin WithContent
  <2>1. Content(i) = <<>>
    BY <1>3 DEF Content
  <2>2. i \in inodes => i_size[i] = 0
    BY <1>1, <1>3 DEF WithContent
  <2>3. <<>> \in [1 .. 0 -> Inodes \cup {Garbage}] /\ Len(<<>>) = 0
    OBVIOUS
  <2> QED
    BY <2>1, <2>2, <2>3 DEF ContentOf
<1> QED
  BY <1>2, <1>3

(* What is in the blocks after a write that does not abort.                *)
LEMMA WrittenBlock ==
  ASSUME TypeOK, DataType, NEW h \in Handles, NEW len \in 1 .. BlockSize, WriteData(h, len),
         fs' # "aborted"
  PROVE  \E d \in [Blocks -> [Cells -> Inodes \cup {Garbage}]] :
           /\ Kept(d)
           /\ \A b \in Blocks : d[b] = IF b = i_data_block'[of_inumber[h]]
                                       THEN Copied(h, len) ELSE data[b]
<1> DEFINE b == i_data_block'[of_inumber[h]]
           d == [data EXCEPT ![b] = Copied(h, len)]
<1>1. Kept(d)
  BY DEF WriteData
<1>2. \A c \in Blocks : d[c] = IF c = b THEN Copied(h, len) ELSE data[c]
  BY DEF DataType
<1>3. b \in Blocks => Copied(h, len) \in [Cells -> Inodes \cup {Garbage}]
  BY DEF Copied, DataType, TypeOK
<1>4. d = [c \in Blocks |-> d[c]]
  BY DEF DataType
<1>5. d \in [Blocks -> [Cells -> Inodes \cup {Garbage}]]
  BY <1>2, <1>3, <1>4 DEF DataType
<1> QED
  BY <1>1, <1>2, <1>5

(* An open leads to a file.                                                *)
LEMMA OpensFile ==
  ASSUME TypeOK, NoneToRoot, NEW i \in Files, NEW at, AddToOpenFileTable(i, at)
  PROVE  NoneToRoot'
<1>1. CASE UNCHANGED openFiles
  BY <1>1 DEF NoneToRoot, openFiles
<1>2. CASE ~UNCHANGED openFiles
  <2>1. PICK h \in Handles : /\ handles' = handles \cup {h}
                             /\ of_inumber' = [of_inumber EXCEPT ![h] = i]
    BY <1>2 DEF AddToOpenFileTable
  <2> QED
    BY <2>1 DEF NoneToRoot, TypeOK, Files
<1> QED
  BY <1>1, <1>2

(* Blocks hold bytes.                                                      *)
LEMMA DataTypeStep == TypeOK /\ DataType /\ [DataNext]_dvars => DataType'
<1> SUFFICES ASSUME TypeOK, DataType, [DataNext]_dvars PROVE DataType'
  OBVIOUS
<1>1. CASE Kept(data)
  BY <1>1, KeptType DEF DataType
<1>2. CASE UNCHANGED data
  BY <1>2 DEF DataType
<1>3. ASSUME NEW h \in Handles, NEW len \in 1 .. BlockSize, WriteData(h, len), ~UNCHANGED data
      PROVE  DataType'
  <2>1. fs' # "aborted"
    BY <1>3 DEF WriteData
  <2> QED
    BY <1>3, <2>1, WrittenBlock, KeptType
<1> QED
  BY <1>1, <1>2, <1>3 DEF DataNext, dvars

(* No handle leads to the root, whatever was removed meanwhile.            *)
LEMMA NoneToRootStep == TypeOK /\ DirInv /\ NoneToRoot /\ [Next]_vars => NoneToRoot'
<1> SUFFICES ASSUME TypeOK, DirInv, NoneToRoot, [Next]_vars PROVE NoneToRoot'
  OBVIOUS
<1>1. CASE handles' \subseteq handles /\ UNCHANGED of_inumber
  BY <1>1 DEF NoneToRoot
<1>2. CASE tfs_destroy
  BY <1>2 DEF tfs_destroy, NoneToRoot
<1>3. ASSUME NEW n \in Names, NEW mode \in Modes, OpenFile(n, mode) PROVE NoneToRoot'
  <2>1. PICK e \in DirEntries :
          /\ FindInDir(e, n)
          /\ AddToOpenFileTable(d_inumber[e], StartOffset(d_inumber[e], mode))
    BY <1>3 DEF OpenFile
  <2>2. d_inumber[e] \in Files
    BY <1>3, <2>1, FileFacts DEF OpenFile, Up
  <2> QED
    BY <2>1, <2>2, OpensFile
<1>4. ASSUME NEW n \in Names, NEW mode \in Modes, CreateFile(n, mode) PROVE NoneToRoot'
  <2>1. CASE UNCHANGED openFiles
    BY <2>1 DEF NoneToRoot, openFiles
  <2>2. CASE ~UNCHANGED openFiles
    <3>1. PICK i \in Inodes : i \notin inodes /\ AddToOpenFileTable(i, 0)
      BY <1>4, <2>2 DEF CreateFile, CreateInode, First
    <3>2. i \in Files
      BY <1>4, <3>1 DEF CreateFile, Up, DirInv, Files
    <3> QED
      BY <3>1, <3>2, OpensFile
  <2> QED
    BY <2>1, <2>2
<1>5. CASE tfs_init \/ UNCHANGED vars \/ \E n \in Names : tfs_unlink(n)
  BY <1>1, <1>5 DEF tfs_init, tfs_unlink, vars, openFiles
<1>6. ASSUME NEW h \in Handles PROVE tfs_close(h) => NoneToRoot'
  BY <1>1 DEF tfs_close
<1>7. ASSUME NEW h \in Handles, NEW len \in 1 .. BlockSize
      PROVE  tfs_write(h, len) \/ tfs_read(h, len) => NoneToRoot'
  BY <1>1 DEF tfs_write, tfs_read, Abort, openFiles
<1> QED
  BY <1>2, <1>3, <1>4, <1>5, <1>6, <1>7 DEF Next

(* The invariant of the refinement.                                        *)
LEMMA StoreInvStep == StoreInv /\ [DataNext]_dvars => StoreInv'
<1>1. [DataNext]_dvars => [Next]_vars
  BY DataStep DEF dvars
<1> QED
  BY <1>1, TypeStep, DirStep, BlocksStep, HandlesStep, NoneToRootStep, DataTypeStep DEF StoreInv

LEMMA StoreInvInit == DataInit => StoreInv
<1> SUFFICES ASSUME DataInit PROVE StoreInv
  OBVIOUS
<1>1. TypeOK
  BY ParamsAssumption, RootInTables DEF DataInit, Init, TypeOK
<1>2. DirInv /\ BlocksExclusive /\ HandleInv /\ NoneToRoot
  BY DEF DataInit, Init, DirInv, BlocksExclusive, WithContent, HandleInv, NoneWhileDown,
     OffsetsInFile, NoneToRoot
<1>3. DataType
  BY DEF DataInit, DataType, Unwritten
<1> QED
  BY <1>1, <1>2, <1>3 DEF StoreInv

LEMMA StoreInit == DataInit => Store!Init
<1> SUFFICES ASSUME DataInit PROVE Store!Init
  OBVIOUS
<1>1. FileOf = [n \in Names |-> None]
  BY DEF DataInit, Init, FileOf, Linked
<1>2. ContentOf = [i \in Files |-> <<>>]
  BY DEF DataInit, Init, ContentOf, Content, WithContent
<1>3. CursorOf = [h \in Handles |-> <<>>]
  BY DEF DataInit, Init, CursorOf
<1> QED
  BY <1>1, <1>2, <1>3 DEF Store!Init

(***************************************************************************)
(* One lemma for each operation: the step of the store it makes.           *)
(***************************************************************************)

(* A call that changes nothing but fs, or nothing at all.                  *)
LEMMA StutterStep ==
  ASSUME StoreInv, StoreInv', Kept(data) \/ UNCHANGED data,
         UNCHANGED <<inodes, i_size, i_data_block, directory, handles, of_inumber, of_offset, stale>>
  PROVE  UNCHANGED Store!fvars
BY SameNames, SameContents, SameCursors DEF StoreInv, Store!fvars

(* tfs_init, tfs_destroy: an empty store.                                  *)
LEMMA InitStep ==
  ASSUME StoreInv, StoreInv', tfs_init \/ tfs_destroy, Kept(data)
  PROVE  Store!Destroy
<1>1. FileOf' = [n \in Names |-> None]
  BY DEF tfs_init, tfs_destroy, FileOf, Linked
<1>2. inodes' \subseteq {ROOT_DIR_INUM}
  BY DEF tfs_init, tfs_destroy
<1>3. ContentOf' = [i \in Files |-> <<>>]
  BY <1>2 DEF ContentOf, Content, WithContent, Files
<1>4. handles' = {} /\ stale' = {}
  BY DEF tfs_init, tfs_destroy, StoreInv, HandleInv, NoneWhileDown, TypeOK, openFiles
<1>5. CursorOf' = [h \in Handles |-> <<>>]
  BY <1>4 DEF CursorOf
<1> QED
  BY <1>1, <1>3, <1>5 DEF Store!Destroy

(* tfs_close.                                                              *)
LEMMA CloseStep ==
  ASSUME StoreInv, StoreInv', NEW h \in Handles, tfs_close(h), Kept(data)
  PROVE  Store!Close(h)
<1>1. FileOf' = FileOf /\ ContentOf' = ContentOf
  BY SameNames, SameContents DEF StoreInv, tfs_close, inodeTable
<1>2. CursorOf' = [CursorOf EXCEPT ![h] = <<>>]
  BY DEF CursorOf, tfs_close, StoreInv, TypeOK
<1> QED
  BY <1>1, <1>2 DEF Store!Close

(* tfs_read moves the cursor of a good handle within its file.             *)
LEMMA ReadStep ==
  ASSUME StoreInv, StoreInv', NEW h \in Handles, NEW len \in 1 .. BlockSize,
         tfs_read(h, len), Kept(data)
  PROVE  Store!Read(h) \/ UNCHANGED Store!fvars
<1>1. CASE Abort
  BY <1>1, StutterStep DEF Abort, inodeTable, openFiles
<1>2. CASE ~Abort
  <2>1. FileOf' = FileOf /\ ContentOf' = ContentOf
    BY <1>2, SameNames, SameContents DEF StoreInv, tfs_read, inodeTable
  <2>2. /\ h \in handles /\ UNCHANGED <<handles, of_inumber, stale>>
        /\ ToRead(h, len) > 0
        /\ of_offset' = [of_offset EXCEPT ![h] = @ + ToRead(h, len)]
    BY <1>2 DEF tfs_read
  <2>3. CASE h \in stale
    <3>1. CursorOf' = CursorOf
      BY <2>2, <2>3 DEF CursorOf, StoreInv, TypeOK
    <3> QED
      BY <2>1, <3>1 DEF Store!fvars
  <2>4. CASE h \notin stale
    <3> DEFINE i == of_inumber[h]
               at == of_offset[h] + ToRead(h, len)
    <3>1. CursorOf[h] = <<i, of_offset[h]>> /\ CursorOf[h] \notin {<<>>, <<None>>}
      BY <2>2, <2>4, CursorFacts, CursorKinds DEF StoreInv
    <3>2. CursorOf' = [CursorOf EXCEPT ![h] = <<i, at>>]
      BY <2>2, <2>4 DEF CursorOf, StoreInv, TypeOK
    <3>3. i \in inodes /\ i \in Files /\ of_offset[h] <= i_size[i]
      BY <2>2, <2>4 DEF StoreInv, HandleInv, OffsetsInFile, TypeOK, Files
    <3>4. Len(ContentOf[i]) = i_size[i]
      BY <3>3, ContentType
    <3>5. of_offset[h] \in Nat /\ i_size[i] \in Nat
      BY <3>3, ParamsAssumption DEF StoreInv, TypeOK, Files
    <3>6. at \in of_offset[h] .. i_size[i]
      BY <2>2, <3>3, <3>5, ParamsAssumption DEF ToRead
    <3>7. CursorOf[h][1] = i /\ CursorOf[h][2] = of_offset[h]
      BY <3>1, CursorKinds
    <3> QED
      BY <2>1, <3>1, <3>2, <3>4, <3>6, <3>7 DEF Store!Read
  <2> QED
    BY <2>3, <2>4
<1> QED
  BY <1>1, <1>2

(* Without nothing.                                                        *)
LEMMA NoneLoose == TypeOK => Store!Without({}) = CursorOf
BY DEF Store!Without, CursorOf

(* tfs_open of a file that exists: truncated, the handles in it that are   *)
(* not at its beginning become loose.                                      *)
LEMMA OpenFileStep ==
  ASSUME StoreInv, StoreInv', NEW n \in Names, NEW mode \in SUBSET {"TRUNC", "APPEND"},
         OpenFile(n, mode), Kept(data)
  PROVE  Store!Open(n) \/ Store!OpenTruncated(n)
<1>1. PICK e \in DirEntries :
        /\ FindInDir(e, n)
        /\ AddToOpenFileTable(d_inumber[e], StartOffset(d_inumber[e], mode))
        /\ \/ /\ "TRUNC" \in mode
              /\ i_size' = [i_size EXCEPT ![d_inumber[e]] = 0]
              /\ stale' = stale \cup {h \in OpenHandles(d_inumber[e]) : of_offset[h] > 0}
           \/ UNCHANGED <<i_size, stale>>
  BY DEF OpenFile
<1>2. fs = "up" /\ UNCHANGED <<inodes, i_data_block, directory>>
  BY DEF OpenFile, Up
<1>i. PICK i \in Files : i = d_inumber[e]
  BY <1>1, <1>2, FileFacts DEF StoreInv
<1>3. FileOf[n] = i /\ i \in inodes /\ i \in Inodes /\ i # None
  BY <1>1, <1>2, <1>i, FileFacts DEF StoreInv, Files, Inodes, None
<1>4. FileOf' = FileOf
  BY <1>2, SameNames
<1>5. CASE /\ "TRUNC" \in mode
           /\ i_size' = [i_size EXCEPT ![i] = 0]
           /\ stale' = stale \cup {h \in OpenHandles(i) : of_offset[h] > 0}
  <2> DEFINE H == {h \in OpenHandles(i) \ stale : of_offset[h] > 0}
  <2>1. AddToOpenFileTable(i, 0)
    BY <1>1, <1>5, <1>i DEF StartOffset
  <2>2. stale' = stale \cup H /\ H \in SUBSET handles
    BY <1>5 DEF OpenHandles
  <2>3. Store!OpenIn(Store!Without(H), i, 0)
    BY <1>3, <2>1, <2>2, Opened DEF StoreInv
  <2>4. {h \in Store!In(CursorOf, i) : CursorOf[h][2] > 0} = H
    <3>1. Store!In(CursorOf, i) = OpenHandles(i) \ stale
      BY <1>3, InFile DEF StoreInv
    <3>2. ASSUME NEW h \in OpenHandles(i) \ stale PROVE CursorOf[h][2] = of_offset[h]
      <4>1. CursorOf[h] = <<of_inumber[h], of_offset[h]>>
        BY CursorFacts DEF StoreInv, TypeOK, OpenHandles
      <4> QED
        BY <4>1, CursorKinds
    <3> QED
      BY <3>1, <3>2
  <2>5. ContentOf' = [ContentOf EXCEPT ![i] = <<>>]
    <3>1. i_size'[i] = 0 /\ \A j \in Inodes \ {i} : i_size'[j] = i_size[j]
      BY <1>3, <1>5 DEF StoreInv, TypeOK
    <3>2. Content(i)' = <<>>
      BY <3>1 DEF Content, WithContent
    <3>3. ASSUME NEW j \in Files \ {i} PROVE Content(j)' = Content(j)
      <4>1. j \in Inodes
        BY DEF Files
      <4> QED
        BY <1>2, <3>1, <4>1, SameContent DEF WithContent, StoreInv
    <3> QED
      BY <3>2, <3>3 DEF ContentOf
  <2> HIDE DEF H
  <2>6. Store!OpenIn(Store!Without({h \in Store!In(CursorOf, i) : CursorOf[h][2] > 0}), i, 0)
    BY <2>3, <2>4
  <2> QED
    BY <1>3, <1>4, <2>5, <2>6 DEF Store!OpenTruncated
<1>6. CASE UNCHANGED <<i_size, stale>>
  <2>1. ContentOf' = ContentOf
    BY <1>2, <1>6, SameContents DEF StoreInv
  <2>2. ContentOf[i] = Content(i) /\ Len(ContentOf[i]) = i_size[i]
    BY <1>3, ContentType
  <2>3. i_size[i] \in Nat
    BY <1>3, ParamsAssumption DEF StoreInv, TypeOK
  <2>4. ASSUME NEW at \in Nat, AddToOpenFileTable(i, at) PROVE Store!OpenIn(CursorOf, i, at)
    <3>1. stale' = stale \cup {} /\ {} \in SUBSET handles
      BY <1>6
    <3>2. Store!OpenIn(Store!Without({}), i, at)
      BY <1>3, <2>4, <3>1, Opened DEF StoreInv
    <3> QED
      BY <3>2, NoneLoose DEF StoreInv
  <2>5. StartOffset(i, mode) \in {0, i_size[i]}
    BY DEF StartOffset
  <2>6. Store!OpenIn(CursorOf, i, 0) \/ Store!OpenIn(CursorOf, i, i_size[i])
    BY <1>1, <1>i, <2>3, <2>4, <2>5
  <2> QED
    BY <1>3, <1>4, <2>1, <2>2, <2>6 DEF Store!Open
<1> QED
  BY <1>1, <1>5, <1>6, <1>i

(* tfs_open of a new file; where it fails the new inode is given back.     *)
LEMMA CreateFileStep ==
  ASSUME StoreInv, StoreInv', NEW n \in Names, CreateFile(n, {"CREAT"}), Kept(data)
  PROVE  Store!Create(n) \/ UNCHANGED Store!fvars
<1>1. PICK i \in Inodes :
        /\ CreateInode(i)
        /\ \/ UNCHANGED <<inodes, directory, openFiles>>
           \/ /\ AddDirEntry(n, i)
              /\ inodes' = inodes \cup {i}
              /\ AddToOpenFileTable(i, 0)
  BY DEF CreateFile
<1>2. fs = "up" /\ Linked(n) = {} /\ UNCHANGED <<blocks, stale>>
  BY DEF CreateFile, Up
<1>3. i \notin inodes /\ i \in Files /\ i # None
  BY <1>1, <1>2 DEF CreateInode, First, StoreInv, DirInv, Files, Inodes, None
<1>4. /\ i_size'[i] = 0
      /\ \A j \in Inodes \ {i} : i_size'[j] = i_size[j] /\ i_data_block'[j] = i_data_block[j]
  BY <1>1 DEF CreateInode, StoreInv, TypeOK
<1>5. ContentOf' = ContentOf
  <2>1. Content(i)' = <<>> /\ Content(i) = <<>>
    BY <1>3, <1>4 DEF Content, WithContent
  <2>2. ASSUME NEW j \in Files \ {i} PROVE Content(j)' = Content(j)
    <3>1. j \in Inodes /\ (j \in inodes' <=> j \in inodes)
      BY <1>1 DEF Files
    <3> QED
      BY <1>4, <3>1, SameContent DEF WithContent, StoreInv
  <2> QED
    BY <2>1, <2>2 DEF ContentOf
<1>6. CASE UNCHANGED <<inodes, directory, openFiles>>
  BY <1>2, <1>5, <1>6, SameNames, SameCursors DEF openFiles, Store!fvars
<1>7. CASE AddDirEntry(n, i) /\ AddToOpenFileTable(i, 0)
  <2>1. PICK e \in DirEntries : /\ e \in UnusedEntries
                                /\ d_inumber' = [d_inumber EXCEPT ![e] = i]
                                /\ d_name' = [d_name EXCEPT ![e] = n]
    BY <1>7 DEF AddDirEntry, First
  <2>2. FileOf[n] = None /\ \A m \in Names : FileOf[m] # i
    BY <1>2, <1>3, FileFacts DEF StoreInv
  <2>3. Linked(n)' = {e}
    BY <1>2, <1>3, <2>1 DEF Linked, StoreInv, TypeOK
  <2>4. FileOf'[n] = i
    <3>1. Min({e}) = e
      BY DEF Min, DirEntries
    <3>2. FileOf'[n] = d_inumber'[Min({e})]
      BY <2>3 DEF FileOf
    <3> QED
      BY <2>1, <3>1, <3>2 DEF StoreInv, TypeOK
  <2>5. ASSUME NEW m \in Names \ {n} PROVE FileOf'[m] = FileOf[m]
    <3>1. Linked(m)' = Linked(m) /\ e \notin Linked(m)
      BY <2>1 DEF Linked, StoreInv, TypeOK, UnusedEntries
    <3> QED
      BY <1>2, <2>1, <3>1, OtherName DEF StoreInv
  <2>6. FileOf' = [FileOf EXCEPT ![n] = i]
    BY <2>4, <2>5 DEF FileOf
  <2>7. Store!OpenIn(CursorOf, i, 0)
    <3>1. stale' = stale \cup {} /\ {} \in SUBSET handles
      BY <1>2
    <3>2. Store!OpenIn(Store!Without({}), i, 0)
      BY <1>7, <3>1, Opened DEF StoreInv
    <3> QED
      BY <3>2, NoneLoose DEF StoreInv
  <2> QED
    BY <1>3, <1>5, <2>2, <2>6, <2>7 DEF Store!Create
<1> QED
  BY <1>1, <1>6, <1>7

(* tfs_unlink: the file is gone, and the handles in it are loose.          *)
LEMMA UnlinkStep ==
  ASSUME StoreInv, StoreInv', NEW n \in Names, tfs_unlink(n), Kept(data)
  PROVE  Store!Remove(n)
<1>1. PICK e \in DirEntries : /\ FindInDir(e, n)
                              /\ DeleteInode(d_inumber[e])
                              /\ stale' = stale \cup OpenHandles(d_inumber[e])
  BY DEF tfs_unlink
<1>2. fs = "up" /\ UNCHANGED openFiles
  BY DEF tfs_unlink, Up
<1>i. PICK i \in Files : i = d_inumber[e]
  BY <1>1, <1>2, FileFacts DEF StoreInv
<1>3. FileOf[n] = i /\ i # None /\ Linked(n) = {e}
  BY <1>1, <1>2, <1>i, FileFacts DEF StoreInv, Files, Inodes, None
<1>4. /\ d_inumber' = [d_inumber EXCEPT ![e] = None]
      /\ d_name' = [d_name EXCEPT ![e] = NoName]
  BY <1>1, <1>2, ClearsWhatItFound DEF tfs_unlink, ClearDirEntry, StoreInv, DirInv
<1>5. Linked(n)' = {}
  BY <1>3, <1>4 DEF Linked, StoreInv, TypeOK
<1>6. ASSUME NEW m \in Names \ {n} PROVE FileOf'[m] = FileOf[m]
  <2>1. Linked(m)' = Linked(m) /\ e \notin Linked(m)
    BY <1>3, <1>4 DEF Linked, StoreInv, TypeOK
  <2> QED
    BY <1>2, <1>4, <2>1, OtherName DEF StoreInv
<1>7. FileOf' = [FileOf EXCEPT ![n] = None]
  BY <1>5, <1>6 DEF FileOf
<1>8. inodes' = inodes \ {i} /\ UNCHANGED <<i_size, i_data_block>>
  BY <1>1, <1>i DEF DeleteInode
<1>9. ContentOf' = [ContentOf EXCEPT ![i] = <<>>]
  <2>1. Content(i)' = <<>>
    BY <1>8 DEF Content, WithContent
  <2>2. ASSUME NEW j \in Files \ {i} PROVE Content(j)' = Content(j)
    BY <1>8, SameContent DEF WithContent, StoreInv
  <2> QED
    BY <2>1, <2>2 DEF ContentOf
<1>10. CursorOf' = Store!Without(Store!In(CursorOf, i))
  <2>1. Store!In(CursorOf, i) = OpenHandles(i) \ stale
    BY <1>3, InFile DEF StoreInv
  <2>2. \A h \in Handles : CursorOf'[h] = IF h \in OpenHandles(i) \ stale THEN <<None>> ELSE CursorOf[h]
    BY <1>1, <1>2, <1>i DEF CursorOf, openFiles
  <2>3. CursorOf' = [h \in Handles |-> IF h \in OpenHandles(i) \ stale THEN <<None>> ELSE CursorOf[h]]
    BY <2>2 DEF CursorOf
  <2> QED
    BY <2>1, <2>3 DEF Store!Without
<1> QED
  BY <1>3, <1>7, <1>9, <1>10 DEF Store!Remove

(* What FileStore writes, byte by byte.                                    *)
LEMMA OverwrittenBytes ==
  ASSUME NEW V, NEW s \in Seq(V), NEW at \in Nat, at <= Len(s),
         NEW bytes \in Seq(V), NEW size \in Nat,
         at + Len(bytes) <= size, Len(s) <= size,
         size = at + Len(bytes) \/ size = Len(s)
  PROVE  /\ Store!Overwritten(s, at, bytes) \in Seq(V)
         /\ Len(Store!Overwritten(s, at, bytes)) = size
         /\ \A k \in 1 .. size :
              Store!Overwritten(s, at, bytes)[k] =
                IF k - 1 \in at .. at + Len(bytes) - 1 THEN bytes[k - at] ELSE s[k]
<1> DEFINE n      == Len(s)
           len    == Len(bytes)
           before == SubSeq(s, 1, at)
           after  == SubSeq(s, at + len + 1, n)
           whole  == before \o bytes \o after
<1>1. n \in Nat /\ len \in Nat /\ at \in Nat /\ at <= n /\ size \in Nat
      /\ at + len <= size /\ n <= size /\ (size = at + len \/ size = n)
  OBVIOUS
<1>2. \A k \in 1 .. n : s[k] \in V
  BY ElementOfSeq
<1>3. /\ before \in Seq(V) /\ Len(before) = at
      /\ \A k \in 1 .. at : before[k] = s[k]
  BY <1>1, <1>2, SubSeqProperties
<1>4. /\ after \in Seq(V) /\ Len(after) = size - (at + len)
      /\ \A k \in 1 .. size - (at + len) : after[k] = s[at + len + k]
  <2>1. /\ after \in Seq(V)
        /\ Len(after) = IF at + len + 1 <= n THEN n - (at + len + 1) + 1 ELSE 0
        /\ \A k \in 1 .. n - (at + len + 1) + 1 : after[k] = s[at + len + 1 + k - 1]
    BY <1>1, <1>2, SubSeqProperties
  <2> HIDE DEF after
  <2> QED
    BY <1>1, <2>1
<1>5. Store!Overwritten(s, at, bytes) = whole
  BY DEF Store!Overwritten
<1> HIDE DEF before, after, n, len
<1>6. /\ before \o bytes \in Seq(V) /\ Len(before \o bytes) = at + len
      /\ \A k \in 1 .. at + len :
           (before \o bytes)[k] = IF k <= at THEN before[k] ELSE bytes[k - at]
  <2>1. /\ before \o bytes \in Seq(V)
        /\ Len(before \o bytes) = Len(before) + Len(bytes)
        /\ \A k \in 1 .. Len(before) + Len(bytes) :
             (before \o bytes)[k] = IF k <= Len(before) THEN before[k] ELSE bytes[k - Len(before)]
    BY <1>3, ConcatProperties
  <2> QED
    BY <1>3, <2>1 DEF len
<1>7. /\ whole \in Seq(V) /\ Len(whole) = size
      /\ \A k \in 1 .. size :
           whole[k] = IF k <= at + len THEN (before \o bytes)[k] ELSE after[k - (at + len)]
  <2> DEFINE front == before \o bytes
  <2>1. front \in Seq(V) /\ Len(front) = at + len
    BY <1>6
  <2> HIDE DEF front
  <2>2. /\ front \o after \in Seq(V)
        /\ Len(front \o after) = Len(front) + Len(after)
        /\ \A k \in 1 .. Len(front) + Len(after) :
             (front \o after)[k] = IF k <= Len(front) THEN front[k] ELSE after[k - Len(front)]
    BY <1>4, <2>1, ConcatProperties
  <2>3. Len(front) + Len(after) = size
    <3>1. (at + len) + (size - (at + len)) = size
      BY <1>1
    <3> QED
      BY <1>4, <2>1, <3>1
  <2> QED
    BY <2>1, <2>2, <2>3 DEF front
<1> HIDE DEF whole
<1>8. ASSUME NEW k \in 1 .. size
      PROVE whole[k] = IF k - 1 \in at .. at + len - 1 THEN bytes[k - at] ELSE s[k]
  <2>1. CASE k <= at
    <3>1. k \in 1 .. at /\ k \in 1 .. at + len /\ k <= at + len /\ ~(k - 1 \in at .. at + len - 1)
      BY <1>1, <2>1
    <3>2. (before \o bytes)[k] = s[k]
      BY <1>3, <1>6, <2>1, <3>1
    <3> QED
      BY <1>7, <3>1, <3>2
  <2>2. CASE ~(k <= at) /\ k <= at + len
    <3>1. k \in 1 .. at + len /\ k - 1 \in at .. at + len - 1
      BY <1>1, <2>2
    <3>2. (before \o bytes)[k] = bytes[k - at]
      BY <1>6, <2>2, <3>1
    <3> QED
      BY <1>7, <2>2, <3>1, <3>2
  <2>3. CASE ~(k <= at + len)
    <3>1. /\ k - (at + len) \in 1 .. size - (at + len)
          /\ ~(k - 1 \in at .. at + len - 1) /\ at + len + (k - (at + len)) = k
      BY <1>1, <2>3
    <3>2. after[k - (at + len)] = s[k]
      BY <1>4, <3>1
    <3> QED
      BY <1>7, <2>3, <3>1, <3>2
  <2> QED
    BY <2>1, <2>2, <2>3
<1> QED
  BY <1>5, <1>7, <1>8 DEF len

(* A write changes no file but the one whose block it is.                  *)
LEMMA OtherFiles ==
  ASSUME StoreInv, StoreInv', NEW h \in Handles, NEW len \in 1 .. BlockSize, tfs_write(h, len), ~Abort,
         NEW d, Kept(d),
         \A b \in Blocks : b # i_data_block'[of_inumber[h]] => d[b] = data[b],
         NEW j \in Files,
         j \notin WithContent' \/ i_data_block'[j] # i_data_block'[of_inumber[h]]
  PROVE  Content(j)' = Content(j)
<1>1. PICK size \in 1 .. BlockSize : WriteEffect(of_inumber[h], size)
  BY WriteStep DEF StoreInv
<1> DEFINE i == of_inumber[h]
<1>2. i \in Inodes /\ j \in Inodes /\ UNCHANGED inodes /\ BlockSize \in Nat
  BY <1>1, ParamsAssumption DEF StoreInv, TypeOK, Files, WriteEffect
<1>3. i_size'[i] = size
  BY <1>1, <1>2 DEF WriteEffect, StoreInv, TypeOK
<1>4. \A x \in Inodes : x # i => i_size'[x] = i_size[x] /\ i_data_block'[x] = i_data_block[x]
  BY <1>1 DEF WriteEffect, AllocBlock, StoreInv, TypeOK
<1>5. CASE of_inumber[h] = j
  <2>1. j \notin inodes
    BY <1>2, <1>3, <1>5 DEF WithContent
  <2> QED
    BY <1>2, <2>1 DEF Content, WithContent
<1>6. CASE of_inumber[h] # j
  <2>1. j \in WithContent' <=> j \in WithContent
    BY <1>2, <1>4, <1>6 DEF WithContent
  <2>2. j \in WithContent => i_data_block[j] \in Blocks
    BY DEF StoreInv, BlocksExclusive, TypeOK
  <2>3. j \in WithContent => d[i_data_block[j]] = data[i_data_block[j]]
    BY <1>2, <1>4, <1>6, <2>1, <2>2
  <2> QED
    BY <1>2, <1>4, <1>6, <2>1, <2>3, SameContent DEF StoreInv
<1> QED
  BY <1>5, <1>6

(* A write through a stale handle goes into a block that is lost, or of    *)
(* one file.                                                               *)
LEMMA LooseWrite ==
  ASSUME StoreInv, StoreInv', NEW h \in Handles, NEW len \in 1 .. BlockSize,
         WriteData(h, len), fs' # "aborted", h \in stale
  PROVE  Store!Disturb
<1>1. tfs_write(h, len) /\ ~Abort
  BY DEF WriteData, Abort
<1>2. PICK d : /\ Kept(d)
               /\ \A b \in Blocks : b # i_data_block'[of_inumber[h]] => d[b] = data[b]
  BY WrittenBlock DEF StoreInv
<1>3. /\ UNCHANGED <<handles, of_inumber, stale, directory>>
      /\ h \in handles
      /\ \A x \in Handles : x # h => of_offset'[x] = of_offset[x]
  BY <1>1, WriteStep DEF StoreInv, TypeOK
<1>4. FileOf' = FileOf
  BY <1>3, SameNames
<1>5. CursorOf' = CursorOf
  BY <1>3 DEF CursorOf
<1>6. CursorOf[h] = <<None>>
  BY CursorFacts DEF StoreInv
<1>7. of_inumber[h] \in Files
  BY <1>3 DEF StoreInv, NoneToRoot, Files, TypeOK
<1>8. \E i \in Files : \A j \in Files \ {i} :
        j \notin WithContent' \/ i_data_block'[j] # i_data_block'[of_inumber[h]]
  <2>1. CASE \E i \in Files : i \in WithContent' /\ i_data_block'[i] = i_data_block'[of_inumber[h]]
    BY <2>1 DEF StoreInv, BlocksExclusive
  <2> QED
    BY <1>7, <2>1
<1>9. PICK i \in Files : \A j \in Files \ {i} :
        j \notin WithContent' \/ i_data_block'[j] # i_data_block'[of_inumber[h]]
  BY <1>8
<1>10. ASSUME NEW j \in Files \ {i} PROVE ContentOf'[j] = ContentOf[j]
  BY <1>1, <1>2, <1>9, OtherFiles DEF ContentOf
<1> QED
  BY <1>4, <1>5, <1>6, <1>10 DEF Store!Disturb

(* A write through any other handle goes into its file, at its cursor.     *)
LEMMA FileWrite ==
  ASSUME StoreInv, StoreInv', NEW h \in Handles, NEW len \in 1 .. BlockSize,
         WriteData(h, len), fs' # "aborted", h \notin stale
  PROVE  \E bytes \in Writings : Store!Write(h, bytes)
<1>1. tfs_write(h, len) /\ ~Abort
  BY DEF WriteData, Abort
<1> DEFINE at == of_offset[h]
           fits == Fits(h, len)
<1>2. /\ at + fits \in 1 .. BlockSize
      /\ h \in handles
      /\ of_offset' = [of_offset EXCEPT ![h] = at + fits]
      /\ UNCHANGED <<handles, of_inumber, stale, directory>>
  BY <1>1, WriteStep DEF StoreInv
<1>3. PICK i \in Files : i = of_inumber[h] /\ i \in inodes /\ at <= i_size[i] /\ i \in Inodes
  BY <1>2 DEF StoreInv, HandleInv, OffsetsInFile, TypeOK, Files
<1>4. BlockSize \in Nat /\ at \in Nat /\ i_size[i] \in 0 .. BlockSize
  BY <1>3, ParamsAssumption DEF StoreInv, TypeOK
<1>5. fits \in 1 .. BlockSize
  BY <1>1, <1>2, <1>4 DEF tfs_write, Fits
<1> DEFINE size == IF at + fits > i_size[i] THEN at + fits ELSE i_size[i]
           bytes == [j \in 1 .. fits |-> i]
<1>6. /\ i_size'[i] = size /\ UNCHANGED inodes
      /\ i_size[i] > 0 => i_data_block'[i] = i_data_block[i]
  BY <1>1, <1>3 DEF tfs_write, StoreInv, TypeOK
<1>7. i \in WithContent' /\ i_data_block'[i] \in Blocks
  <2>1. i \in WithContent'
    BY <1>2, <1>3, <1>4, <1>6 DEF WithContent
  <2> QED
    BY <2>1 DEF StoreInv, BlocksExclusive, TypeOK
<1>8. of_inumber'[h] = i
  BY <1>2, <1>3
<1>9. PICK d : /\ Kept(d)
               /\ \A b \in Blocks : d[b] = IF b = i_data_block'[of_inumber[h]]
                                           THEN Copied(h, len) ELSE data[b]
  BY WrittenBlock DEF StoreInv
<1>10. Content(i)' = [k \in 1 .. size |-> Copied(h, len)[k - 1]]
  <2>1. d[i_data_block'[i]] = Copied(h, len)
    BY <1>3, <1>7, <1>9
  <2>2. Content(i)' = [k \in 1 .. i_size'[i] |-> d[i_data_block'[i]][k - 1]]
    BY <1>7, <1>9, ContentNext DEF StoreInv
  <2> QED
    BY <1>6, <2>1, <2>2
<1>11. Content(i) \in [1 .. i_size[i] -> Inodes \cup {Garbage}] /\ ContentOf[i] = Content(i)
  BY <1>3, ContentType
<1>12. ASSUME NEW k \in 1 .. size
       PROVE Copied(h, len)[k - 1] = IF k - 1 \in at .. at + fits - 1 THEN i ELSE Content(i)[k]
  <2>1. k - 1 \in Cells
    BY <1>2, <1>4 DEF Cells
  <2>2. Copied(h, len)[k - 1] = IF k - 1 \in at .. at + fits - 1 THEN i
                                ELSE data[i_data_block'[i]][k - 1]
    BY <1>3, <2>1 DEF Copied
  <2>3. CASE k - 1 \in at .. at + fits - 1
    BY <2>2, <2>3
  <2>4. CASE k - 1 \notin at .. at + fits - 1
    <3>1. k \in 1 .. i_size[i] /\ i_size[i] > 0
      BY <1>2, <1>3, <1>4, <1>5, <2>4
    <3>2. Content(i)[k] = data[i_data_block[i]][k - 1]
      BY <1>3, <3>1 DEF Content, WithContent
    <3> QED
      BY <1>6, <2>2, <2>4, <3>1, <3>2
  <2> QED
    BY <2>3, <2>4
<1>13. Content(i)' = Store!Overwritten(ContentOf[i], at, bytes)
  <2> DEFINE V == Inodes \cup {Garbage}
             s == Content(i)
             new == [k \in 1 .. size |-> IF k - 1 \in at .. at + fits - 1 THEN i ELSE s[k]]
  <2>1. Content(i)' = new
    BY <1>10, <1>12
  <2>2. s \in Seq(V) /\ Len(s) = i_size[i] /\ \A k \in 1 .. i_size[i] : s[k] \in V
    BY <1>4, <1>11
  <2>3. bytes \in Seq(V) /\ Len(bytes) = fits /\ \A k \in 1 .. fits : bytes[k] = i
    BY <1>3, <1>5
  <2>4. size \in Nat /\ \A k \in 1 .. size : k - 1 \in at .. at + fits - 1 \/ k \in 1 .. i_size[i]
    BY <1>3, <1>4, <1>5
  <2>5. new \in Seq(V) /\ Len(new) = size
        /\ \A k \in 1 .. size : new[k] = IF k - 1 \in at .. at + fits - 1 THEN i ELSE s[k]
    BY <1>3, <2>2, <2>4
  <2>6. /\ at \in Nat /\ at <= i_size[i] /\ at + fits <= size /\ i_size[i] <= size
        /\ size = at + fits \/ size = i_size[i]
    BY <1>3, <1>4, <1>5
  <2>7. \A k \in 1 .. size : k - 1 \in at .. at + fits - 1 => k - at \in 1 .. fits
    BY <1>4, <1>5, <2>4
  <2> HIDE DEF new, s, V, bytes, size, at, fits
  <2>8. /\ at \in Nat /\ at <= Len(s) /\ size \in Nat
        /\ at + Len(bytes) <= size /\ Len(s) <= size
        /\ size = at + Len(bytes) \/ size = Len(s)
    BY <2>2, <2>3, <2>4, <2>6
  <2>9. /\ Store!Overwritten(s, at, bytes) \in Seq(V)
        /\ Len(Store!Overwritten(s, at, bytes)) = size
        /\ \A k \in 1 .. size :
             Store!Overwritten(s, at, bytes)[k] =
               IF k - 1 \in at .. at + Len(bytes) - 1 THEN bytes[k - at] ELSE s[k]
    <3>1. s \in Seq(V) /\ bytes \in Seq(V)
      BY <2>2, <2>3
    <3>2. at \in Nat /\ at <= Len(s) /\ size \in Nat
      BY <2>8
    <3>3. at + Len(bytes) <= size /\ Len(s) <= size
      BY <2>8
    <3>4. size = at + Len(bytes) \/ size = Len(s)
      BY <2>8
    <3>5. Store!Overwritten(s, at, bytes) \in Seq(V)
      BY ONLY <3>1, <3>2, <3>3, <3>4, OverwrittenBytes
    <3>6. Len(Store!Overwritten(s, at, bytes)) = size
      BY ONLY <3>1, <3>2, <3>3, <3>4, OverwrittenBytes
    <3>7. \A k \in 1 .. size :
             Store!Overwritten(s, at, bytes)[k] =
               IF k - 1 \in at .. at + Len(bytes) - 1 THEN bytes[k - at] ELSE s[k]
      BY ONLY <3>1, <3>2, <3>3, <3>4, OverwrittenBytes
    <3> QED
      BY <3>5, <3>6, <3>7
  <2> DEFINE over == Store!Overwritten(s, at, bytes)
  <2>10. over \in Seq(V) /\ Len(over) = size
        /\ \A k \in 1 .. size :
             over[k] = IF k - 1 \in at .. at + fits - 1 THEN bytes[k - at] ELSE s[k]
    BY <2>3, <2>9
  <2> HIDE DEF over
  <2>11. \A k \in 1 .. Len(new) : new[k] = over[k]
    BY <2>3, <2>5, <2>7, <2>10
  <2>12. new = over
    BY <2>5, <2>10, <2>11, SeqEqual
  <2> QED
    BY <1>11, <2>1, <2>12 DEF over, s
<1>14. ContentOf' = [ContentOf EXCEPT ![i] = Store!Overwritten(@, at, bytes)]
  <2>1. ASSUME NEW j \in Files \ {i} PROVE Content(j)' = Content(j)
    <3>1. j \notin WithContent' \/ i_data_block'[j] # i_data_block'[of_inumber[h]]
      BY <1>3, <1>7 DEF StoreInv, BlocksExclusive
    <3> QED
      BY <1>1, <1>9, <3>1, OtherFiles
  <2> QED
    BY <1>13, <2>1 DEF ContentOf
<1>15. Len(bytes) = fits /\ bytes \in Writings
  <2>1. Len(bytes) = fits
    BY <1>5
  <2> QED
    BY <1>5, <2>1 DEF Writings
<1>16. CursorOf[h] = <<i, at>> /\ CursorOf[h] \notin {<<>>, <<None>>}
       /\ CursorOf[h][1] = i /\ CursorOf[h][2] = at
  BY <1>2, <1>3, CursorFacts, CursorKinds DEF StoreInv
<1>17. CursorOf' = [CursorOf EXCEPT ![h] = <<i, at + fits>>]
  BY <1>2, <1>3 DEF CursorOf, StoreInv, TypeOK
<1>18. FileOf' = FileOf
  BY <1>2, SameNames
<1> HIDE DEF bytes
<1>19. Store!Write(h, bytes)
  BY <1>14, <1>15, <1>16, <1>17, <1>18 DEF Store!Write
<1> QED
  BY <1>15, <1>19

(* Every call is a step of the store, or changes nothing in it.            *)
LEMMA StoreStep == StoreInv /\ StoreInv' /\ [DataNext]_dvars => [Store!Next]_Store!fvars
<1> SUFFICES ASSUME StoreInv, StoreInv', [DataNext]_dvars
             PROVE  Store!Next \/ UNCHANGED Store!fvars
  OBVIOUS
<1>1. CASE (tfs_init \/ tfs_destroy) /\ Kept(data)
  BY <1>1, InitStep DEF Store!Next
<1>2. ASSUME NEW n \in Names, NEW mode \in SUBSET {"TRUNC", "APPEND"}, OpenFile(n, mode), Kept(data)
      PROVE  Store!Next
  BY <1>2, OpenFileStep DEF Store!Next
<1>3. ASSUME NEW n \in Names, CreateFile(n, {"CREAT"}), Kept(data)
      PROVE  Store!Next \/ UNCHANGED Store!fvars
  BY <1>3, CreateFileStep DEF Store!Next
<1>4. ASSUME NEW h \in Handles, tfs_close(h), Kept(data) PROVE Store!Next
  BY <1>4, CloseStep DEF Store!Next
<1>5. ASSUME NEW h \in Handles, NEW len \in 1 .. BlockSize, WriteData(h, len)
      PROVE  Store!Next \/ UNCHANGED Store!fvars
  <2>1. CASE fs' = "aborted"
    <3>1. Abort /\ UNCHANGED data
      BY <1>5, <2>1 DEF WriteData, tfs_write
    <3> QED
      BY <3>1, StutterStep DEF Abort, inodeTable, openFiles
  <2>2. CASE fs' # "aborted"
    BY <1>5, <2>2, LooseWrite, FileWrite DEF Store!Next
  <2> QED
    BY <2>1, <2>2
<1>6. ASSUME NEW h \in Handles, NEW len \in 1 .. BlockSize, tfs_read(h, len), Kept(data)
      PROVE  Store!Next \/ UNCHANGED Store!fvars
  BY <1>6, ReadStep DEF Store!Next
<1>7. ASSUME NEW n \in Names, tfs_unlink(n), Kept(data) PROVE Store!Next
  BY <1>7, UnlinkStep DEF Store!Next
<1>8. CASE UNCHANGED dvars
  BY <1>8, StutterStep DEF dvars, vars, inodeTable, openFiles
<1> QED
  BY <1>1, <1>2, <1>3, <1>4, <1>5, <1>6, <1>7, <1>8 DEF DataNext

(* tfs_read and tfs_write move bytes of the file the handle was opened in, *)
(* at the handle's offset, although inodes, blocks and directory entries   *)
(* are used again; only through a handle whose file was removed, or cut    *)
(* behind it, can another file change, and one only (operations.c:186-278).*)
(* For tables, blocks and directories of any size.                         *)
THEOREM FileStoreImplemented == DataSpec => ImplementsFileStore
<1>1. DataInit => Store!Init
  BY StoreInit
<1>2. DataSpec => []StoreInv
  BY StoreInvInit, StoreInvStep, PTL DEF DataSpec
<1> QED
  BY <1>1, <1>2, StoreStep, PTL DEF DataSpec, ImplementsFileStore, Store!Spec
=============================================================================
