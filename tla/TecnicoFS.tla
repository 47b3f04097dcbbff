------------------------------ MODULE TecnicoFS ------------------------------
(***************************************************************************)
(* TecnicoFS (fs/operations.c, fs/state.c): one directory, files of at     *)
(* most one block, and a table of open files, in memory.  Every operation  *)
(* holds g_library_mutex from its first line to its return, so it is one   *)
(* step.  A call that fails and changes nothing is a stuttering step.      *)
(*                                                                         *)
(* The allocation tables are the sets of what is TAKEN.  The content of a  *)
(* block is left out, but for the root's, which is the directory.          *)
(***************************************************************************)
EXTENDS Integers, FiniteSets

CONSTANTS
  MaxInodes,      \* max_inode_count
  MaxBlocks,      \* max_block_count
  MaxOpenFiles,   \* max_open_files_count
  BlockSize,      \* block_size, in units a file is written in
  MaxDirEntries,  \* MAX_DIR_ENTRIES
  Names,          \* names of files, without the leading '/'
  LongNames,      \* those of MAX_FILE_NAME characters or more
  NoName,         \* what memset leaves in d_name
  MaxOffset       \* bound: no offset grows beyond this

ASSUME ParamsAssumption ==
  /\ MaxInodes \in Nat \ {0} /\ MaxBlocks \in Nat \ {0} /\ BlockSize \in Nat \ {0}
  /\ MaxOpenFiles \in Nat /\ MaxDirEntries \in Nat
  /\ MaxOffset \in Nat /\ MaxOffset >= BlockSize
ASSUME NameAssumption == LongNames \subseteq Names /\ NoName \notin Names

Inodes     == 0 .. MaxInodes - 1
Blocks     == 0 .. MaxBlocks - 1
Handles    == 0 .. MaxOpenFiles - 1
DirEntries == 0 .. MaxDirEntries - 1

ROOT_DIR_INUM == 0
None == -1
Modes == SUBSET {"CREAT", "TRUNC", "APPEND"}

VARIABLES
  fs,             \* "down" before tfs_init, "up", "aborted" by an assertion or a fault
  inodes,         \* freeinode_ts
  i_size, i_data_block,
  blocks,         \* free_blocks
  d_inumber, d_name,
  handles,        \* free_open_file_entries
  of_inumber, of_offset,
  stale           \* history: open handles whose file was deleted, or cut behind them

inodeTable == <<inodes, i_size, i_data_block>>
directory  == <<d_inumber, d_name>>
openFiles  == <<handles, of_inumber, of_offset>>
vars == <<fs, inodeTable, blocks, directory, openFiles, stale>>

TypeOK ==
  /\ fs \in {"down", "up", "aborted"}
  /\ inodes \subseteq Inodes /\ blocks \subseteq Blocks
  /\ i_size \in [Inodes -> 0 .. BlockSize]
  /\ i_data_block \in [Inodes -> Blocks \cup {None}]
  /\ d_inumber \in [DirEntries -> Inodes \cup {None}]
  /\ d_name \in [DirEntries -> Names \cup {NoName}]
  /\ handles \subseteq Handles
  /\ of_inumber \in [Handles -> Inodes]
  /\ of_offset \in [Handles -> 0 .. MaxOffset]
  /\ stale \subseteq handles

(* What malloc returns holds anything.  Only d_name can be read before it  *)
(* is written: clear_dir_entry does not look whether an entry is in use.   *)
Init ==
  /\ fs = "down"
  /\ inodes = {} /\ blocks = {} /\ handles = {} /\ stale = {}
  /\ i_size = [i \in Inodes |-> 0]
  /\ i_data_block = [i \in Inodes |-> None]
  /\ d_inumber = [e \in DirEntries |-> None]
  /\ d_name = [e \in DirEntries |-> NoName]
  /\ of_inumber = [h \in Handles |-> ROOT_DIR_INUM]
  /\ of_offset = [h \in Handles |-> 0]

-----------------------------------------------------------------------------
(* state.c                                                                 *)

(* The searches of state.c all go up from 0.                               *)
First(x, S) == x \in S /\ \A y \in S : x <= y

Linked(n) == {e \in DirEntries : d_inumber[e] # None /\ d_name[e] = n}

(* find_in_dir                                                             *)
FindInDir(e, n) == First(e, Linked(n))

(* clear_dir_entry, whose test is on the name alone.                       *)
ClearDirEntry(n) ==
  \E e \in DirEntries :
    /\ First(e, {x \in DirEntries : d_name[x] = n})
    /\ d_inumber' = [d_inumber EXCEPT ![e] = None]
    /\ d_name' = [d_name EXCEPT ![e] = NoName]

(* add_dir_entry, where it succeeds.                                       *)
UnusedEntries == {e \in DirEntries : d_inumber[e] = None}
(* Mutant: any unused entry.                                               *)
AddDirEntryAnywhere(n, i) ==
  \E e \in UnusedEntries :
    /\ d_inumber' = [d_inumber EXCEPT ![e] = i]
    /\ d_name' = [d_name EXCEPT ![e] = n]

AddDirEntry(n, i) ==
  \E e \in DirEntries :
    /\ First(e, UnusedEntries)
    /\ d_inumber' = [d_inumber EXCEPT ![e] = i]
    /\ d_name' = [d_name EXCEPT ![e] = n]

(* inode_create(T_FILE) in the inode that inode_alloc finds.               *)
CreateInode(i) ==
  /\ First(i, Inodes \ inodes)
  /\ i_size' = [i_size EXCEPT ![i] = 0]
  /\ i_data_block' = [i_data_block EXCEPT ![i] = None]

(* data_block_alloc into the inode of an empty file.                       *)
AllocBlock(i) ==
  \E b \in Blocks :
    /\ First(b, Blocks \ blocks)
    /\ blocks' = blocks \cup {b}
    /\ i_data_block' = [i_data_block EXCEPT ![i] = b]

(* data_block_free, of an inode with content.                              *)
(* Mutant: without the test of the size.                                   *)
BlocksWithoutTest(i) == blocks \ {i_data_block[i]}

BlocksWithout(i) == IF i_size[i] > 0 THEN blocks \ {i_data_block[i]} ELSE blocks

(* inode_delete leaves the fields of the inode as they are.                *)
(* Mutant: the block of the inode is not freed.                            *)
DeleteInodeOnly(i) ==
  /\ inodes' = inodes \ {i}
  /\ UNCHANGED <<blocks, i_size, i_data_block>>

DeleteInode(i) ==
  /\ inodes' = inodes \ {i}
  /\ blocks' = BlocksWithout(i)
  /\ UNCHANGED <<i_size, i_data_block>>

(* add_to_open_file_table.  When the table is full the open fails, after   *)
(* everything it did to the file.                                          *)
AddToOpenFileTable(i, offset) ==
  \/ handles = Handles /\ UNCHANGED openFiles
  \/ \E h \in Handles :
       /\ First(h, Handles \ handles)
       /\ handles' = handles \cup {h}
       /\ of_inumber' = [of_inumber EXCEPT ![h] = i]
       /\ of_offset' = [of_offset EXCEPT ![h] = offset]

-----------------------------------------------------------------------------
(* operations.c                                                            *)

Up == fs = "up" /\ UNCHANGED fs
Abort == fs' = "aborted" /\ UNCHANGED <<inodeTable, blocks, directory, openFiles, stale>>

(* tfs_init: the root takes the first inode and the first block.           *)
tfs_init ==
  /\ fs = "down" /\ fs' = "up"
  /\ inodes' = {ROOT_DIR_INUM}
  /\ i_size' = [i_size EXCEPT ![ROOT_DIR_INUM] = BlockSize]
  /\ i_data_block' = [i_data_block EXCEPT ![ROOT_DIR_INUM] = 0]
  /\ blocks' = {0}
  /\ d_inumber' = [e \in DirEntries |-> None]
  /\ d_name' \in [DirEntries -> (Names \ LongNames) \cup {NoName}]
  /\ UNCHANGED <<openFiles, stale>>

(* tfs_destroy, with nobody in a call: it does not take the mutex.         *)
tfs_destroy ==
  /\ fs = "up" /\ fs' = "down"
  /\ inodes' = {} /\ blocks' = {} /\ handles' = {} /\ stale' = {}
  /\ i_size' = [i \in Inodes |-> 0]
  /\ i_data_block' = [i \in Inodes |-> None]
  /\ d_inumber' = [e \in DirEntries |-> None]
  /\ d_name' = [e \in DirEntries |-> NoName]
  /\ of_inumber' = [h \in Handles |-> ROOT_DIR_INUM]
  /\ of_offset' = [h \in Handles |-> 0]

OpenHandles(i) == {h \in handles : of_inumber[h] = i}

(* The offset is set after the truncation.                                 *)
(* Mutant: the offset is set before the truncation.                        *)
StartOffsetFirst(i, mode) == IF "APPEND" \in mode THEN i_size[i] ELSE 0

StartOffset(i, mode) ==
  IF "APPEND" \in mode /\ "TRUNC" \notin mode THEN i_size[i] ELSE 0

(* tfs_open of a file that exists.                                         *)
OpenFile(n, mode) ==
  /\ Up
  /\ \E e \in DirEntries :
       /\ FindInDir(e, n)
       /\ AddToOpenFileTable(d_inumber[e], StartOffset(d_inumber[e], mode))
       /\ LET i == d_inumber[e]
          IN  \/ /\ "TRUNC" \in mode /\ i_size[i] > 0
                 /\ blocks' = BlocksWithout(i)
                 /\ i_size' = [i_size EXCEPT ![i] = 0]
                 /\ stale' = stale \cup {h \in OpenHandles(i) : of_offset[h] > 0}
              \/ /\ "TRUNC" \notin mode \/ i_size[i] = 0
                 /\ UNCHANGED <<blocks, i_size, stale>>
  /\ UNCHANGED <<inodes, i_data_block, directory>>

(* tfs_open of a file that does not exist, with TFS_O_CREAT.  When the     *)
(* directory does not take the name, the new inode is deleted again.       *)
CreateFile(n, mode) ==
  /\ Up
  /\ "CREAT" \in mode
  /\ Linked(n) = {}
  /\ \E i \in Inodes :
       /\ CreateInode(i)
       /\ \/ /\ n \in LongNames \/ UnusedEntries = {}
             /\ UNCHANGED <<inodes, directory, openFiles>>
          \/ /\ n \notin LongNames
             /\ AddDirEntry(n, i)
             /\ inodes' = inodes \cup {i}
             /\ AddToOpenFileTable(i, 0)
  /\ UNCHANGED <<blocks, stale>>

tfs_close(h) ==
  /\ Up
  /\ h \in handles
  /\ handles' = handles \ {h}
  /\ stale' = stale \ {h}
  /\ UNCHANGED <<inodeTable, blocks, directory, of_inumber, of_offset>>

(* tfs_write writes what fits in the block, and fails when a file without  *)
(* content finds no block.  Beyond the end of the block, what fits is      *)
(* negative: as a size_t it is nearly 2^64, and the copy faults.           *)
(* Mutant: the end of the block is not looked at.                          *)
FitsAlways(h, len) == len

Fits(h, len) == IF len + of_offset[h] > BlockSize THEN BlockSize - of_offset[h] ELSE len

tfs_write(h, len) ==
  /\ fs = "up"
  /\ h \in handles
  /\ Fits(h, len) # 0
  /\ LET i   == of_inumber[h]
         end == of_offset[h] + Fits(h, len)
     IN  /\ i_size[i] > 0 \/ blocks # Blocks
         /\ \/ Fits(h, len) < 0 /\ Abort
            \/ /\ Fits(h, len) > 0
               /\ \/ i_size[i] > 0 /\ UNCHANGED <<blocks, i_data_block>>
                  \/ i_size[i] = 0 /\ AllocBlock(i)
               /\ of_offset' = [of_offset EXCEPT ![h] = end]
               /\ i_size' = [i_size EXCEPT ![i] = IF end > @ THEN end ELSE @]
               /\ UNCHANGED <<fs, inodes, directory, handles, of_inumber, stale>>

(* What is left of the file is a size_t too: with the offset beyond the    *)
(* end of the file it is nearly 2^64, more than any len.                   *)
ToRead(h, len) ==
  LET left == i_size[of_inumber[h]] - of_offset[h]
  IN  IF left < 0 \/ left > len THEN len ELSE left

(* tfs_read: data_block_get asserts that there is a block.                 *)
tfs_read(h, len) ==
  /\ fs = "up"
  /\ h \in handles
  /\ ToRead(h, len) > 0
  /\ \/ i_data_block[of_inumber[h]] = None /\ Abort
     \/ /\ i_data_block[of_inumber[h]] # None
        /\ of_offset[h] + ToRead(h, len) <= MaxOffset
        /\ of_offset' = [of_offset EXCEPT ![h] = @ + ToRead(h, len)]
        /\ UNCHANGED <<fs, inodeTable, blocks, directory, handles, of_inumber, stale>>

(* tfs_unlink, whether or not the file is open.                            *)
tfs_unlink(n) ==
  /\ Up
  /\ \E e \in DirEntries :
       /\ FindInDir(e, n)
       /\ DeleteInode(d_inumber[e])
       /\ stale' = stale \cup OpenHandles(d_inumber[e])
  /\ ClearDirEntry(n)
  /\ UNCHANGED openFiles

Next ==
  \/ tfs_init
  \/ tfs_destroy
  \/ \E n \in Names, mode \in Modes : OpenFile(n, mode) \/ CreateFile(n, mode)
  \/ \E h \in Handles : tfs_close(h)
  \/ \E h \in Handles, len \in 1 .. BlockSize : tfs_write(h, len) \/ tfs_read(h, len)
  \/ \E n \in Names : tfs_unlink(n)

Spec == Init /\ [][Next]_vars

-----------------------------------------------------------------------------
(* Properties                                                              *)

Used == {e \in DirEntries : d_inumber[e] # None}

(* Safety: the inodes taken, but for the root, are those the directory     *)
(* names, each by one entry, and no two entries share a name.  An unlink   *)
(* deletes the inode of the entry tfs_lookup finds, and clears the entry   *)
(* clear_dir_entry finds, which ignores whether an entry is in use and     *)
(* reads names no one has written; a create that fails half-way gives its  *)
(* inode back.                                                             *)
DirectoryMatchesInodes ==
  fs = "up" =>
    /\ {d_inumber[e] : e \in Used} = inodes \ {ROOT_DIR_INUM}
    /\ \A e1, e2 \in Used : e1 # e2 => d_inumber[e1] # d_inumber[e2] /\ d_name[e1] # d_name[e2]

(* Safety: a file with content has a block, which is taken and is no other *)
(* file's, nor the directory's.  Handles that outlived their file write    *)
(* through an inode that is free or another file's, and inodes keep the    *)
(* number of a block they have given back.                                 *)
WithContent == {i \in inodes : i_size[i] > 0}
BlocksExclusive ==
  /\ \A i \in WithContent : i_data_block[i] \in blocks
  /\ \A i, j \in WithContent : i # j => i_data_block[i] # i_data_block[j]

(* Safety: an open handle leads to a file, and to an offset in it, unless  *)
(* its file was unlinked, or truncated by another tfs_open, while it was   *)
(* open: in tfs_read, i_size minus of_offset wraps for those handles only. *)
OffsetsInFile ==
  \A h \in handles \ stale :
    /\ of_inumber[h] \in inodes \ {ROOT_DIR_INUM}
    /\ of_offset[h] <= i_size[of_inumber[h]]

(* Action: a block that is taken belongs to a file; only a write through a *)
(* handle whose file was unlinked or truncated takes one that does not.    *)
Unowned == blocks \ {i_data_block[i] : i \in WithContent}
OnlyStaleLoseBlocks ==
  [][ Unowned' \subseteq Unowned \/ \E h \in stale, len \in 1 .. BlockSize : tfs_write(h, len) ]_vars

(* Action: a read does not go beyond the end of the file, whatever others  *)
(* have done to it: "the number of bytes that were copied from the file    *)
(* ... (can be lower than 'len' if the file size was reached)".            *)
ReadStopsAtEnd ==
  [][ \A h \in Handles, len \in 1 .. BlockSize :
        tfs_read(h, len) /\ fs' = "up" => of_offset'[h] <= i_size[of_inumber[h]] ]_vars
=============================================================================
