----------------------------- MODULE Fat16Mount -----------------------------
(***************************************************************************)
(* Mounting and unmounting penguin-fat16 (super.c, main.c) around the read *)
(* paths of Fat16. Every allocation and read of fill_super may fail. The   *)
(* memory followed is sbi, the buffer of the boot sector, and i_private of *)
(* the root inode.                                                         *)
(***************************************************************************)
EXTENDS Fat16

VARIABLES
  mount,   \* the next step of fill_super, "mounted", "unmounted" or "oops"
  mem      \* what is allocated

mountVars == <<vars, mount, mem>>

MountInit == Init /\ mount = "unmounted" /\ mem = {}

\* A step that allocates what, or nothing, and goes on; or that fails.
Try(at, what, then, failed) ==
  /\ mount = at
  /\ \/ mem' = mem \cup what /\ mount' = then
     \/ mem' = mem /\ mount' = failed

Then(at, freed, to) ==
  /\ mount = at
  /\ mem' = mem \ freed
  /\ mount' = to

fill_super_KeepBuffer ==
  \/ Try("unmounted", {"sbi"}, "set_blocksize", "unmounted")
  \/ Try("set_blocksize", {}, "bread", "err_free_sbi")
  \/ Try("bread", {"bh"}, "read_bpb", "err_free_sbi")
  \/ Then("read_bpb", {}, "root_inode")
  \/ Then("err_free_sbi", {"sbi"}, "unmounted")

\* sb_bread of the boot sector; brelse once its fields are copied to sbi.
fill_super ==
  \/ Try("unmounted", {"sbi"}, "set_blocksize", "unmounted")
  \/ Try("set_blocksize", {}, "bread", "err_free_sbi")
  \/ Try("bread", {"bh"}, "read_bpb", "err_free_sbi")
  \/ Then("read_bpb", {"bh"}, "root_inode")
  \/ Then("err_free_sbi", {"sbi"}, "unmounted")

\* penguin_fat16_iget reports its failure with ERR_PTR, which is not NULL:
\* fill_super goes on, and d_make_root follows the pointer. A d_make_root
\* that fails drops the inode, and evict_inode frees its i_private.
make_root ==
  \/ Try("root_inode", {"root"}, "d_make_root", "oops")
  \/ mount = "d_make_root" /\ mount' = "mounted" /\ UNCHANGED mem
  \/ Then("d_make_root", {"root"}, "err_free_sbi")

\* kill_block_super, when nothing is open: the VFS evicts the root inode and
\* then calls put_super.
umount ==
  \/ Then("put_super", {"sbi"}, "unmounted")
  \/ /\ held = None /\ inode = penguin_fat16_get_root_inode
     /\ Then("mounted", {"root"}, "put_super")

MountStep ==
  /\ fill_super \/ make_root \/ umount
  /\ IF mount = "unmounted"
     THEN /\ inode' = penguin_fat16_get_root_inode /\ pos' = 0 /\ out' = <<>>
          /\ node' = Root /\ held' = None /\ dentry' = None
     ELSE UNCHANGED vars

\* The last descriptor of Hold is closed.
Release ==
  /\ mount = "mounted"
  /\ held # None
  /\ held' = None
  /\ UNCHANGED <<inode, pos, out, node, dentry, mount, mem>>

Oops == mount = "oops" /\ UNCHANGED mountVars

MountNext ==
  \/ mount = "mounted" /\ Next /\ UNCHANGED <<mount, mem>>
  \/ MountStep \/ Release \/ Oops

MountSpec == MountInit /\ [][MountNext]_mountVars
-----------------------------------------------------------------------------
(***************************************************************************)
(* Whichever step of fill_super fails, and after an unmount, everything is *)
(* freed, once; a mounted file system holds its sbi and its root inode and *)
(* no buffer, and keeps sbi as long as any call may read it.               *)
(***************************************************************************)
MountBalanced ==
  /\ mount = "unmounted" => mem = {}
  /\ mount = "mounted" => mem = {"sbi", "root"}
  /\ inode # penguin_fat16_get_root_inode \/ held # None => "sbi" \in mem
=============================================================================
