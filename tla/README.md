# A TLA+ specification of MOS

MOS is the teaching kernel of this repository: a MIPS exokernel on one CPU, with
a user library that builds processes, files, pipes and a shell on top of its
system calls. This directory holds TLA+ modules that model its core, the TLC
configurations that check them on small instances, and TLAPS proofs of what holds
for instances of every size. `PROJECT.json` maps each definition to the lines it
models and lists the runs, the mutants, the findings, the hazards and the theorems.

    tlc -workers 2 -config MCEnvLibrary.cfg MCEnv     # a run
    tlapm EnvProofs.tla                               # a proof

## 1. Inventory

| Component | State | Operations | Used by, and how | What makes it correct |
|---|---|---|---|---|
| Environments and scheduler (`kern/env.c`, `kern/sched.c`, `include/queue.h`) | `envs[]`, `env_free_list`, `env_sched_list`, `asid_bitmap`, `curenv`, static counters of `mkenvid` and `schedule` | `env_init`, `env_create`, `env_alloc`, `env_free`, `env_destroy`, `env_run`, `schedule` | boot, system calls, timer | list and statuses agree; nobody is skipped; slots and ASIDs are neither lost nor shared |
| System calls and IPC (`kern/syscall_all.c`) | `env_status`, `env_ipc_*` | `sys_yield`, `sys_exofork`, `sys_set_env_status`, `sys_env_destroy`, `sys_ipc_recv`, `sys_ipc_try_send`, `sys_mem_*` | every program, by trap | a receiver is woken by one message, and only a receiver |
| Pages, page tables, TLB (`kern/pmap.c`, `kern/tlbex.c`, `kern/tlb_asm.S`) | `pages[]`, `page_free_list`, directories and tables, the TLB | `page_alloc`, `page_decref`, `pgdir_walk`, `page_insert`, `page_lookup`, `page_remove`, `passive_alloc`, `do_tlb_refill` | env.c, memory system calls, every miss | counts equal pointers; a free page is unreachable; the TLB never disagrees with the tables |
| Pipes (`user/lib/pipe.c`, `pageref.c`) | a shared page with `p_rpos`, `p_wpos`, `p_buf`; the *reference counts* of three pages | `pipe`, `pipe_read`, `pipe_write`, `pipe_close`, `_pipe_is_closed` | shell and programs, through `fd.c` | bytes in order; end of file and broken pipe only when true |
| fork, copy-on-write, spawn (`user/lib/fork.c`, `spawn.c`, `do_tlb_mod`) | page permissions `PTE_COW`, `PTE_LIBRARY` | `fork`, `duppage`, `cow_entry`, `spawn` | shell and programs | parent and child never see each other's writes, except on library pages |
| File system (`fs/fs.c`) | disk, bitmap, block cache, files and directories | `read_block`, `alloc_block`, `free_block`, `file_*`, `fs_sync` | file server | bitmap agrees with reachable blocks; the cache agrees with the disk after a flush |
| File server and clients (`fs/serv.c`, `user/lib/fsipc.c`, `ipc.c`, `file.c`, `fd.c`) | `opentab`, `Fd` pages and their counts, one IPC request at a time; in each process descriptors and mapped blocks | `serve_*`, `open`, `close`, `dup`, `ftruncate`, `write`, `sync` | programs, over IPC | a request gets its own answer; an entry is reused only when nobody has it; what is mapped is the file; what is closed is on disk |
| IDE driver (`fs/ide.c`) | device registers | `ide_read`, `ide_write` | file system | pure I/O |
| Exceptions (`kern/genex.S`, `entry.S`, `traps.c`) | trap frames | entry, dispatch, return | everything | registers survive |
| Shell (`user/sh.c`, `user/lib/wait.c`) | the descriptors of each process of a line, what is left of the line | `parsecmd`, `runcmd`, `main`; through them `fork`, `spawn`, `pipe`, `dup`, `close`, `wait` | the user; drives pipes, fork and files | every line ends, with all its processes, before the prompt; no program misses input |
| Commands, console, library, boot, host tools | - | - | - | text handling and clients of the above |

The components interact in four ways. System calls are ordinary calls: a trap
handler runs with interrupts off and is atomic. The timer interrupts user code
anywhere and calls `schedule(0)`. Environments send each other IPC messages, which
block the receiver in the kernel and make the sender retry in user code. And they
share pages, whose reference counts user code reads (`pageref`).

What is hard: the run list is manipulated with raw pointers, also for environments
that are not on it; slots, envids, ASIDs and pages are reused while stale copies of
them exist; user-level protocols (pipe, fork, file service) are built from several
system calls with preemption between them; allocations in the middle of an
operation fail; nothing outside the disk survives a crash. The `hazards` of
`PROJECT.json` list each such place.

## 2. Modules

| Module | Models | Uses |
|---|---|---|
| `TailQueue` | the `TAILQ` macros, pointer by pointer; what a well-formed queue is | |
| `Env` | `env.c`, `sched.c`, process system calls and IPC, the timer | `TailQueue`, `RoundRobin` |
| `RoundRobin` | abstract: a queue whose head runs for `pri` slices | |
| `Pmap` | `pmap.c`, `tlbex.c`, memory system calls, the address space part of `env.c` | |
| `Cow` | `fork`, `duppage`, `cow_entry` of `fork.c`, `do_tlb_mod` | `Fork` |
| `Fork` | abstract: a fork copies each page at one instant | |
| `Pipe` | `pipe.c` with the page counts and closing order it depends on | `Fifo` |
| `Fifo` | abstract: a bounded channel | |
| `Fs` | `fs.c`, as the requests of `serv.c` and `user/lib/file.c` use it | |
| `FileServer` | `serv.c` and its clients: `fsipc.c`, `ipc.c`, `file.c`, the descriptors of `fd.c` | `Rpc` |
| `Rpc` | abstract: a remote procedure call | |
| `Shell` | `sh.c` with `fork`, `spawn`, `wait`, `dup`, `close`, `exit` and the pipes of many processes | |
| `TailQueueProofs`, `EnvProofs` | theorems about the above | `Env` |
| `FileServerProofs` | theorems about the above | `FileServer` |
| `PipeProofs`, `CowProofs`, `PmapProofs`, `FsProofs`, `ShellProofs` | theorems about the modules they are named after | `Pipe`, `Cow`, `Pmap`, `Fs`, `Shell` |
| `MCEnv`, `MCPmap`, `MCCow`, `MCPipe`, `MCFs`, `MCFileServer`, `MCShell` | what TLC needs besides the `.cfg` files | |

### Env

One step is one trap handler, from entry to the return to user code. Each field of
`struct Env` that matters is a function over slots: `status`, `envId`,
`parentId`, `asid`, `pri`, `recving`. `sched` is `env_sched_list` with every
`tqe_next`, `tqe_prev` and `tqh_last`, because the code calls `TAILQ_REMOVE` on
elements that have left the list (`sys_ipc_recv` followed by `schedule`, and
`env_free`), and the effect depends on the links left in them. `env_free_list` is
only ever popped and pushed at its head and is a sequence. An envid is the pair of
`mkenvid`'s serial and the slot; `IdMod` is the number of serials, 2^21 in the code.
`child` is the local variable of `fork`/`spawn` that holds the child's envid.

`schedule` is an operator over the state the handler has reached, so that
`sys_ipc_recv` and `env_destroy` are one action with the call to `schedule` inside.
A null link that is dereferenced, a failed assertion and the panic of `schedule`
set `halted` and end the behaviour.

The registers, the address space and the contents of a message are left out.
Whether `env_setup_vm` finds a page is a free choice. `Extra` selects what programs
do beyond the library: `spawn_abort` is the error path of `spawn`, `kill` a parent
that destroys a child, `set_status` the call `syscall_set_env_status` made at will.
With `Extra = {}` programs do what `user/lib` does: `exit`, `fork` (begin and
end as two calls with anything in between), `yield`, send, receive.

### Pmap

Directories, tables and data pages are all pages with entries, so that the mapping
of a directory into itself (`UVPT`) needs no special case: address `<<UVPT, i>>` is
where a process sees its table `i`, and a walk reaches it by the general rule.
Index `UENVS` of every directory is the part copied from `base_pgdir`. A handler is
a chain of operators from memory to memory, one per C function, so failures leave
exactly what the C code leaves behind. A page is zeroed by `page_alloc`, a
freed page keeps its contents. `pp_ref` is 16 bits wide (`RefMod`). The TLB is a set
of at most `TLBSize` entries; a refill replaces an arbitrary one, as `tlbwr` does,
and an entry without `PTE_V` is no entry. An environment is named by its ASID (that
no two live ones share one is `TableInv` of `Env`). Any live environment may call and name any other: `Env` has
the permission checks, `Pmap` does not rely on them.

Of a page's permission bits only `PTE_D` is kept. `PTE_COW` and `PTE_LIBRARY`
matter to user code only; they, and `do_tlb_mod`, are in `Cow`.

### Cow

A step is one system call or one access to memory of one environment, with the timer
between any two. `pt[e][va]` is the page table entry with `PTE_D`, `PTE_COW` and
`PTE_LIBRARY`; `fork[e]` holds the locals of `fork` (the child, the pages done, and
whether `duppage` is between its two `syscall_mem_map` calls), `store[e]` a store
that has not gone through, `cow[e]` where `cow_entry` is. A store to a page without
`PTE_D` traps, runs `cow_entry` one system call at a time and is then tried again.
While in `fork` a parent stores to its stack, as compiled code does. An exhausted
memory and an exhausted environment table take the paths of the code: `fork` goes on
with an error code as the child's envid, `cow_alloc`'s failure is not looked at and
the copy asks for the page on demand.

`Fork` knows words and no pages. The refinement maps an environment to what it reads
at each address, whatever page that is.

Page tables are not counted among `Pages`, so the maps of `duppage` do not fail for
want of one; which page `page_alloc` gives out is fixed, since nothing tells one free
page from another.

### Pipe

A step is one access to the shared page or one system call of the running process,
and the timer may switch between any two. A parent calls `pipe` and `fork`, whose
`duppage` calls map the pages one by one, then both close the end they do not use
and issue reads or writes of arbitrary length, and may close at any time.
`sameRuns[p]` says whether `env_runs` is still what `_pipe_is_closed` read first.
`p_rpos` and `p_wpos` count modulo `PosMod` (2^32, a multiple of the buffer size).

### Fs

One step is one request of a client (`serve_open`, `serve_map`, ...), since the
server handles one at a time, or one store by a client into a block it has mapped.
The functions of `fs.c` are operators from memory to memory; `m.r` is the return
value. Where the code has a pointer to a `struct File`, the model has its place, a
block and a slot in it. Blocks carry no type: `AsDir` and `AsPtr` read whatever is in
a block as directory entries or as block numbers, as the casts of the code do, so the
model does not assume that a block is used for what it was last used for. A data
block holds one word repeated.

A block is in the cache from its first use on (`unmap_block` has no caller), so the
disk is read only at boot contents: `Image` is what `tools/fsformat.c` writes for
a disk with one file. What has reached the disk since is kept as `unsaved`, the
data blocks whose cache page is newer. `dirty` is the PTE_DIRTY bit, which nothing
clears. `page_alloc` may fail for any block that a request brings into the cache, and
succeed for the next: `Mem` is the blocks for which it succeeds.

Directories may lie in directories to any depth: `Files` are the places that can be
reached from the root (`closure`), as `walk_path` would come to them. `Contents` says
what a block can hold, but not which block holds what.

Clients follow `user/lib/file.c`: close sends `FSREQ_DIRTY` for each block and then
`FSREQ_CLOSE`, and other requests may come between. They are assumed to hold one
descriptor per file at a time, to write, truncate and remove regular files only, and
to remove no open file. With `Careful` they also blank a block before giving it up;
finding 4 is what happens otherwise.

### FileServer

A step is one turn of the server, one call of `ipc_send` or `ipc_recv`, or what a
process does between two requests. `opentab` has the `o_fileid` of each entry and
whether its `Filefd` page was ever allocated; `pageref` counts who has the page
mapped, the server included, and `open_alloc` and `open_lookup` go by that count.
`fds[p][n]` is the entry mapped as descriptor `n`, with a ghost: the fileid it had
when `p` got it. `data[p][n]` are the pages mapped from `fd2data` on, each a block of
the server's cache or a page of the process's own (what a store to an unmapped
address gets). `filefd` is shared by all who have the descriptor, size included, as
in the code, where `ftruncate` changes it before the server has agreed.

`call[p]` has the locals of the library call `p` is in; `ipc[p]` where it is in
`fsipc`. `open` asks for the file and then maps it block by block, `ftruncate` and
`write` past the end change the size, map the new blocks or put the old size back,
`close` marks each block dirty and flushes, `dup` closes its target first, `exit`
closes everything. Allocation of a block or its cache page may fail on each `MAP`.
`fork` shares descriptors and blocks in one step (`Cow` and `Shell` have its parts).

There is one file, and sizes are in blocks; `Fs` has the other files, partial blocks
and directories. If the open file table is full `serve_open` answers with an error and
goes on with an uninitialised entry; the model stops the server there (`"lost"`), and
the bound on calls keeps the run clear of it. `MappingsCurrent` is claimed for careful
programs, and the guards `Alone`, `Usable` and `Quiet` say which those are: who
changes a file's size has its only descriptor, and after a failed change only closes
it. Stores and closes through shared descriptors are not restricted.

### Shell

A step is one system call on pages that somebody counts, or one decision of `sh.c`.
The shell forks a child per line; the child's `parsecmd` forks again at `|`, `;` and
`&`, moves descriptors with `dup` and `close`, spawns the program and waits, for its
program and then for the right side of its pipe. `todo` is the sequence of mapping
calls a process is about to make, computed by operators named after the library
functions (`close`, `dup`, `Share`, `close_all`), in the order the code makes them.
Calls on console and file pages are merged with the call before them (`Silent`):
nobody counts those pages. A pipe is the number of bytes in it, and a process that
asks whether it is closed compares the two reference counts, which all processes of
the line are changing. `echo` writes, `cat` copies, `none` cannot be started.

The shell has descriptors 0 and 1 on the console and 2 on `.history` (`init_history`),
as has every process it forks. A redirection opens its file, perhaps after creating it.
If the file cannot be opened even then, `dup` and `close` get an error for a descriptor,
do nothing, and the line goes on; if it cannot be created the process ends.

`pipe()` and the `exofork` of `fork` are one step each: nobody else can see the new
pages or the new environment yet. One line is typed in each behaviour. `MaxProcs` bounds
the environments that are ever created: nothing forks or spawns when they are used up
(`Room`).

## 3. Runs

| Run | Bounds | States | What it shows |
|---|---|---|---|
| `env_library` | 3 slots, 3 ASIDs, priorities 1 and 2, 2 boot environments, 5 envids of 6 | 85,295 | All of it for programs that use the library: the invariant the comment at `env.c:18` states, receivers sleep, forks under way hold a valid child, no wake-up is lost, panics only when idle, no starvation, refinement of `RoundRobin` |
| `env_any_call` | 3 slots, 2 ASIDs, serials modulo 3, every `Extra` | 752,625 | Whatever programs call, and although envids repeat and ASIDs run out, the free list and the ASID bitmap are exact |
| `env_spawn_abort` | as `env_library`, with `spawn_abort` | violation | `spawn`'s error path breaks the run list |
| `pmap` | 2 ASIDs, 5 pages, TLB of 1 | 25,892 | Counts, free list, privacy of tables, TLB coherence, and that no step disturbs a second mapping |
| `pmap_leak` | 2 ASIDs, 2 pages | violation | `sys_mem_alloc` loses a page when there is none for the table |
| `cow` | 3 environments, 4 physical pages, a page not mapped at first, a shared page and the stack, 3 forks, 3 stores | 465,062 | What a fork leaves behind never lets a store through to somebody else; programs see what `Fork` shows them; every store goes through or the memory is exhausted |
| `pipe` | buffer of 2, positions modulo 4, calls of up to 3 bytes, 5 bytes, time slices of any length or of 16 steps | 1,077,910 | Bytes in order (`Fifo`), "closed" is true whenever it is reported, and with the longer slices both processes finish |
| `pipe_eof` | 1-byte calls, 2 bytes | violation | End of file is reported with bytes in the buffer |
| `fs` | 7 blocks, 1 direct and 1 indirect block number, 1 file per directory block, sizes 0, 2 and 3 with blocks of 2, 3 paths, 1 open file | 87,259 | Blocks owned once and none lost, no panic, closed data on disk, one file per request |
| `fs_reuse` | as `fs`, `Careful` off | violation | A reused block is read as block numbers |
| `serv` | 2 processes with 2 descriptors each, 3 entries, a file of up to 2 blocks, 4 calls | 369,933 | Entries are not given away while held, mappings follow the file, closed data is on disk, `fsipc` implements `Rpc`, every call returns |
| `shell` | 9 lines of up to three programs, 7 environments, 6 descriptors, buffers of 1, 2 bytes | 192,053 | "Closed" is true whenever a program asks, every line ends with all of its processes, and the prompt comes last |

Why the bounds suffice. Three slots give a head, a middle and a tail of the run list,
a slot that is freed and taken again while a third environment holds its old envid,
and a list that becomes empty. `MaxIds` leaves room for five allocations in three
slots, so every slot can be reused. `IdMod = 6 > MaxIds` keeps the serials of
`env_library` below the wrap-around: with 2^21 of them the code needs two million
allocations to get there, and past that point a stale envid can name a new tenant,
which the code does not guard against. `env_any_call` does wrap. Two priorities
distinguish a first tick from a last. Five pages are a directory and a table for
each of two environments and one page for them to share, replace and fight over; a
third environment, or an allocation at the wrong time, runs out of pages, and a third
`env_alloc` runs out of ASIDs. A TLB of one entry makes refills evict, and one
stale entry is all that incoherence needs. A buffer of two with calls of three bytes
makes the writer block inside a call, and five bytes wrap both positions.

In `Fs`, four blocks remain for all files and directories besides the root directory's
first, so the disk runs full between the two allocations of a growing file. Two block
numbers per file put the second one behind the indirect block, sizes 2 and 3 are a
whole block and one with a partial second block, and one file per directory block
makes a second file grow the directory, and a third need its indirect block. The
paths are two files in the root, or a directory with a file of the same name as one
next to it.

In `Cow`, three environments are a parent, its child and a second child or a
grandchild while the first fork's pages are still shared; the slot of one that exits
is used again. Four pages are the three of the address space and one for copies, so
memory runs out in the middle of a copy. Two words tell a store that went through to
somebody else from one that did not.

In `FileServer`, four calls are enough for open, fork, dup and a write or a
change of size, after which `exit` closes what is left at no cost of calls. `open`
never takes the last descriptor, so no more than two of the three entries are held at
a time and the table does not run full, while an entry is used again within a
behaviour. Two blocks are a first and a last one, between whose `DIRTY` and `MAP`
requests those of others come.

The lines of `MCShell` have two and three stages, a command that cannot be started on
either side of a pipe, redirection of both kinds, with and without a pipe, each of
`;` and `&`, and a line that ends where a file name should be. Seven environments are
the shell, and two for each of three stages.

`SYMMETRY` is used in the `pmap` runs over pages and ASIDs, which the model never
orders; both check safety only.

Deadlock is not checked: the kernel halts when nobody is runnable or after a
panic, and the two processes of a pipe end.

Fairness. `Env` assumes weak fairness of `Tick` alone: `kclock_init` programs a
timer that keeps firing, and a user program cannot mask it. Programs are assumed
to do nothing in particular; `NoStarvation` holds although they may yield, send and
fork for ever. `Pipe` assumes that the CPU goes on executing the running process
(`WF` of `UserStep`); for `AllDone` also that a time slice is not shorter than 16
accesses (`Quanta`), since a timer that fired inside every round of the retry loop of
`_pipe_is_closed` would keep it looping; a slice of the machine is millions of
instructions. The safety properties of the run have slices of any length as well.
`Cow` assumes weak fairness of each environment's pending store and its `cow_entry`,
`FileServer` that of the server and of each process that is in a call: both are what
`NoStarvation` of `Env` says of whoever is runnable. `Shell` only assumes that some
step is taken while there is one: its processes wait for events, so nothing more is
needed.

Each property has a mutant, a plausible slip in the code it is about (a dropped
`TAILQ_REMOVE`, a count that is not incremented, a TLB entry that is not flushed, a
buffer that counts as full one byte late), under which TLC reports it violated.

## 4. Findings

1. **`env_free` unlinks what may not be linked** (`kern/env.c:412`). `spawn`'s error
   path destroys a child that is still `ENV_NOT_RUNNABLE`. If its slot was never
   used the store goes through a null `tqe_prev`; otherwise the links of the former
   tenant are followed and a runnable environment drops off the list, against the
   comment at `env.c:18`.
2. **`sys_mem_alloc` loses a page** (`kern/syscall_all.c:158`) if `page_insert` fails
   for want of a page table.
3. **`pipe_read` returns 0 too early** (`user/lib/pipe.c:148`). It finds the buffer
   empty, is preempted, the writer writes and closes, and the reader then finds the
   pipe closed and never looks at the buffer again, against the comment above the
   function.
4. **A reused block keeps its old contents** (`fs/fs.c:141`). `free_block` leaves the
   block in the cache and `map_block` returns at once if it is there. If the block
   becomes the indirect block of a file, its old data are taken for block numbers and
   `read_block` panics ("reading free block" or "reading non-existent block").

## 5. Proofs

Seven modules are proved about, for every value of their constants that their
assumptions allow. `Env`: slots are `0 .. NENV-1`, there is at least one ASID and
serial, boot environments fit the table and the ASIDs, `HEAD` and `NULL` are not
slots (`EnvAssumption`, `TailQueueAssumption`). `FileServer`: finitely many
processes, at least one descriptor, entry and block of size, `NIL` is no process,
block, descriptor or call (`FileServerAssumption`, `NilAssumption`). `Pipe`: the
modulus of the positions is a multiple of the size of the buffer, as 2^32 is
(`PipeAssumption`). `Cow`: finitely many pages, the stack is the last page that
`fork` comes to and is private, `NIL` is no word, entry, fork or store
(`CowAssumption`, `NilAssumption`). `Pmap`: finitely
many ASIDs, pages and indices of tables, the indices `UENVS` and `UVPT` are no user's,
the boot pages are not free, `NIL` is no page, ASID or entry (`PmapAssumption`).
`Fs`: a disk has more than the four blocks that `fsformat` fills, blocks, slots and
direct numbers are at least one, a file has no fewer numbers with its indirect block
than without (`FsAssumption`); names are not blank, paths are sequences of them, a block
can be written blank (`ProgramAssumption`); `NIL` is nothing that a block holds
(`NilAssumption`). `Shell`: at least one process and byte of buffer, more than five
descriptors, lines are made of symbols and words (`ShellAssumption`), `NIL` is no
process, word or page (`NilAssumption`).

**The table, whatever programs call** (`EnvProofs`, any `Extra`).
`TypeSafe: Spec => []TypeOK` and `TableSafe: Spec => []TableInv`. The inductive
invariant is `TypeOK /\ TableInv /\ CurenvLive`. `CurenvLive` (the running
environment is not a free slot) is needed because `envid2env(0)` names `curenv`
without a check of its status: were `curenv` free, `sys_env_destroy(0)` would put it
on the free list twice. The type invariant needs no help from the run list:
`Queues` allows null links, and each macro stays within it even for a list that is
broken.

**The run list, for library programs** (`EnvProofs`, `Extra = {}`).
`RunListSafe`, `CurenvSafe`, `ReceiversSafe`, `StopsSafe`, `ForksSafe` and the action
property `YieldSafe` follow from

    TableInd /\ SchedListInv /\ CurenvIsHead /\ ReceiversAreBlocked
             /\ StopsOnlyWhenIdle /\ ForksUnderWay

No conjunct is inductive alone. Removing the caller of `sys_ipc_recv` twice is
harmless only because it is the *head* of the list (`CurenvIsHead`): its `tqe_prev`
is the list head, whose cell the first removal has already set to what the second
one stores. `TailQueueProofs` states this as `RemoveTwice`. Waking a receiver is
safe only because it is blocked, hence by `SchedListInv` not on the list
(`ReceiversAreBlocked`); starting a forked child needs the same of the child, and
that the child is nobody's receiver and nobody else's child (`ForksUnderWay`). The
finding above is where this argument stops: with `spawn_abort` the removed
environment is neither on the list nor the former head.

`TailQueueProofs` shows for each macro that a chain spelling `s` becomes a chain
spelling the expected sequence (head inserted, appended, head removed, head moved
to the tail), so the proofs of `Env` never open the pointers.

`CurenvSafe` and `YieldSafe` are not checked by a run as well: the refinement of
`RoundRobin`, which is, implies them.

`RoundRobinImplemented: Extra = {} => (Spec => ImplementsRoundRobin)` maps the pointers
of the run list to the sequence they spell (`SeqOf`), and each handler to what it does
to that queue: a tick goes on with the head or moves it to the tail, whoever blocks or
exits leaves from the head, whoever wakes is appended or inserted as the macro says.
That there is one such sequence is `SeqOfChain` of `TailQueueProofs`: two chains that
share their links agree on every position, because the least position where they
differed would be preceded by one whose `tqe_next` is two things (`ChainAgrees`). The
slices need `SlicesOk` besides: the priorities of live environments are positive, those
of children being their parents', and whoever runs has slices left.

**Envids** (`EnvProofs`, `NoWrap == MaxIds < IdMod /\ MaxBoot < IdMod`).
`IdsNameSlotsSafe` (for any `Extra`) and `NoLostWakeupSafe` (for library programs) are
claimed while fewer serials have been used than an envid has bits for: past that a stale
envid names a new tenant, and `env_any_call` shows the code going there. `IdsOk` says
that no envid in the table has a serial above the counter of `mkenvid`. Without it a
blocked child could lose its parent silently: a new environment would be taken for the
parent of an old child whose parent is dead. `NoLostWakeup` is then inductive together
with `SchedInd`, whose `ForksUnderWay` says that the parent's `child` is that child.

**The file server and its clients** (`FileServerProofs`).
`TypeSafe: Spec => []TypeOK` follows from `Ind`, which ties together what the parts
know of each other. A request on its way has the block number its type allows, and
whoever is in a call, unless it has only asked for `OPEN` yet, has its descriptor
mapped (`CallOk`): without that, the next `DIRTY` or `MAP` would be computed from a
descriptor that is not there. The server works only for a process that waits for it,
and an answer "ok" to `OPEN` carries a `Filefd` page (`ServerOk`), which is what makes
the descriptor be there once the answer has been received.

`HeldSafe: Spec => []HeldOpen` adds `HeldInd`. While a `Filefd` page is on its way to
the client, nobody has it as a descriptor, and the count that `open_alloc` goes by
does not show it; the entry is safe only because the server does nothing else until
the client has it, which is why the invariant says of the page in the reply what it
says of descriptors. `UnusedIsFree` is the counting argument: where the server's own
mapping is one, `pageref <= 1` leaves none for descriptors.

`RpcImplemented: Spec => ImplementsRpc` maps a client to "done" while the server has
its answer, to "asked" from its request until then, and to "idle" otherwise. `serve` is
`Execute`, `SendReply` is `Return`, a request after an answer or at the beginning of a
call is `Ask`, the end of a call is `Forget`, and the waiting of `ipc_send` and
`ipc_recv` is no step at all. It uses `ServerOk`: without it the answer could be for
somebody who has not asked.

`MappingsSafe: Spec => []MappingsCurrent` and `ClosedDataSafe: Spec => []ClosedDataOnDisk`
follow from `All == Ind /\ HeldInd /\ Fresh /\ DataInd`. `DataInd` says how far each call
has come, counting an answer that has arrived and not been looked at (`Have`): `open` has
mapped the first `i` blocks and no others (`Pages`), and those exist (`Filled`); `close`
has marked the first `i` blocks (`Marked`); `ftruncate` knows the old size and the new, and which of the two the server
has. `ftruncate` and `write` past the end are possible only for the one who has the only
descriptor, while the others at most `sync`, and that stays so during the call (`Sole`)
because nobody can get a descriptor from a process that is busy, nor open the file
(`Quiet`): this is where the guards on careful programs are used. `FdData` is what
descriptors at rest must satisfy, a file of a failed `ftruncate` less than others. Nothing
of the file is unsaved once every descriptor there is has its `CLOSE` answered (`DiskData`). `Fresh` says that who has not
been forked yet has no descriptor, so that fork shares every one there is with a process
that had none. `HeldInd` is needed for the request of a call to find the entry of its
descriptor. TLC checked `DataInd` as an
invariant of the run with 4 calls and with 5 before it was proved.

**Pipes** (`PipeProofs`). `TypeSafe: Spec => []TypeOK` includes that no more than a
buffer lies between the positions, so it needs to know of each call that whoever is
about to move a byte still has one, or room for one (`CallOk`): the other process may
only have made that better since it was looked up. Positions are compared modulo
`PosMod` and used modulo `BY2PIPE`; the first lemmas are about the two remainders
(`Wraps`: because `BY2PIPE` divides `PosMod`, nothing breaks at the wrap-around).

`ClosedSafe: Spec => []ClosedIsTrue` is the argument that `_pipe_is_closed` needs and
`pageref.c` does not give. `MapsOf` says which of the four pages a process has mapped in
each phase, hence what the counts are, and `Fresh` that counts read in a round during
which `env_runs` has not changed are still the counts: no one else has run. Equal
counts then mean that the other process has unmapped its descriptor, and it unmaps
that one first and never maps it again. With `close` in the other order `MapsOf` has
a state in which the counts agree too early.

`FifoImplemented: Spec => ImplementsFifo` maps the buffer to the bytes between the
positions. A process that is about to advance its position has already moved the byte:
`FifoInd` says that it is the byte at that position, which nobody else touches, as
only the writer stores, and never to a place that is still to be read.

**fork and copy-on-write** (`CowProofs`). `PrivateSafe`, `FaultsSafe` and the refinement
follow from

    CowInd == TypeOK /\ Pte /\ Shares /\ EnvsOk /\ BlankOk /\ NoBadFault

`WritableIsPrivate` alone says nothing of pages that are marked copy-on-write, and those
become writable again. `Shares` compares any two mappings: a page is shared by a
writable mapping and another only in the two places that are on their way
(`MayShare`): `duppage` between its two calls, and `cow_entry` between mapping the copy
at `UCOW` and at its address. `Pte` ties the bits of one entry together (an entry of a
private page is writable or marked, never both), `EnvsOk` says what `fork` and
`cow_entry` hold at each of their steps, in particular that a child under construction
does not run, and `BlankOk` that a free page holds zeroes, so that a page had on
demand is the one that `Fork` hands out. That the parent's stack, to which it
stores inside `fork`, is the last page it comes to is what keeps those stores from
being lost.

`ForkImplemented: Spec => ImplementsFork` shows of each step that a word changes for
nobody but the one who stores it, that a fork copies what the parent has at that
moment, and that nothing else of `fork`, `cow_entry` or `exit` can be seen.

**Pages, page tables and the TLB** (`PmapProofs`). The theorems have the hypothesis
`[]FewRefs`: no page ever has as many pointers as `pp_ref` has values. The code
does not ensure it: `pp_ref` is a `u_short`, `page_insert` increments it without a look
(`pmap.c:252`), and one program can map a page at half a million addresses below `UTOP`,
so no assumption on the constants would be justified. After 65536 mappings the count of
a page in use would be 0, against `pmap.h:17`; with `RefMod = 4` in `MCPmap.cfg` TLC
shows `RefCounts` violated in that way. `FewPointers` shows that `FewRefs` holds in every
instance whose addresses can all be counted, that of the run `pmap` among them. Under it
`RefCountsSafe`, `FreeListSafe`, `TablesPrivateSafe`, `CoherentSafe`, `TypeSafe`,
`DecrefSafe` (the assertion of `page_decref`) and the action property `OneMappingSafe`
follow from `PmapInv`, which is, but for the size of the TLB and that assertion,

    Sound == Typed /\ Private /\ Counted /\ FreeOk /\ SelfMaps /\ Coherent

a predicate of a memory and the directories, so that it can be shown of every
intermediate memory of a call, one C function after the other. Nothing weaker is
inductive: the counts need the tables to be `Private`, or a store into one table would
change pointers of two environments; a page may be released only because it is
`Counted`, or it would go on the free list under somebody; and `Coherent` needs
`SelfMaps`, the entries `UVPT` and `UENVS` of every directory, through which a change
of a table shows at a second address, as `env_free` and `passive_alloc` have to know.
`Coherent` is also claimed for ASIDs that no one has (there the TLB
holds nothing but what all directories share), which is what makes it survive the reuse of an ASID.

`Pointers` gives each place that can name a page a name of its own; `Refs` is the set
of those that name a given page. All changes come down to two lemmas about one pointer,
`AddPtr` (a null pointer is set to a page that is `Data`, or to one nobody points to) and
`DropPtr` (a pointer is cleared and its page released), and to four kinds of stores. On
top of them there is one lemma for each C function (`Alloc`, `Remove`, `Walk`, `Insert`,
`PassiveAlloc`, `Tlbwr`, `Setup`). `Insert` has two cases that do not meet: where an old
page is removed first there is a table already, and the walk that follows allocates
nothing; where a table has to be allocated there was no old page.
`env_free` is two nested folds in any order: that `FoldSet`'s function exists
(`FoldExists`) and keeps what one step keeps (`FoldKeeps`, `Subsets`) is proved from
induction over the natural numbers on sets, so `RemovePages` and `FreeTables` hold for any number of
entries. `NextInv` shows besides the invariant that a step touches at most one mapping.

**The file system** (`FsProofs`, `Careful`). `TypeSafe`, `OwnedOnceSafe`, `NoBlockLostSafe`,
`ClosedDataSafe` and the action property `OneFileSafe` follow from
`Inductive: Careful => (Spec => []IInv)`, for a disk of any number of blocks, files with
any number of direct and indirect block numbers, directories of any depth, paths of any
length and any sizes. `Careful` is the condition that programs blank a block before they
give it up. The code does not ask it of them, and `user/fstest.c:58` removes a file with
data in it; finding 4, the run `fs_reuse`, shows that without it the server panics. So that the
server does not panic is not stated as a theorem: it would be one about the programs that
avoid the only way to a panic which is known. The five theorems say what `fs.c` keeps for
careful programs, under the rules for clients of section 2. The run `fs` has the same
condition.

    IInv == Good(Memory(Blocks), {}) /\ FdsOk(Memory(Blocks), fds) /\ DataOk(Memory(Blocks), fds)
    Sound(c, X) == Boot(c) /\ Owns(c, X) /\ Once(c) /\ Kept(c, X) /\ Blank(c, X)
                   /\ Kinds(c) /\ Sized(c) /\ Named(c)

`Good` says that the server has not panicked, that what is dirty or unsaved is in the
cache, and that the disk `c`, what is in the cache and what has not been read, is
`Sound`. `Owns`, `Once` and `Kept` are what the run's invariants say: the numbers in
files are those of blocks in use, each once, and no block in use is without. `X` are the
blocks that `alloc_block` has handed out and nobody owns yet; a request begins and ends
with none. None of the rest can be left out. `Blank` makes a new block an index of no
numbers or slots of no files, whatever it was before. `Kinds` says that
what a file's type and the place of a number promise is what is in the block: blocks have
no type of their own, and an index read as data, or data as an index, would put any
number into a file. `Sized` keeps numbers from lying behind the size, where
`file_truncate` would not find them and `dir_alloc_file` takes what it finds for a new
block; for a directory the bound is sharper than for a file, because `file_truncate`
counts one block more than `dir_lookup`. `Named` says that a slot
without a name has no blocks, since `dir_alloc_file` gives it away as it is.
`FdsOk` has the half-way states of `close`: what is not on disk of the blocks it has
passed is dirty, so that `FSREQ_CLOSE` will write it. `DataOk` is about the files that
are not open.

The proof has one lemma for each function of `fs.c`, of two kinds. What is done *inside*
a file is described by what it leaves alone: `Frame` (all other files, named in a set,
keep their sizes, their blocks and what is on disk), `Grows` (a file has more blocks than before),
`Cut` (one fewer), `Calm` (only the cache and the disk have changed). Loops are functions
of the number of turns, and what holds before a turn holds after it by induction over
the natural numbers: searching a directory, which may allocate blocks on
the way and fail at any of them, walking a path, clearing blocks, flushing. All stores come down to a few lemmas
about the set of files, `AllOf`, the least set closed under the slots of directories:
what a store that is not into a directory does to it (nothing), what new blank slots add,
and what becomes of it when a number is put in or taken out. Each request then
`Serves`: the invariant holds after it, and the files before and after it are `Near`
each other, but for one. `OneFileSafe` is that second half. That the set `Files` that
TLC computes step by step is `AllOf` is `FilesAre`, by induction over how many places
are missing.

**The shell** (`ShellProofs`). `TypeSafe`, `PromptSafe` and `ClosedSafe` hold for any
number of processes, descriptors and bytes and for lines of any length. What is mapped
after a system call depends on the calls of the same sequence that are still to come, of
several processes at once, so nothing said of `map` alone is inductive. The invariant has
two functions besides the variables, which `IInv` quantifies over: `fin[p]`, what `p` will
have when the calls in its `todo` are made, and `by[q]`, who forked or spawned `q`.

    IInv == \E fin, by : used \in Seq(0 .. BY2PIPE) /\ Base(map, status, proc, Len(used), fin, by)
    Base == Typed /\ Ids /\ Idle /\ Works /\ Born /\ Ready

`Works` says that the calls of `p` lead from `map[p]` to `fin[p]` through mappings that
are all `Fine` (`Seg`): a descriptor of a pipe always has the pipe's buffer behind it.
This is where the order of the code is needed, buffer first in `dup`, descriptor first in
`pipe_close`. A child that does not run yet has part of its parent's mappings, and the
parent's first calls give it the rest (`Lends`); only then do parent and child move
their descriptors. `Ready` says that descriptors 0, 1 and 2 are open and no others once the
calls are made (`Std`), which makes those of `pipe()` be 3 and 4. There is one lemma per
library function: `close`, `dup`, `close_all` and `Share` yield such sequences from the
mappings they start with. A step of `sh.c` is then one of three kinds, `LocalAct`,
`ForkAct` and `ExitAct`, and a step of `Syscall` some calls of a sequence.

`PromptSafe: Spec => [](Named(NIL, proc[Root].line) => PromptComesLast)` adds `Tree`: for
a line without `&`, somebody older waits for each process that is left, by its `right` or
its `kid` (`Waited`). Older, because then a waiting chain ends at the shell: the
descent of `TreePrompt`. The hypothesis says that each `|` has a command
before it. The code needs it: at `| cat`, `runcmd` returns when `argc` is 0, without
waiting for the right side of the pipe.

`ClosedSafe: Spec => [](~Contains(proc[Root].line, "&") => ClosedIsTrue)` adds `Keeping`,
which says who has which end when all calls are made: two processes that go on to use
their descriptors share an end of a pipe only if one of them waits at a `;` for the other
(`Loans`, `Lent`), and an end that a parent is about to give away stays with it or the
child (`Held`). So while a program has an end, nobody is giving the same end to a child
(`NoHeirs`), and every mapping of the end is a running process's with a mapping of the
buffer behind it. As many buffers as ends then means that there is no buffer behind
anything else (`OntoBuffers`), and the other end would have one. The hypothesis cannot be
dropped (see Limits). TLC checked `Keeping` on the states of the run `shell`
before it was proved, with `fin` and `by` computed from the state.

Left to TLC: liveness (`NoStarvation`, `AllDone`, `StoresComplete`, `AllReturn`,
`EveryLineEnds`), which is outside the prover's reach; `NoPanic` of `Fs`, which holds of
careful programs only, as just said; and `NoLeak`, `EofMeansEmpty` and the properties of
the other violation runs, which do not hold. Every other property of
the runs is stated by a theorem, those of `Env`, `Fs`, `Pmap` and `Shell` under the
conditions named above.

## 6. Limits

- `ReceiversAreBlocked`, `SchedListInv` and what rests on them are claimed for
  library programs only. A parent that destroys a waiting child leaves
  `env_ipc_recving` set in the slot, and an environment that blocks itself with
  `sys_set_env_status` runs on off the list.
- `Pipe` has two processes; `Shell` has the many that a line makes. `ClosedIsTrue` of
  `Shell` is claimed, and proved, for lines without `&`. The run `shell` has two lines
  with one, in which nobody spawns while somebody else reads. Behind a `|` it is
  different. Whoever forks or spawns maps the ends of pipes into the child before the
  buffers (`fork.c:132`, `spawn.c:206`), and in `echo | cat & cat` the shell does so with
  the reading end while the first `cat` reads: for a moment there are as many mappings
  of the end as of the buffer, and `_pipe_is_closed` answers 1 with the writer still
  there, against the comment at `pipe.c:89`. That it compares `env_runs` does not help,
  as the counts do not change between its two reads. With `Lines <- AmpLines` and
  `MaxProcs = 8` in `MCShell.cfg` TLC finds that state.
- A line in which a `|` has no command before it has no program on the left, whose
  `runcmd` returns without waiting, so `PromptComesLast` is not claimed for it; nor for
  lines with `&`.
- In `Shell`, `pipe()` and `fork` do not fail, nor does `spawn` once it has read the
  program's header: `Room` is a bound, not an answer of the kernel. `sh.c:163` does not
  look at what they return; a `pipe()` that fails leaves two descriptor numbers
  uninitialised. Nor does mapping the file fail in the `open` of a redirection, which
  then returns 0 (`file.c:57`).
- `Shell` has no line editing, history, characters of a token or paths, and one line
  per behaviour. What a program reads from a file is a number of bytes.
- `Cow` does not count page tables; `spawn`'s image and stack are not modelled.
- `FileServer` has no `fd_offset`: two processes that use a shared descriptor read
  and write where they say. It has one file, and no restart. A full open file table
  ends the model. That `open` returns 0 when a mapping fails (`file.c:57`) is in the
  control, but no property depends on the number it returns.
- `env_ipc_value`, `env_ipc_from` and `env_ipc_perm` are not kept in `Env`; the
  message and its sender are in `FileServer`.
- `Pmap` shows that memory is consistent after `sys_ipc_try_send` ignores a failed
  `page_insert`, not that the receiver learns about it.
- `Fs` does not restart. Directories, indirect blocks, the super block and frees in
  the bitmap are not followed to the disk: only blocks that a client marked are ever
  flushed, so a restart would lose them. `read_block` ignores a failed
  `syscall_mem_alloc`; the model lets that page be had.
- `Fs` has clients that keep to the rules above. Two descriptors of one file, removal
  of an open file or of a directory with files in it, and a mapping past the end of a
  file are listed under `hazards`.
- No run has 65536 mappings of a page, and the theorems about `Pmap` exclude them.

Not modelled: the IDE driver (register I/O), saving and restoring of registers, the
console and `printk`, string and ELF routines, the text handling of shell and
history, the user programs other than the readers and writers of a line, and the host
tools except the image that `fsformat` writes.

## 7. Plan

1. `Fs` with a crash between any two disk writes and a restart from the disk: which
   blocks are on disk for all kinds of blocks, what a restart finds of a closed file,
   blocks the disk's bitmap calls free while the disk's directories name them, and
   what `fs_sync` leaves behind.
2. `fd_offset` of descriptors that are shared; `spawn`'s memory; several lines, one
   after the other, in a behaviour of `Shell`.
3. Theorems about `Fs` with a crash, once it is there.
