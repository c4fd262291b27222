# A TLA+ development of MesaOS

MesaOS is a small kernel for 32-bit PCs: physical and virtual memory, a kernel
heap, preemptive scheduling, a RAM file system and a disk file system, a
network stack with a TCP of its own, a shell on the console.  Everything below
was translated from the code under `src/`; its README says no more than "OS in
development" and there are no tests.  The build is freestanding C++ at `-O2`;
the object files beside the sources show which memory accesses the compiler
emits and in which order, and the modules say where they rely on that.

Contents: [inventory](#1-inventory), [modules](#2-modules),
[runs](#3-runs-bounds-and-what-they-show), [fairness](#4-fairness),
[proofs](#5-proofs), [findings](#6-findings),
[what is left out](#7-not-modelled), [plan](#8-plan).

## 1. Inventory

### Who runs when

There is one processor.  Three kinds of code share its memory:

* **task level**: `kernel_main` and the processes that `add_process` created,
  with interrupts enabled; the timer (IRQ 0) can take the processor away
  between any two instructions;
* **interrupt handlers**, with interrupts disabled, to their end: the timer
  with `schedule`, the keyboard (the *shell and the editor run in it*,
  command by command), the network cards (the *TCP, UDP, ICMP and ARP handlers
  run in them*), the page-fault handler;
* **boot code** before `sti`, to its end.

So "one step" in the models is: a whole handler, a whole boot step, or one
access to shared memory at task level.

### Components

| Component | State | Operations | Hard behaviour | What makes it correct |
|---|---|---|---|---|
| Physical memory (`memory/pmm`, `paging`, boot part of `kernel.cpp`) | bitmap, `used_blocks`, `max_blocks`; place of image, bitmap, heap | initialize, load_memory_map, set/unset_block, allocate/free_block | order of marking, freeing and locking at boot; the bitmap is stored in memory it manages | a frame has one holder; count = bits; image, bitmap and heap are never handed out |
| Virtual memory (`memory/vmm`, page-fault part of `isr.cpp`) | address spaces, page tables, COW marks | create, clone, destroy, switch, map, unmap, allocate/free_page, fault | sharing of frames after clone, fault half way | a write in one space is not seen in another; frames freed once |
| Kernel heap (`memory/kheap`) | `current_addr` | malloc, kmalloc with OOM killer, kfree | no lock; called at task level and in handlers | blocks are disjoint, aligned, in the heap |
| Scheduler (`scheduler`, `interrupts.s`, `isr.cpp`) | process list, `current_process`, `next_pid`, stacks | initialize, add_process, schedule | the timer in the middle of `add_process` | no process or context lost, round robin, nobody starves |
| RAM file system, VFS lookup (`fs/ramfs`, `fs/vfs`) | nodes, slots, frames | create_file/dir, mount, delete, read, write, find_path | long sequences of creates and deletes | a file reads what was written to it |
| Shell (`shell.cpp`) | line buffer, history, pipe buffer, redirection | handle_input, run_command, kprint, pipes | nested in the keyboard interrupt; redirection state across a command | output goes to the file that was named, and is read back |
| Nano (`apps/nano`) | text, cursor, clipboard | keys, load, save | path checks, lengths | what is shown is what is saved |
| MesaFS (`fs/mesafs`, `fs/mbr`, `drivers/ide`) | superblock and entries in memory and on disk | initialize, create, read, write, verify | crash between sectors, restart | metadata and data agree after a restart |
| TCP (`net/tcp`) | list of connections: state, receive ring, send window | connect, listen, accept, send, recv, close, handle_packet | handler against task level; lost, repeated, reordered segments | ordered stream, bounded buffer, states reachable |
| HTTP and SSH servers, package manager (`net/http`, `ssh`, `package`) | sockets, sessions | accept loop, download loop | waiting loops; a socket passed through a global | every accepted client is served |
| IPv4, ARP, ICMP, UDP, DHCP, Ethernet | ARP entry, DHCP state, addresses | send, receive, discover | retry loops, no answer | resolution ends; the answer belongs to the question |
| Firewall (`net/firewall`) | rule list | add_rule, check | order of rules | first match decides |
| Network cards (`drivers/pcnet`, `rtl8139`) | descriptor rings, indices | send, receive, poll, interrupt | ring shared with the device | a slot is used by its owner |
| Keyboard, terminals (`drivers/keyboard`, `vga`) | modifiers, layout; screens, scroll-back | scancode; put_char, scroll, switch | release while another key is down; wrap of the scroll-back | modifiers match the keys; no write outside |
| PIT, RTC, libc, PCI, USB, audio, WiFi, IPv6, crypto, GDT/IDT | little or none | register I/O, conversions, arithmetic | numeric edges | — |

### How they interact

* `kernel_main` lays out memory: `PMM::initialize` → `load_memory_map` → lock
  the image → `KHeap::initialize` → `Paging::initialize` → the rest.
* `RAMFS::create_file`, `VMM`, `Paging` and the page-fault handler take frames
  from the PMM and clear them; the bitmap itself is in such memory.
* Every packet, every process and every node is a `kmalloc`; nothing is ever
  given back (`kfree` is empty).
* The timer calls `schedule`, which returns the stack that `irq_common_stub`
  loads.  `add_process` changes the list under it without a lock.
* The keyboard interrupt runs the shell; the shell writes files while
  redirecting, and the editor saves them, through the VFS lookup.
* The card interrupts run `TCP::handle_packet`, which changes the connections
  that the servers and the package manager poll at task level.

Several units the code includes are not in the repository (`panic`,
`logging`, `syscall`, `signals`, `environment`, `login`, `users`,
`capabilities`, `audit`, `init`, and the bodies of
`Scheduler::remove_process` and the file-descriptor layer).  They are modelled
only as far as the code here uses them: `panic` stops the machine,
`remove_process` takes a process off the list and returns.

## 2. Modules

| Module | Models | Uses |
|---|---|---|
| `PMM` | `memory/pmm.cpp`: bitmap, counters, `set_block`, `free_block`, the search of `first_free_block`, `initialize` | |
| `BootMemory` | `kernel.cpp` 50–76, `load_memory_map`, `Paging::initialize`, and then every order of allocations and frees | extends `PMM` |
| `RoundRobin` | abstract: each tick serves the next process of a growing ring | |
| `Scheduler` | `scheduler.cpp`, `irq_common_stub`, `irq_handler` | implements `RoundRobin` |
| `KHeap` | `memory/kheap.cpp` | |
| `RAMFS` | `fs/ramfs.cpp`, `fs/vfs.cpp` as functions on a state record | |
| `FileStore` | abstract: a list of independent files | |
| `FileShell` | redirection in `shell.cpp`, `touch`/`mkdir`/`rm`, `Nano::save`, boot files | extends `RAMFS`, implements `FileStore` |
| `ByteQueue` | abstract: a bounded queue of bytes, taken by calls | |
| `ReceiveRing` | the receive buffer of `net/tcp.cpp`: `handle_packet` in ESTABLISHED against `recv` | implements `ByteQueue` |
| `VMM` | `memory/vmm.cpp` and the copy-on-write part of `isr.cpp`: directories, tables, pages, faults | |
| `MesaFS` | `fs/mesafs.cpp` over the sectors of the drive, with power failures, and its users in the shell, the editor and the package manager | |
| `TCPConnections` | `net/tcp.cpp` around the ring: list, states, SYN limit, send window; accept loops and a client | |
| `PCNet` | `drivers/pcnet.cpp` and its card as functions on a record of both rings | |
| `Network` | `net/arp.cpp`, `ipv4.cpp`, `icmp.cpp`, `udp.cpp`, `dhcp.cpp`, `ethernet.cpp`, and the commands `dhcp` and `ping`, on a network that loses and reorders | extends `PCNet` |
| `Nano` | the editor's buffer, cursor and clipboard as functions | |
| `Console` | `drivers/keyboard.cpp`, the line, history and completion of `shell.cpp`, the terminals of `drivers/vga.cpp` | extends `Nano` |
| `MC*` | constants and machines for TLC | |
| `*Proofs` | theorems | extend the module they prove about; `MemoryProofs` extends `BootMemory` and `KHeap`, `TCPProofs` `ReceiveRing` and `TCPConnections` |

### From code to state

**PMM / BootMemory.** The bitmap is the set of the blocks whose bit is 1.
`machine` is what the boot loader and the linker determine: end of the image,
memory size, memory map; it is chosen in `Init` and never changes.  `phase` is
the place in `kernel_main`.  `holders` and `granted` are history: who was given
what.  The one subtle effect is that *clients clear the frames they are given*
(`Paging`, `VMM` and `RAMFS` all `memset`): clearing a frame that stores a
piece of the bitmap clears those bits (`HandOut`).  What that costs depends on
the machine, and two facts about a machine say how much: `BitmapLocked`, that
every block of the bitmap is locked with the image or was never freed, and the
weaker `ImageBitsLocked`, that the bits of the image and of block 0 are.  An
allocation is one step, because boot code and handlers cannot be interrupted;
the exception is `kernel_main`'s `create_file("readme.txt")`, which runs once
after `sti`, when the page-fault handler is the only other caller.

**Scheduler.** `add_process` is one step per access to what others can see:
load `next_pid`, store it, load `process_list`, store `proc->next`, store
`process_list`.  The last two are plain stores to different places and
`kernel/scheduler.o` really emits them the other way round, so they come in
either order, and nothing keeps two calls apart.  `raced` is history: calls
overlapped, or a tick came behind a new head whose `next` was not stored yet
(`HeadOnly`).  Registers and program point of a task
are its *context*; the interrupt pushes it, `schedule` stores the stack pointer
in the process it leaves, the stub loads the other one.  `position` is a ghost:
where the code of each process truly is, whatever the stacks say.  The first
process, "kernel", is created with a null entry point and is never started from
it; that frame is `Run(NULL)`.

**KHeap.** Three accesses per `malloc` (load, store of the aligned address,
store of the new end — as in `kheap.o`); handlers allocate in one step.
`raced` records that a `malloc` ran between the first and the last access of
another, `refused` the size of the request that ended in the panic.  Sums wrap
at 32 bits.

**RAMFS / FileShell.** A node finds its data through
`file_contents[inode]`; its place in `files` is another matter, and
`delete_file` moves the places but not the inodes.  That is why slots, nodes
and frames are kept apart.  A name is `[abs, base]`: typed with or without a
leading slash.  `moved` is history: an entry was deleted that was not the last
one.  `Reliable`, which the promises of `FileStore` depend on, is `~moved` and
that there was a frame for each file.  `IsLost` is the case in which output
goes nowhere: there is no such file and its name was typed with a slash (the
node that is created keeps the slash, the lookup strips it), or the list is
full.  Names with a directory part, or longer than the 31 characters a
node keeps, behave like those with a slash: lookup and creation disagree about
them.  The namespace is flat because it is in the code: every RAMFS directory
lists all nodes.  Pieces of output are sequences of abstract bytes; a frame has
`BLOCK` of them.

**ReceiveRing.** `handle_packet` is one step of the card interrupt; `recv` is
one step per access to the connection.  A segment is copied as far as there is
space and acknowledged as a whole.  The last line of `recv`, `recv_count -=
bytes_to_read`, is a load and a store (GCC keeps the difference in a register
with the Makefile's flags); bytes that arrive between the two are not counted,
and `missed` records the first time.  `Out` are the bytes that left the ring
and are still counted, so the abstract queue is the ring from `recv_start` over
`recv_count - Out` places.  No unit here calls `TCP::recv` at two places for
one socket, so there is one reader.

**VMM.** A directory is a function from its user entries to tables, a table one
from its entries to frames with the two bits that matter, writable and
copy-on-write.  Nobody in the repository calls this interface, so all orders of
calls are taken.  `LEVELS` are the privilege levels of the code that runs in
the spaces: `Paging::initialize` sets PG and not WP in cr0, so code at level 0,
as all processes of this repository are, writes through read-only and
copy-on-write entries without a fault; the fault handler is for level 3.  An
operation that allocates several frames takes them in the order of the code
(`Block(i)`), and has one disjunct for each place where memory can run out and
for what is left behind there.  `shared_freed` is history: `free_page` freed a
frame that another space still maps; nothing is promised after that.

**MesaFS.** `disk` are the bytes of the sectors, `meta` the entries in the
metadata sector, `entries` the registry in memory.  A write is `Begin`, one
`WriteSector` per round of the loop, and `Finish` with the length and
`save_metadata`; a power failure comes between any two.  The registry is not
read back after a start (`load_metadata` only returns false).  A name with a
slash in it (a path outside `/disk` that the editor saves, a package, a path
below a directory of the disk) makes an entry that no lookup finds, a new one
each time (`SlashNames`).  `text` and `asked`
are ghosts: what was written, and which byte was ever to be written where.

**TCPConnections.** Connections are named by the order of their allocation
(nothing is freed); `conn[c].next` and `connections` are the list as it is in
memory, `live` the list as it should be.  The client is one step per access,
the handler one step per segment.  History says which races there were:
`list_raced`, the handler changed the list inside a change of it; and for each
connection `raced`, a FIN was handled between the look of `send` or `close` at
the state and what it then does, and `reopened`, `connect` stored ESTABLISHED
over the state a FIN had left.  `late` counts sends of data after a FIN.
`ReceiveRing` has the receive buffer; the two meet in `handle_packet`
only, which touches the ring in ESTABLISHED and nowhere else.

**PCNet / Network.** The rings are functions from index to `[own, frame]`;
driver and card each have their own index.  `backlog` and `waiting` are ghosts,
the frames in the order of their arrival; `InRing` says that a ring holds
exactly these frames, from the reader's index on, in order and with no gap.  A
command runs in the keyboard interrupt and polls; otherwise the card's
interrupt receives.  A frame on its way to the machine may be lost or overtaken
(`inbound` is a set).  `Chatter` is a datagram for a port nobody reads.  An IP
address also stands for its host's MAC, and `Net[mask][ip]` for `ip & mask`.
An offer may have no mask or no router.  A TCP segment is answered by up to two
of ours from inside `receive_packet`, before its slot is handed back
(`HandleSegment`).  `taken` is history: the offers that configured the machine.

**Nano / Console.** The state is what the keyboard, the shell, the editor and
the terminal keep between two scan codes.  `shown` is what the screen has
behind the prompt, `column` where the next character goes (the prompt may end
anywhere in a row), and `torn` that something made screen and line part:
Ctrl+L, Ctrl+C or output of the card's interrupt on a begun line, Down, ESC, a
backspace at the left end of a row, scrolling, another terminal, or a key
before the first prompt, which `Shell::initialize` prints with interrupts on.
`CardPrints` is that output: an echo reply or an offer that comes between two
keys (`icmp.cpp:50-66`, `dhcp.cpp:109`).  On a line that is not begun such
rows, and Ctrl+C, leave no prompt, and the line then begins at column 0.
Characters are "a" (visible) and "v" (stored, not visible).  The editor's
buffer is an array with a terminating zero, as in the code.

## 3. Runs, bounds and what they show

| Run | Question | Result |
|---|---|---|
| `boot_memory` | for eleven machines and every order of allocations and frees: count and single holder while the bitmap is intact, image where its bits are locked, heap against bitmap | holds |
| `vmm` | frames in one role, one write bit per frame, own pages change by nobody else's doing but a level-0 write through a read-only clone | holds |
| `scheduler` | overlapping `add_process`, stores in any order: contexts and RUNNING always; until raced: list, waiting, progress, refinement of `RoundRobin` | holds |
| `kheap` | preempted and interrupted allocations: in the heap; until raced: disjoint, and a panic only for a size that has no room | holds |
| `files` | any deletes, frames run out: writes in bounds, output read back unless `IsLost`, when exactly a redirection truncates; while `Reliable`: own buffers, refinement of `FileStore` | holds |
| `mesafs` | appends and overwrites over sectors, power failure anywhere: read back, saved lengths over written data | holds |
| `mesafs_registry` | the comment that eight entries fit in the sector | violated (finding) |
| `tcp_ring` | segments and a FIN between any two accesses of `recv`: refinement of `ByteQueue` up to the first bytes that the subtraction misses | holds |
| `tcp` | client against handler: the list can be walked and is exact unless cut, one connection of it per peer, FINs and data within bounds that name what each race costs | holds |
| `network` | rings in order, any mixture of offers routes, pings go to no third host, `dhcp` ends with an address | holds |
| `network_gateway` | the comment that only external hosts are sent to the gateway's address | violated (finding) |
| `console` | any scan codes, and output in between: the line shown is the line run, the history, the editor's cursor, the modes | holds |

Properties with several parts (`MemorySound`, `RegistrySound`, `ListSound`,
`SendsInBounds`, `RingsSound`, `RoutedByOffers`, `InputSound`, `ModesAgree`,
`FilesSound`, `PanicOnlyWhenFull`, `Progress`) are conjunctions of named parts,
each with its own comment.

Bounds, and why they are enough:

* `boot_memory`: blocks of 32 bytes, words of 4 blocks, memories of 10–13
  blocks, so that there is a partial last word (13), an image that ends on a
  block, in a block, and with the bitmap in the same or in the next block; maps
  with a hole, with an entry that ends inside a block, with an entry above 4 GB,
  and empty; in some the whole bitmap, or the bits of the image only, or neither
  are stored in locked blocks.  `MAX_HOLDERS` = 2: a second holder is the
  violation; `MAX_USED` caps a count that drifts once the bitmap is cleared.
  Each behaviour exhausts memory and frees it again.
* `vmm`: eight frames, one of them a kernel copy per space, two tables of one
  entry each, two values.  That is room for a space, a clone and a clone of the
  clone or a resolved fault, and too little for more: every allocation of every
  operation fails somewhere.  Writes come from level 0 and from level 3.
* `scheduler`: 5 processes.  The races need two creators and one victim; the
  ring needs three for an order to matter.
* `kheap`: two tasks and handlers, four allocations of sizes 3 and 4 aligned on
  4, in 14 bytes: unaligned start, an exact fit at the end, exhaustion.
* `files`: the names `/readme`, `readme` and one more, four slots (so the table
  fills), texts of one and two bytes over frames of two: exact end and cut-off.
  `MAX_CREATED` exceeds `FRAMES`, so that the null frame is shared in the end.
* `mesafs`: two entries of which one fits in the metadata sector, sectors of
  two bytes, regions of one sector and files of up to four bytes, so that a
  write begins and ends inside sectors, crosses them, and runs into the next
  region; two names that are found and one that is not; one restart, since a
  restart forgets everything but the disk.  Names are interchangeable
  (SYMMETRY).
* `tcp_ring`: a ring of three places and two kinds of bytes; segments of up to
  four bytes, so that one can be longer than the whole ring, meet a partly full
  ring and wrap; reads of zero to three bytes, more or less than there is.
* `tcp`: four connections: the listening one, one of the client
  (`MAX_CONNECTS`) and two of SYNs (`MAX_SYNS`): a removal at the head, in the
  middle and at the end, and a SYN that crosses any of them; two peers
  (SYMMETRY), a window of two and sends of up to two.
* `network`: rings of two, so that they wrap, fill and overrun; a router and a
  remote host that are pinged, a host that asks for the machine or sends it a
  segment (`MAX_CALLS` = 1); two servers of one network, of which one leaves out
  the router and the other the mask; one frame on its way, two commands, one
  echo request per ping (four in the code: a second command repeats it under a
  changed cache).  `network_gateway` pings a local host in the same network.
* `console`: rows of three columns, so that a line of two characters wraps or
  not by where the prompt ends; a history of two, an editor buffer of three
  bytes (opened empty, half full and full) and a clipboard of two, two steps of
  scrolling back, two terminals: every limit is reached.

`CHECK_DEADLOCK FALSE` is set where the system really stops or a bound ends a
run: `boot_memory` (all memory handed out), `kheap` (halted by a panic), `vmm`
(a panic, or what follows is not followed), `mesafs` (all entries taken and
every file at its bound), `tcp`, `network` and `network_gateway` (bounds on
connections and commands reached with nothing on its way).

## 4. Fairness

**Scheduler.** `WF_vars(Timer)`: the PIT runs in
periodic mode and is never stopped, and no code here keeps interrupts disabled
for ever.  `SF_vars(cpu.task = t /\ AddStep)` for each task `t`: between two
ticks there are 10 ms, and a step of `add_process` is a few instructions, so a
task that gets the processor again and again gets its next step done; weak
fairness would not do, because the step is disabled whenever another task runs.
`AllocateProcess` is not fair: nobody has to create processes.

**Network.** `DiscoverSucceeds` uses: the processor goes on (`WF` of `Discover`
and `ScanEnds`); a scan looks at the ring 60 million times before it ends, so a
frame that is there again and again is handled (`SF` of `Scan`); the card sends
when it can (`SF` of `CardTransmits`, which waits while the bounded network is
full); frames do not stay on their way (`WF` of arriving or being lost); and
the network does not lose *every* offer for which the card has a slot (`SF` of
`OfferArrives`).  The last is an assumption about the network and the DHCP
server, without which no client can promise anything.  Commands, chatter and
the hosts that ask are not fair.  While a `dhcp` command polls, chatter comes
only into an empty ring: the loop empties it faster than such datagrams arrive.

## 5. Proofs

Checked with `tlapm <module>`; each theorem holds for every value of the
constants under the named assumptions of the component's module, and for
behaviours of any length.  The assumptions say that sizes are (positive)
numbers and, beyond that: addresses near the end of the heap do not reach the
end of the address space (`HeapAssumption`); a directory has finitely many
tables (`VMMAssumption`); files and completions are sequences of the bytes that
the models tell apart, and a file that is opened fits the editor's buffer (a
longer one overruns it, section 6; `ConsoleAssumption`); texts are sequences of
numbers, and in `MesaFS` they are not empty (a write of nothing changes
nothing), have no zero (they are C strings; zero stands for a byte never
written) and are no longer than the bound on files (`FileShellAssumption`,
`MesaFSAssumption`); hosts, offered addresses and the special addresses differ,
and the servers are of one network: an offered mask puts the local hosts and
all offered addresses together and the remote host elsewhere
(`NetworkAssumption`).  Each is checked for the constants of the run by TLC.
The bounds that cap runs (`MAX_GRANTS`, `MAX_CONNS`, `MAX_SEND` and the like)
are constants too, so a theorem holds however large they are.  One theorem has
a hypothesis of its own: `FilesImplementStore` assumes `FRAMES # 0`, because
the boot code creates a file, and a store whose first file lies in the null
page is not reliable from the start, as `FileStore` has it.

A theorem about a component rests on an invariant in its `*Proofs` module,
which is stronger than the properties because those are not inductive.  What
follows says what had to be added and why.  A recursive function (`Walk` in
`TCPConnections`, `SendFrames` in `PCNet`) and a `CHOOSE` of a least number
(`Strlen` in `Nano`, `First` in `MesaFS`) are unfolded by way of a least
counterexample (`LeastNatural`): if the definition had no solution for some
number, it would have one for the number before, and one more step extends it.

**`MemoryProofs`, boot and frames.**  `BootTypeOK`, `UsedBlocksIsCount`,
`FramesGrantedOnce`, `KernelImageSafe`, `HeapAfterBitmap`.  The first invariant
says, by phase, what is marked (everything after `initialize`; block 0 after
`load_memory_map`; the image from `LockKernel` on), and, *as long as no frame
of the bitmap was granted* (`BitmapIntact`), that holders are marked and that
`used_blocks` is the cardinality.  The code does not ensure that condition
(section 6), so it stands in the properties; it is stable in the useful
direction (`granted` only grows), which is what makes the implication
inductive.  What holds without it depends on the machine: a second invariant
(`MapInv`, `LockInv`) shows that where `BitmapLocked` the bitmap is intact for
ever, so a frame has one holder whatever happened, and that where the bits of
the image are stored in the image (`ImageBitsLocked`) it is never granted, even
when the rest of the bitmap is handed out and cleared.  On the other machines
the image can be handed out, and nothing is claimed.  `HeapAfterBitmap` is
arithmetic: the heap is placed `mem_size/32/8 + 4096` bytes after the image,
the bitmap takes `(max_blocks + 7)/8`, and `BLOCK_SIZE >= 32` gives the bound.

**`MemoryProofs`, heap.**  `KHeapTypeOK` and `BlocksInHeap` need no assumption
on interleaving: the invariant bounds `current_addr` and every saved register
by `END`, so that the sum in the check cannot wrap.  `BlocksDisjoint`, which
the invariant below needs, adds, while `~raced`, that every granted block ends
at or below `current_addr` and that the one `malloc` in progress holds a
register that agrees with it.  `PanicsOnlyWhenFull` is a second invariant over
the first, `FullInv`: a task that found no room for its size found it at a
`current_addr` that has not moved back since, so a request that did not fit
before the OOM killer does not fit when the panic comes (`refused`), and a
process that was killed for its request is never given memory again.

**`SchedulerProofs`.**  Always: `SchedulerTypeOK`, `OneProcessRunning`, and
`SwitchLosesNoContext`, whose invariant says that the saved stack of each
process other than the current one is its true position, or the never-used
frame of "kernel".  Until `raced`: `ListIsExact`, `WaitIsBounded`,
`ImplementsRR`; nothing is assumed about who calls `add_process` or how the
build orders its stores.  The invariant that carries them (`OrderInv`) says
that the list is the descending chain `n-1, ..., 1, 0` of the added processes,
with one more at its head between a head and its late link (`HeadOnly`), that
at most one process is in `add_process` and its registers match the list, and
that `since[p]` is the distance around the ring from `current_process` to `p`.
The refinement maps a tick to a tick of `RoundRobin`, the last of the two
stores to the growth of the ring, and everything else to a stutter; a step that
sets `raced` ends what `RoundRobin` promises (`reliable`).

**`FileShellProofs`.**  `FilesAreSound`, `KprintReadBack`,
`TruncatedFileIsGone`, `FilesImplementStore`.  That files have frames of their
own is not inductive, because a new file takes the slot after the last entry,
whoever still uses it.  `Own` says what excludes that as long as nothing but
the end of the list was deleted and frames lasted: the inode of a file *is* its
place in the list, its frame is one of those handed out so far, and no other
file has it.  `KprintReadBack` needs none of it, only lengths (`Sound`): the
write and the read go through the same slot, even when another file has it too.
It says both ways when output is lost (`IsLost`): then lookup finds after the
write what it found before, nothing, even if a node was added.
`TruncatedFileIsGone` is about lookup alone: the first match is removed, and
another entry may have the name.  For the refinement `Data` maps a state to a
list of files with contents; each operation on `RAMFS` is shown to make a new
entry, append to a file, overwrite its start, remove an entry, or change
nothing of it, and a step of the shell or the editor is one of them.

**`MesaFSProofs`.**  `RegistryIsSound`, `SavedLengthsAreCovered`,
`FilesAreReadBack`, `FilesInTheirRegions`.  `MesaTypes` adds to the types that
an unfinished write begins inside its file or at its end and that the ghost text
is as long as the file.  A place in a file is turned into a
sector and a byte in it; that consecutive places fall in the same or the next
sector, and places of different regions in different ones, is arithmetic with a
quotient by a constant of unknown value (`PlaceIs`, `LaterPlace`, `SameSector`,
`Regions`).  `CoverInv` holds, while no write strayed, at every point where the
power can fail: the saved metadata are the entries as they were before the
unfinished write, no saved length is beyond its region, and all bytes under it,
as well as those the unfinished write has put down so far, are ones asked for.
`ReadInv` says for every byte of every file whether it comes from the unfinished
write or from the text before, under the condition that the entries are apart
*as they will be when the write has ended* (`Grown`); with the lengths of the
registry alone a write could run into the next file before the condition fails.
That the entries are apart is a hypothesis of `FilesAreReadBack`;
`FilesInTheirRegions` derives it from what is known of writes: while none left
its region, directories are empty (`DirectoriesEmpty`) and regions of files do
not meet (`RegionsApart`).

**`VMMProofs`.**  `MemoryIsSound`, `OneEntryWrites`, `OwnPagesKept`.  That at
most one entry writes to a frame is not inductive: a clone makes entries
copy-on-write in one space and leaves those of the other alone, and a fault
turns a copy-on-write entry into a writable one of a new frame.  `OneOwner`
says what survives all of this: of the entries that map a frame at most one is
*not* marked copy-on-write, and only such an entry is ever writable
(`WriteIsOwned`).  Frames in use are marked, and directories, tables and mapped
pages are apart, or a new frame could be one that somebody holds.
`OwnPagesKept` is about what is read, so it names the one step that breaks the
promise of copy-on-write: a write at level 0 through a read-only entry
(`WriteThroughReadOnly`).  All this is
under `~shared_freed`; what the structure of directories and tables needs
(`StructInv`) holds always.  The operations that take several frames need the
lemmas about `Block(i)`, the i-th free frame: it is free, and different i give
different frames (`BlockIs`), which is where finite cardinalities come in.

**`ConsoleProofs`.**  `InputIsSound`, `LineIsShown`, `CursorAtEnd`,
`ModesAlwaysAgree`.  `EditorInv` carries the third: the cursor is where the
text ends *and the clipboard is empty*; a cut at the end of the text cuts
nothing, so there is never anything to paste, and a character typed at the end
moves end and cursor alike.  `ScreenInv` carries the second and the fourth: in
scroll mode screen and line are already torn, and under the editor the line is
empty, so leaving it shows an empty line.  The line may begin at any column and
rows may be printed before it is begun; `column` follows both, because a
backspace at the left end of a row erases nothing on the screen.

**`TCPProofs`, receive buffer.**  `RingIsTyped` holds always: a
segment in the middle of the subtraction can only make the count too small,
because `todo` is at most what was counted when it was read.  Its invariant is
`ReadInv`.  `RingIsByteQueue` and `SegmentsAreKept` hold up to the first bytes
that the subtraction misses (`missed`; from there on `ByteQueue` is not
`reliable`).  Their invariant, `RingInv`, says
that `recv_end` is `recv_start + (recv_count - Out)` around the ring and that
the register agrees with the count.  Modulo is reduced to one subtraction
(`WrapFold`); then `Receive` is a `Put`, a round of the copy loop a `Take`, the
start of `recv` a `Call`, and both halves of the subtraction are stutters.
`SegmentsAreKept`: `Receive` writes
the places behind the unread bytes and no others, so the unread bytes stay and
the front of the segment joins them.

**`TCPProofs`, connections.**  `ListIsSound`, `OnePeerOneConnection`,
`SendsStayInBounds`.  `ChainInv` holds whatever is interrupted: every link but
the listening connection's leads to an older connection, because
`create_connection` points to the head it has read and `remove_connection`
passes a link on.  So every walk ends.  While `~list_raced` the linked
connections form a chain without forks from the head to the listening one
(`Links`), and what the client holds in the middle of an insertion or a removal
still fits that chain (`TaskInv`, `UnlinkInv`): the walk meets all of them and
nothing else (`ListedIsLive`).  `OnePeerOneConnection` exempts no
race.  Its invariant, `PeerInv`, is about a set of connections that links do not
leave and that holds all the client has in its registers (`Covers`): in it,
those that were not removed are on the list, and no two of them have one peer.
A link that the handler's removal or the client's loses takes its connections
out of the set for good, so that the SYN which then makes a second one for the
same peer finds none on the list.  `SendInv` says for each place in the
client's calls which states its connection can be in there, and what a FIN costs
that is handled between a look at the state and its use (`raced`) or that
`connect` overwrites (`reopened`).

**`NetworkProofs`.**  `RingsAreSound`, `OffersRoute`, `EchoNotDiverted`.  For
the rings the invariant says in addition how far one index is ahead of the
other: `card_rx` is `rx_index` plus the length of `backlog` around the ring,
and the same for sending until a slot of the card was overwritten (`overrun`).
Three lemmas about any ring (`EmptyRing`, `RingPut`, `RingTake`) then serve
both; modulo is one subtraction, because no index is two turns ahead (`RemIs`).
A segment that is answered inside the handler only adds frames to the sending
ring.  Address, mask and router are each from some offer that was taken, not
all from one (`SettingsInv`); that they still route together is what the
servers being of one network is for (`OffersRoute`).  For the echo requests,
the entry of the cache is about one host (`cache.mac = cache.ip`), and
`resolve` uses another host's entry only when it is the gateway's.  The theorem
is about the last frame of `Ping`, which follows an ARP request when the cache
does not know the host.

### Only model-checked

* Liveness, `Progress` and `DiscoverSucceeds`: fairness and ENABLED are outside
  what the prover does.  (`BoundedWait`, the safety part of "nobody starves",
  is proved.)
* The two violations, which are counterexamples and need no proof.

## 6. Findings

Two runs end in a counterexample (`PROJECT.json` quotes the lines that say
otherwise).  `mesafs_registry`: `save_metadata` copies all eight entries behind
the header into a sector buffer on the stack.  Each is more than 100 bytes
long, so only the first four reach the disk, and the rest overwrites the stack
of the caller.  `network_gateway`: `arp.cpp:61-63` speaks of external IPs, but
the condition at line 62 never looks at the mask, so a local host that is not
in the cache is sent to the gateway's address too.

Other behaviour that the modules contain and that a reader of the code may not
expect; no run is devoted to it.

*Memory.* `load_memory_map` frees the bitmap's own blocks after they were
marked, and only the image is locked again.  The heap's 4 MB are never marked
either; the page directory is the first frame handed out under them.  A
memory-map entry that ends inside a page frees the whole page (`BootMemory`).
An allocation between the load and the last store of `malloc` returns the same
block twice; the OOM killer frees nothing, so the second try fails as the first
(`KHeap`).  The source of a clone keeps writing into the shared page, although
`vmm.cpp:81` speaks of copy-on-write; and `paging.cpp:32` sets PG without WP,
so code at level 0, which all processes of `scheduler.cpp:39` are, writes
through copy-on-write entries without a fault and the clone is not isolated;
read-only pages become writable in the clone; destroying a space leaves its
pages and kernel copies marked; `allocate_page` loses the frame when there is
none for the table (`VMM`).

*Scheduler.* With the store order of `scheduler.o`, a tick between the last two
stores of `add_process` leaves one process running for ever; two overlapping
calls lose a process, or give two the same pid.  `raced` marks these
(`Scheduler`).

*Files.* After the deletion of an earlier file a new file shares the buffer of
another one; saving a shorter text leaves the old tail.  `> /new` loses what is
written and adds one more node for each piece of it, because the lookup strips
the slash that the creation keeps; `> /name` does not truncate (`FileShell`).
The editor saves a path outside `/disk` as a new entry on the disk that no
lookup finds, one more at each save (`MesaFS`).

*TCP.* A segment that arrives while `recv` subtracts from `recv_count` is
acknowledged and lost (`missed` in `ReceiveRing`).  `connect` stores
ESTABLISHED over the LAST_ACK of a FIN that came after the SYN, and the client
then closes a second time.  Sequence numbers are never
compared, nor converted to network order; a SYN-ACK is never sent again; a FIN
that comes with the ACK in FIN_WAIT_1 is lost; the window never advances, so
after 8192 bytes nothing more is sent while `send` reports success; after ten
SYNs none is taken; a client's `close` after the peer's FIN sends a second FIN;
`accept` looks at the listening connection, which is never ESTABLISHED, so the
servers accept nobody (`TCPConnections`).  The first `recv` that returns 0 ends
a download, and `connect` does not wait for the SYN-ACK.

*Network.* `arp.cpp:29` compares the swapped operation with 0x0100, so requests
are never answered.  The card's interrupt handler
clears the interrupt enable bit when it acknowledges, and only the next send
sets it again.  `send_packet` overwrites slots the card has not sent.  Offers
are taken at any time, without a look at the transaction.  Echo requests are
never answered.  With only an RTL8139 in the machine each send goes through
PCNet's null buffers.

*Console.* The first Up after two or more commands shows the last but one
(`shell.cpp:211` says the last).  Up and Down insert control characters in the
editor.  Ctrl+L and Ctrl+C keep a begun line that is no longer visible, and
Ctrl+C prints no prompt (`shell.cpp:48-52`).  An echo reply or an offer that
the card's interrupt handles prints into the line (`icmp.cpp:50-66`,
`dhcp.cpp:109`), and a key before the first prompt is stored and not shown.
The editor's cursor is always at the end, so cut never cuts and paste has
nothing to paste; its ^C cannot be reached.  Typing in scroll mode is not shown
and does not leave it (`vga.cpp:250` cannot be reached).  A shift code behind
the prefix leaves the prefix pending.  A file of more than 4096 bytes on the
disk overruns the editor's buffer (`nano.cpp:33`), and a first word, or a rest,
of more than 127 characters the arrays `cmd` and `arg` (`shell.cpp:389-399`);
no module covers either.

## 7. Not modelled

`PROJECT.json` lists every component.  Out of reach or without content for a
model: the arithmetic of `crypto.cpp` (its calls are disabled in `mesafs.cpp`),
device registers (PCI, USB, audio, WiFi, GDT/IDT setup), printing and logging,
byte loops of the libc, IPv6 (its messages change no state another part reads)
and the firewall (no unit calls it).

Left out of the modelled parts:

* the shell's pipes: with files and redirection the states of `FileShell` are
  already as many as can be explored, and what reads a pipe only prints.  In
  `a | b | c` the second pipe erases the buffer that `b` has yet to read
  (`shell.cpp:337`);
* the case of letters, colours, ANSI escapes and what the scroll-back stores;
* sequence numbers and checksums; header layouts;
* the RTL8139's ring: a machine has one of the two cards;
* `MesaFS::readdir`, the permission and integrity functions, which nothing that
  changes state calls;
* the bodies of the HTTP and SSH servers behind `accept`, which never returns a
  client.

## 8. Plan

Done: every component above that is modelled or partly modelled.

Left: the firewall's rule list and the RTC's conversions as pure functions, the
RTL8139 as a second card under `Network`, pipes over a smaller file system.

Every safety property and every refinement that a passing run checks is also a
theorem.  New theorems come with new modules: for the RTL8139 that its ring of
bytes is read as it was written, for pipes that the reader gets what the writer
wrote.
