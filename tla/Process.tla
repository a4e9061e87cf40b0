------------------------------ MODULE Process ------------------------------
(***************************************************************************)
(* The life of a process linked with the library: _start and               *)
(* posixCallMainAndExit of src/crt.zig walk the words the kernel left on   *)
(* the stack, main runs, and the process ends through exit, quick_exit or  *)
(* the return of main, or does not end at all: abort and a failed check    *)
(* reach panic of src/index.zig, an endless loop.                          *)
(***************************************************************************)
EXTENDS Integers, Sequences

CONSTANTS
  Others,       \* threads besides the main one
  main,         \* the main thread
  Argv,         \* the argument pointers the process may get: a set of sequences
  Envp,         \* likewise the environment pointers
  Auxv,         \* likewise the auxiliary vector, of <<tag, value>> pairs
  AuxLen,       \* std.os.linux_aux_raw.len
  PageTag, PageSize,   \* AT_PAGESZ and the page size the library was built for
  Codes,        \* exit codes a program uses (c_int)
  NumFuncs,     \* exit_funcs.len (32 in the code)
  Aborts        \* whether the program calls abort

Threads == Others \cup {main}

ASSUME ProcessAssumption ==
  /\ main \notin Others
  /\ Argv \subseteq Seq(Nat \ {0})
  /\ Envp \subseteq Seq(Nat \ {0})
  /\ Auxv \subseteq Seq((Nat \ {0}) \X Int)
  /\ AuxLen \in Nat /\ PageTag \in 1..(AuxLen - 1)
  /\ Codes \subseteq Int /\ NumFuncs \in Nat

Null == 0
Running == -1     \* no exit status yet

VARIABLES
  argv, envp, auxv,   \* what the kernel passed
  stack,              \* the words from argc_ptr on
  envp_count, i,      \* the counters of the two loops
  aux_raw,            \* std.os.linux_aux_raw
  pc,                 \* where each thread is
  exit_funcs, quick_exit_funcs,
  ri, code,           \* the loop counter and argument of exit, per thread
  refused,            \* the threads that atexit or at_quick_exit has refused
  status              \* the exit status of the process

start == <<argv, envp, auxv, stack>>
funcs == <<exit_funcs, quick_exit_funcs>>
vars == <<start, envp_count, i, aux_raw, pc, funcs, ri, code, refused, status>>

Flat(pairs) == [k \in 1..(2 * Len(pairs)) |-> pairs[(k + 1) \div 2][IF k % 2 = 1 THEN 1 ELSE 2]]

(* The initial stack of a Linux process. *)
Words(av, ev, xv) == <<Len(av)>> \o av \o <<Null>> \o ev \o <<Null>> \o Flat(xv) \o <<0, 0>>

Init ==
  /\ argv \in Argv /\ envp \in Envp /\ auxv \in Auxv
  /\ stack = Words(argv, envp, auxv)
  /\ envp_count = 0 /\ i = 0
  /\ aux_raw = [tag \in 0..(AuxLen - 1) |-> 0]
  /\ pc = [t \in Threads |-> IF t = main THEN "env" ELSE "none"]
  /\ exit_funcs = [k \in 0..(NumFuncs - 1) |-> Null]
  /\ quick_exit_funcs = [k \in 0..(NumFuncs - 1) |-> Null]
  /\ ri = [t \in Threads |-> 0]
  /\ code = [t \in Threads |-> 0]
  /\ refused = {}
  /\ status = Running

At(t, point) == status = Running /\ pc[t] = point
Goto(t, point) == pc' = [pc EXCEPT ![t] = point]

-----------------------------------------------------------------------------
(* A word of the stack by its offset from argc_ptr, as the code addresses it. *)
Word(n) == stack[n + 1]
Inside(n) == n + 1 \in DOMAIN stack

argc == Word(0)

(* MUTANT: the NULL that ends argv is forgotten. *)
EnvpAtEarly == 1 + argc

(* Offset of envp, behind argc, argv and its NULL; of auxv, behind envp's. *)
EnvpAt == 1 + argc + 1
AuxvAt == EnvpAt + envp_count + 1

(* while (envp_optional[envp_count]) *)
CountEnv ==
  /\ At(main, "env")
  /\ IF Word(EnvpAt + envp_count) # Null
     THEN envp_count' = envp_count + 1 /\ UNCHANGED pc
     ELSE Goto(main, "aux") /\ UNCHANGED envp_count
  /\ UNCHANGED <<start, i, aux_raw, funcs, ri, code, refused, status>>

(* MUTANT: the last tag of the table is refused. *)
TagFitsEarly(tag) == tag < AuxLen - 1

TagFits(tag) == tag < AuxLen

(* while (auxv[i] != 0) : (i += 2) *)
ReadAux ==
  LET tag == Word(AuxvAt + i)
  IN  /\ At(main, "aux") /\ tag # 0
      /\ aux_raw' = [a \in DOMAIN aux_raw |->
                       IF a = tag /\ TagFits(tag) THEN Word(AuxvAt + i + 1) ELSE aux_raw[a]]
      /\ i' = i + 2
      /\ UNCHANGED <<start, envp_count, pc, funcs, ri, code, refused, status>>

(* The assertion on the page size, then main. *)
CallMain ==
  /\ At(main, "aux") /\ Word(AuxvAt + i) = 0
  /\ pc' = [t \in Threads |->
              IF aux_raw[PageTag] # PageSize THEN IF t = main THEN "panicked" ELSE pc[t]
              ELSE "user"]
  /\ UNCHANGED <<start, envp_count, i, aux_raw, funcs, ri, code, refused, status>>

-----------------------------------------------------------------------------
(* std.os.posix_environ_raw: the pointers of the slice that getenv searches. *)
Environ == [k \in 1..envp_count |-> Word(EnvpAt + k - 1)]

Table(point) == IF point = "exit" THEN exit_funcs ELSE quick_exit_funcs

(* atexit and at_quick_exit: a slot counts as free when it is not null, and
   nothing is stored in it. *)
Atexit(t, point) ==
  /\ At(t, "user")
  /\ refused' = IF \E k \in DOMAIN Table(point) : Table(point)[k] # Null
                THEN refused ELSE refused \cup {t}
  /\ UNCHANGED <<start, envp_count, i, aux_raw, pc, funcs, ri, code, status>>

(* exit and quick_exit: the handlers from the last slot to the first. *)
ExitCall(t, point, c) ==
  /\ At(t, "user")
  /\ Goto(t, point)
  /\ code' = [code EXCEPT ![t] = c]
  /\ ri' = [ri EXCEPT ![t] = 0]
  /\ UNCHANGED <<start, envp_count, i, aux_raw, funcs, refused, status>>

(* MUTANT: the slot is computed without the - 1. *)
SlotOff(t) == NumFuncs - ri[t]

Slot(t) == NumFuncs - ri[t] - 1

(* MUTANT: the counter does not move past a null slot. *)
ExitSlotStuck(t, point) ==
  /\ At(t, point) /\ ri[t] < NumFuncs
  /\ Table(point)[Slot(t)] = Null
  /\ UNCHANGED vars

(* One slot: a null one is skipped.  (atexit stores nothing, so all are.) *)
ExitSlot(t, point) ==
  /\ At(t, point) /\ ri[t] < NumFuncs
  /\ Table(point)[Slot(t)] = Null
  /\ ri' = [ri EXCEPT ![t] = @ + 1]
  /\ UNCHANGED <<start, envp_count, i, aux_raw, pc, funcs, code, refused, status>>

(* MUTANT: the status is not reduced to a byte. *)
LowByteNot(c) == c

(* MUTANT: a code that is no byte becomes the largest one. *)
LowByteSaturated(c) == IF c \in 0..255 THEN c ELSE 255

(* @truncate(u8, @bitCast(c_uint, c)) *)
LowByte(c) == c % 256

(* std.os.exit: the process is gone. *)
ExitProcess(t, point) ==
  /\ At(t, point) /\ ri[t] = NumFuncs
  /\ status' = LowByte(code[t])
  /\ UNCHANGED <<start, envp_count, i, aux_raw, pc, funcs, ri, code, refused>>

(* main returns c: @intCast(u8, c), then posix.exit without any handler. *)
MainReturns(c) ==
  /\ At(main, "user")
  /\ code' = [code EXCEPT ![main] = c]
  /\ IF c \in 0..255 THEN status' = c /\ Goto(main, "returned")
     ELSE Goto(main, "panicked") /\ UNCHANGED status
  /\ UNCHANGED <<start, envp_count, i, aux_raw, funcs, ri, refused>>

(* abort is unreachable code: it panics, an endless loop. *)
Abort(t) ==
  /\ Aborts /\ At(t, "user")
  /\ Goto(t, "aborted")
  /\ UNCHANGED <<start, envp_count, i, aux_raw, funcs, ri, code, refused, status>>

-----------------------------------------------------------------------------
Exits == {"exit", "quick_exit"}

Startup == CountEnv \/ ReadAux \/ CallMain

Ending(t) == \E point \in Exits : ExitSlot(t, point) \/ ExitProcess(t, point)

Calls(t) ==
  \/ \E point \in Exits, c \in Codes : ExitCall(t, point, c)
  \/ \E point \in Exits : Atexit(t, point)
  \/ Abort(t)

Next ==
  \/ Startup
  \/ \E t \in Threads : Calls(t) \/ Ending(t)
  \/ \E c \in Codes : MainReturns(c)

Spec == Init /\ [][Next]_vars

(* A thread inside the library is scheduled. *)
FairSpec == Spec /\ WF_vars(Startup) /\ \A t \in Threads : WF_vars(Ending(t))

-----------------------------------------------------------------------------
Points ==
  {"none", "env", "aux", "user", "exit", "quick_exit", "returned", "aborted", "panicked"}

TypeOK ==
  /\ envp_count \in Nat /\ i \in Nat
  /\ aux_raw \in [0..(AuxLen - 1) -> Int]
  /\ pc \in [Threads -> Points]
  /\ exit_funcs \in [0..(NumFuncs - 1) -> {Null}]
  /\ quick_exit_funcs \in [0..(NumFuncs - 1) -> {Null}]
  /\ ri \in [Threads -> 0..NumFuncs]
  /\ code \in [Threads -> Int]
  /\ refused \subseteq Threads
  /\ status \in {Running} \cup 0..255

(* The startup code reads only words the kernel wrote, and no slot outside the
   handler table is looked at, also when several threads exit at once. *)
ReadsInside ==
  /\ pc[main] = "env" => Inside(EnvpAt + envp_count)
  /\ pc[main] = "aux" => Inside(AuxvAt + i) /\ Inside(AuxvAt + i + 1)
  /\ \A t \in Threads : pc[t] \in Exits /\ ri[t] < NumFuncs => Slot(t) \in DOMAIN exit_funcs

(* The last value the kernel gave for a tag, 0 when it gave none. *)
LastAux(tag) ==
  LET hits == {k \in DOMAIN auxv : auxv[k][1] = tag}
  IN  IF hits = {} THEN 0
      ELSE auxv[CHOOSE k \in hits : \A l \in hits : l <= k][2]

(* When main runs, environ is exactly the kernel's environment, whatever arguments
   and auxiliary vector surround it, and the auxiliary table holds every entry
   that fits it. *)
StartupExact ==
  pc[main] = "user" =>
    /\ Environ = envp
    /\ \A tag \in 1..(AuxLen - 1) : aux_raw[tag] = LastAux(tag)

(* The exit status is the low byte of a code that some thread really passed to
   exit or quick_exit, or that main returned, even when several threads exit at
   once. *)
StatusHonest ==
  status # Running =>
    \E t \in Threads : /\ pc[t] \in Exits \cup {"returned"}
                       /\ status = code[t] % 256
                       /\ status \in 0..255

(* exit and quick_exit end the process, whoever else is in them. *)
ExitEnds == \A t \in Threads : pc[t] \in Exits ~> status # Running

(* A program that registers one handler succeeds: the table has free slots. *)
AtexitAccepts == refused = {}

(* abort ends the process. *)
AbortEnds == \A t \in Threads : pc[t] = "aborted" ~> status # Running

(* main's return ends the process with the status exit would give. *)
ReturnEnds == [][\A c \in Codes : MainReturns(c) => status' = LowByte(c)]_vars
=============================================================================
