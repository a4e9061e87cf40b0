--------------------------- MODULE ProcessProofs ---------------------------
(***************************************************************************)
(* Startup and termination, for every stack the kernel may leave,          *)
(* every table size and any number of threads.                             *)
(***************************************************************************)
EXTENDS Process, SequenceTheorems, TLAPS

USE ProcessAssumption

Vectors == argv \in Argv /\ envp \in Envp /\ auxv \in Auxv

(* Elements of a concatenation. *)
LEMMA Joined ==
  ASSUME NEW s \in Seq(Int), NEW r \in Seq(Int)
  PROVE  /\ s \o r \in Seq(Int)
         /\ Len(s) \in Nat /\ Len(r) \in Nat /\ Len(s \o r) = Len(s) + Len(r)
         /\ \A k \in 1..Len(s) : (s \o r)[k] = s[k]
         /\ \A k \in 1..Len(r) : (s \o r)[Len(s) + k] = r[k]
<1>1. \A k \in 1..Len(r) : Len(s) + k \in 1..(Len(s) + Len(r)) /\ Len(s) + k > Len(s) /\ Len(s) + k - Len(s) = k
  OBVIOUS
<1> QED
  BY <1>1, ConcatProperties

(* The words still lie as the kernel left them. *)
StackInv == Vectors /\ stack = Words(argv, envp, auxv)

(* Where Words puts what. *)
LEMMA Layout ==
  ASSUME StackInv
  PROVE  /\ stack \in Seq(Int)
         /\ Len(argv) \in Nat /\ Len(envp) \in Nat /\ Len(auxv) \in Nat
         /\ Len(stack) = Len(argv) + 2 + Len(envp) + 1 + 2 * Len(auxv) + 2
         /\ stack[1] = Len(argv)
         /\ \A k \in 1..Len(envp) : stack[Len(argv) + 2 + k] = envp[k]
         /\ stack[Len(argv) + 2 + Len(envp) + 1] = Null
         /\ \A k \in 1..(2 * Len(auxv)) : stack[Len(argv) + 2 + Len(envp) + 1 + k] = Flat(auxv)[k]
         /\ stack[Len(argv) + 2 + Len(envp) + 1 + 2 * Len(auxv) + 1] = 0
<1> DEFINE a == Len(argv)  n == Len(envp)  m == 2 * Len(auxv)
           s1 == <<a>> \o argv
           s2 == s1 \o <<Null>>
           s3 == s2 \o envp
           s4 == s3 \o <<Null>>
           f == Flat(auxv)
           s5 == s4 \o f
           s6 == s5 \o <<0, 0>>
<1>1. argv \in Seq(Int) /\ envp \in Seq(Int) /\ auxv \in Seq((Nat \ {0}) \X Int)
  BY DEF StackInv, Vectors
<1>2. a \in Nat /\ n \in Nat /\ Len(auxv) \in Nat /\ m \in Nat
  BY <1>1
<1>3. f \in Seq(Int) /\ Len(f) = m
  <2>1. \A k \in 1..m : (k + 1) \div 2 \in 1..Len(auxv)
    BY <1>2
  <2>2. \A j \in 1..Len(auxv) : auxv[j][1] \in Int /\ auxv[j][2] \in Int
    BY <1>1
  <2>3. \A k \in 1..m : auxv[(k + 1) \div 2][IF k % 2 = 1 THEN 1 ELSE 2] \in Int
    BY <2>1, <2>2
  <2> QED
    BY <1>2, <2>3 DEF Flat
<1> HIDE DEF f
<1>4. s1 \in Seq(Int) /\ Len(s1) = a + 1 /\ s1[1] = a
  BY <1>1, <1>2
<1> HIDE DEF s1
<1>5. s2 \in Seq(Int) /\ Len(s2) = a + 2 /\ s2[1] = a
  BY <1>2, <1>4 DEF Null
<1> HIDE DEF s2
<1>6. /\ s3 \in Seq(Int) /\ Len(s3) = a + 2 + n /\ s3[1] = a
      /\ \A k \in 1..n : s3[a + 2 + k] = envp[k]
  <2>1. /\ s3 \in Seq(Int) /\ Len(s3) = Len(s2) + n
        /\ \A k \in 1..Len(s2) : s3[k] = s2[k]
        /\ \A k \in 1..n : s3[Len(s2) + k] = envp[k]
    BY <1>1, <1>5, Joined
  <2> HIDE DEF s3
  <2> QED
    BY <1>2, <1>5, <2>1
<1> HIDE DEF s3
<1>7. /\ s4 \in Seq(Int) /\ Len(s4) = a + 2 + n + 1 /\ s4[1] = a
      /\ \A k \in 1..n : s4[a + 2 + k] = envp[k]
      /\ s4[a + 2 + n + 1] = Null
  <2> DEFINE z == <<Null>>
  <2>1. z \in Seq(Int) /\ Len(z) = 1 /\ z[1] = Null
    BY DEF Null
  <2>2. s4 = s3 \o z
    OBVIOUS
  <2> HIDE DEF s4, z
  <2>3. /\ s4 \in Seq(Int) /\ Len(s4) = Len(s3) + 1
        /\ \A k \in 1..Len(s3) : s4[k] = s3[k]
        /\ s4[Len(s3) + 1] = Null
    <3>1. s3 \in Seq(Int) /\ z \in Seq(Int)
      BY <1>6, <2>1
    <3>2. /\ s4 \in Seq(Int) /\ Len(s4) = Len(s3) + Len(z)
          /\ \A k \in 1..Len(s3) : s4[k] = s3[k]
          /\ \A k \in 1..Len(z) : s4[Len(s3) + k] = z[k]
      BY <3>1, <2>2, Joined
    <3> QED
      BY <2>1, <3>2
  <2>4. 1 \in 1..Len(s3) /\ \A k \in 1..n : a + 2 + k \in 1..Len(s3)
    BY <1>2, <1>6
  <2> QED
    BY <1>2, <1>6, <2>3, <2>4
<1> HIDE DEF s4
<1>8. /\ s5 \in Seq(Int) /\ Len(s5) = a + 2 + n + 1 + m /\ s5[1] = a
      /\ \A k \in 1..n : s5[a + 2 + k] = envp[k]
      /\ s5[a + 2 + n + 1] = Null
      /\ \A k \in 1..m : s5[a + 2 + n + 1 + k] = f[k]
  <2>1. /\ s5 \in Seq(Int) /\ Len(s5) = Len(s4) + m
        /\ \A k \in 1..Len(s4) : s5[k] = s4[k]
        /\ \A k \in 1..m : s5[Len(s4) + k] = f[k]
    <3>1. s4 \in Seq(Int) /\ f \in Seq(Int)
      BY <1>3, <1>7
    <3>2. /\ s5 \in Seq(Int) /\ Len(s5) = Len(s4) + Len(f)
          /\ \A k \in 1..Len(s4) : s5[k] = s4[k]
          /\ \A k \in 1..Len(f) : s5[Len(s4) + k] = f[k]
      BY <3>1, Joined
    <3> HIDE DEF s5
    <3> QED
      BY <1>3, <3>2
  <2> HIDE DEF s5
  <2>2. /\ 1 \in 1..Len(s4) /\ a + 2 + n + 1 \in 1..Len(s4)
        /\ \A k \in 1..n : a + 2 + k \in 1..Len(s4)
    BY <1>2, <1>7
  <2> QED
    BY <1>2, <1>7, <2>1, <2>2
<1> HIDE DEF s5
<1>9. /\ s6 \in Seq(Int) /\ Len(s6) = a + 2 + n + 1 + m + 2 /\ s6[1] = a
      /\ \A k \in 1..n : s6[a + 2 + k] = envp[k]
      /\ s6[a + 2 + n + 1] = Null
      /\ \A k \in 1..m : s6[a + 2 + n + 1 + k] = f[k]
      /\ s6[a + 2 + n + 1 + m + 1] = 0
  <2> DEFINE z == <<0, 0>>
  <2>1. z \in Seq(Int) /\ Len(z) = 2 /\ z[1] = 0
    OBVIOUS
  <2>2. s6 = s5 \o z
    OBVIOUS
  <2> HIDE DEF s6, z
  <2>3. /\ s6 \in Seq(Int) /\ Len(s6) = Len(s5) + 2
        /\ \A k \in 1..Len(s5) : s6[k] = s5[k]
        /\ s6[Len(s5) + 1] = 0
    <3>1. s5 \in Seq(Int) /\ z \in Seq(Int)
      BY <1>8, <2>1
    <3>2. /\ s6 \in Seq(Int) /\ Len(s6) = Len(s5) + Len(z)
          /\ \A k \in 1..Len(s5) : s6[k] = s5[k]
          /\ \A k \in 1..Len(z) : s6[Len(s5) + k] = z[k]
      BY <3>1, <2>2, Joined
    <3> QED
      BY <2>1, <3>2
  <2>4. /\ 1 \in 1..Len(s5) /\ a + 2 + n + 1 \in 1..Len(s5)
        /\ \A k \in 1..n : a + 2 + k \in 1..Len(s5)
        /\ \A k \in 1..m : a + 2 + n + 1 + k \in 1..Len(s5)
    <3> HIDE DEF a, n, m
    <3>1. Len(s5) = a + 2 + n + 1 + m
      BY <1>8
    <3> QED
      BY ONLY <1>2, <3>1
  <2>5. \A k \in 1..n : s6[a + 2 + k] = envp[k]
    BY <1>8, <2>3, <2>4
  <2>6. \A k \in 1..m : s6[a + 2 + n + 1 + k] = f[k]
    BY <1>8, <2>3, <2>4
  <2>7. s6[1] = a /\ s6[a + 2 + n + 1] = Null /\ s6[a + 2 + n + 1 + m + 1] = 0
    BY <1>8, <2>3, <2>4
  <2> QED
    BY <1>2, <1>8, <2>3, <2>5, <2>6, <2>7
<1>10. stack = s6
  BY DEF StackInv, Words, s1, s2, s3, s4, s5, f
<1> HIDE DEF s6
<1> QED
  BY <1>2, <1>9, <1>10 DEF f

(* An auxiliary vector word by word. *)
LEMMA FlatPairs ==
  ASSUME NEW xv \in Auxv, NEW j \in 0..(Len(xv) - 1)
  PROVE  /\ j + 1 \in 1..Len(xv) /\ 2 * j + 1 \in 1..(2 * Len(xv)) /\ 2 * j + 2 \in 1..(2 * Len(xv))
         /\ Flat(xv)[2 * j + 1] = xv[j + 1][1]
         /\ Flat(xv)[2 * j + 2] = xv[j + 1][2]
         /\ xv[j + 1][1] \in Nat \ {0} /\ xv[j + 1][2] \in Int
<1>1. xv \in Seq((Nat \ {0}) \X Int) /\ Len(xv) \in Nat
  OBVIOUS
<1>2. /\ j + 1 \in 1..Len(xv) /\ 2 * j + 1 \in 1..(2 * Len(xv)) /\ 2 * j + 2 \in 1..(2 * Len(xv))
      /\ (2 * j + 1 + 1) \div 2 = j + 1 /\ (2 * j + 2 + 1) \div 2 = j + 1
      /\ (2 * j + 1) % 2 = 1 /\ (2 * j + 2) % 2 # 1
  <2>1. PICK n \in Nat : n = Len(xv)
    BY <1>1
  <2>2. j \in Nat /\ j < n
    BY <2>1
  <2>3. j + 1 \in 1..n /\ 2 * j + 1 \in 1..(2 * n) /\ 2 * j + 2 \in 1..(2 * n)
    BY ONLY <2>2, n \in Nat
  <2>4. (2 * j + 1 + 1) \div 2 = j + 1 /\ (2 * j + 2 + 1) \div 2 = j + 1
    BY ONLY <2>2, n \in Nat
  <2>5. (2 * j + 1) % 2 = 1 /\ (2 * j + 2) % 2 # 1
    BY ONLY <2>2, n \in Nat
  <2> QED
    BY <2>1, <2>3, <2>4, <2>5
<1>3. xv[j + 1][1] \in Nat \ {0} /\ xv[j + 1][2] \in Int
  <2>1. \A k \in 1..Len(xv) : xv[k][1] \in Nat \ {0} /\ xv[k][2] \in Int
    BY <1>1
  <2>2. j + 1 \in 1..Len(xv)
    BY <1>2
  <2> QED
    BY <2>1, <2>2, Zenon
<1>4. Flat(xv)[2 * j + 1] = xv[j + 1][1]
  BY <1>2 DEF Flat
<1>5. Flat(xv)[2 * j + 2] = xv[j + 1][2]
  BY <1>2 DEF Flat
<1> QED
  BY <1>2, <1>3, <1>4, <1>5

-----------------------------------------------------------------------------
(* The inductive invariant of startup: the loops have read a prefix of the
   environment, then a prefix of the auxiliary vector, and an entry of the table is
   the value of the last pair read that has its tag. *)

(* tag's entry after the first n pairs of the auxiliary vector. *)
ReadSoFar(tag, n) ==
  LET hits == {k \in 1..n : auxv[k][1] = tag}
  IN  \/ hits = {} /\ aux_raw[tag] = 0
      \/ \E k \in hits : aux_raw[tag] = auxv[k][2] /\ \A l \in hits : l <= k

(* How far the two loops are. *)
LoopInv ==
  /\ envp_count <= Len(envp)
  /\ pc[main] # "env" => envp_count = Len(envp)
  /\ i % 2 = 0 /\ i <= 2 * Len(auxv)
  /\ pc[main] = "env" => i = 0
  /\ pc[main] \notin {"env", "aux"} => i = 2 * Len(auxv)

AuxInv == \A tag \in 1..(AuxLen - 1) : ReadSoFar(tag, i \div 2)

StartInv == TypeOK /\ StackInv /\ LoopInv /\ AuxInv

(* The words of the environment, as the code addresses them. *)
LEMMA EnvWords ==
  ASSUME StackInv
  PROVE  /\ Len(argv) \in Nat /\ Len(envp) \in Nat /\ EnvpAt = Len(argv) + 2
         /\ \A c \in 0..(Len(envp) - 1) : Word(EnvpAt + c) = envp[c + 1] /\ envp[c + 1] # Null
         /\ Word(EnvpAt + Len(envp)) = Null
         /\ \A c \in 0..Len(envp) : Inside(EnvpAt + c)
<1> DEFINE A == Len(argv)  E == Len(envp)  X == Len(auxv)
<1>1. /\ stack \in Seq(Int) /\ A \in Nat /\ E \in Nat /\ X \in Nat
      /\ Len(stack) = A + 2 + E + 1 + 2 * X + 2
      /\ stack[1] = A
      /\ \A k \in 1..E : stack[A + 2 + k] = envp[k]
      /\ stack[A + 2 + E + 1] = Null
  BY Layout
<1>2. envp \in Seq(Nat \ {0})
  BY DEF StackInv, Vectors
<1> HIDE DEF A, E, X
<1>3. EnvpAt = A + 2
  BY <1>1 DEF EnvpAt, argc, Word
<1>4. ASSUME NEW c \in 0..(E - 1)
      PROVE  Word(EnvpAt + c) = envp[c + 1] /\ envp[c + 1] # Null
  <2>1. c + 1 \in 1..E /\ A + 2 + c + 1 = A + 2 + (c + 1)
    BY <1>1
  <2>2. envp[c + 1] \in Nat \ {0}
    BY <1>2, <2>1 DEF E
  <2>3. stack[A + 2 + (c + 1)] = envp[c + 1]
    BY <1>1, <2>1
  <2> QED
    BY <1>3, <2>1, <2>2, <2>3 DEF Word, Null
<1>5. Word(EnvpAt + E) = Null
  BY <1>1, <1>3 DEF Word
<1>6. \A c \in 0..E : A + 2 + c + 1 \in 1..Len(stack)
  BY <1>1
<1>7. DOMAIN stack = 1..Len(stack)
  BY <1>1
<1>8. \A c \in 0..E : Inside(EnvpAt + c)
  BY <1>3, <1>6, <1>7 DEF Inside
<1> QED
  BY <1>1, <1>3, <1>4, <1>5, <1>8 DEF A, E

(* The words of the auxiliary vector, once the environment is counted. *)
LEMMA AuxWords ==
  ASSUME StackInv, envp_count = Len(envp)
  PROVE  /\ Len(auxv) \in Nat
         /\ \A j \in 0..(Len(auxv) - 1) :
              /\ Word(AuxvAt + 2 * j) = auxv[j + 1][1] /\ Word(AuxvAt + 2 * j + 1) = auxv[j + 1][2]
              /\ auxv[j + 1][1] \in Nat \ {0} /\ auxv[j + 1][2] \in Int
         /\ Word(AuxvAt + 2 * Len(auxv)) = 0
         /\ \A j \in 0..Len(auxv) : Inside(AuxvAt + 2 * j) /\ Inside(AuxvAt + 2 * j + 1)
<1> DEFINE X == Len(auxv)  x == Len(argv) + 2 + Len(envp) + 1
<1>1. /\ stack \in Seq(Int) /\ x \in Nat /\ X \in Nat
      /\ Len(stack) = x + 2 * X + 2
      /\ \A k \in 1..(2 * X) : stack[x + k] = Flat(auxv)[k]
      /\ stack[x + 2 * X + 1] = 0
  <2>2. /\ stack \in Seq(Int) /\ Len(argv) \in Nat /\ Len(envp) \in Nat /\ X \in Nat
        /\ Len(stack) = x + 2 * X + 2
        /\ \A k \in 1..(2 * X) : stack[x + k] = Flat(auxv)[k]
        /\ stack[x + 2 * X + 1] = 0
    BY Layout
  <2> QED
    BY <2>2
<1>2. AuxvAt = x
  BY EnvWords DEF AuxvAt
<1>3. auxv \in Auxv
  BY DEF StackInv, Vectors
<1> HIDE DEF x
<1>4. ASSUME NEW j \in 0..(X - 1)
      PROVE  /\ Word(AuxvAt + 2 * j) = auxv[j + 1][1] /\ Word(AuxvAt + 2 * j + 1) = auxv[j + 1][2]
             /\ auxv[j + 1][1] \in Nat \ {0} /\ auxv[j + 1][2] \in Int
  <2>1. /\ 2 * j + 1 \in 1..(2 * X) /\ 2 * j + 2 \in 1..(2 * X)
        /\ Flat(auxv)[2 * j + 1] = auxv[j + 1][1] /\ Flat(auxv)[2 * j + 2] = auxv[j + 1][2]
        /\ auxv[j + 1][1] \in Nat \ {0} /\ auxv[j + 1][2] \in Int
    BY <1>3, FlatPairs
  <2>2. stack[x + (2 * j + 1)] = auxv[j + 1][1] /\ stack[x + (2 * j + 2)] = auxv[j + 1][2]
    BY <1>1, <2>1
  <2>3. x + 2 * j + 1 = x + (2 * j + 1) /\ x + 2 * j + 1 + 1 = x + (2 * j + 2)
    BY <1>1
  <2> QED
    BY <1>2, <2>1, <2>2, <2>3 DEF Word
<1> HIDE DEF X
<1>5. Word(AuxvAt + 2 * X) = 0
  BY <1>1, <1>2 DEF Word
<1>6. \A j \in 0..X : x + 2 * j + 1 \in 1..Len(stack) /\ x + 2 * j + 1 + 1 \in 1..Len(stack)
  BY <1>1
<1>7. DOMAIN stack = 1..Len(stack)
  BY <1>1
<1>8. \A j \in 0..X : Inside(AuxvAt + 2 * j) /\ Inside(AuxvAt + 2 * j + 1)
  BY <1>2, <1>6, <1>7 DEF Inside
<1> QED
  BY <1>1, <1>4, <1>5, <1>8 DEF X

LEMMA InitStart == Init => StartInv
<1> SUFFICES ASSUME Init PROVE StartInv
  OBVIOUS
<1>1. StackInv
  BY DEF Init, StackInv, Vectors
<1>2. TypeOK
  BY DEF Init, TypeOK, Threads, Points, Null, Running
<1>3. LoopInv
  <2>1. Len(envp) \in Nat /\ Len(auxv) \in Nat
    BY <1>1, Layout
  <2>2. envp_count = 0 /\ i = 0 /\ pc[main] = "env"
    BY DEF Init, Threads
  <2> QED
    BY <2>1, <2>2 DEF LoopInv
<1>4. AuxInv
  BY DEF Init, AuxInv, ReadSoFar
<1> QED
  BY <1>1, <1>2, <1>3, <1>4 DEF StartInv

(* After startup nothing that the loops have read changes. *)
LEMMA KeepsStart ==
  ASSUME StackInv, LoopInv, AuxInv, UNCHANGED <<start, envp_count, i, aux_raw>>,
         pc'[main] = pc[main] \/ (pc[main] = "user" /\ pc'[main] \notin {"env", "aux"})
  PROVE  StackInv' /\ LoopInv' /\ AuxInv'
<1>1. /\ argv' = argv /\ envp' = envp /\ auxv' = auxv /\ stack' = stack
      /\ envp_count' = envp_count /\ i' = i /\ aux_raw' = aux_raw
  BY DEF start
<1>2. StackInv'
  BY <1>1 DEF StackInv, Vectors
<1>3. LoopInv'
  BY <1>1 DEF LoopInv
<1>4. AuxInv'
  BY <1>1 DEF AuxInv, ReadSoFar
<1> QED
  BY <1>2, <1>3, <1>4

LEMMA CountEnvStart == StartInv /\ CountEnv => StartInv'
<1> SUFFICES ASSUME StartInv, CountEnv PROVE StartInv'
  OBVIOUS
<1>1. /\ argv' = argv /\ envp' = envp /\ auxv' = auxv /\ stack' = stack
      /\ i' = i /\ aux_raw' = aux_raw
  BY DEF CountEnv, start
<1>2. StackInv' /\ AuxInv'
  BY <1>1 DEF StartInv, StackInv, Vectors, AuxInv, ReadSoFar
<1>3. pc[main] = "env" /\ pc \in [Threads -> Points] /\ main \in Threads
  BY DEF CountEnv, At, StartInv, TypeOK, Threads
<1>4. envp_count \in Nat /\ envp_count <= Len(envp) /\ i = 0 /\ Len(envp) \in Nat
  BY <1>3, Layout DEF StartInv, LoopInv, TypeOK
<1>5. CASE Word(EnvpAt + envp_count) # Null
  <2>1. envp_count' = envp_count + 1 /\ pc' = pc
    BY <1>5 DEF CountEnv
  <2>2. envp_count # Len(envp)
    BY <1>5, EnvWords DEF StartInv
  <2>3. TypeOK'
    BY <1>1, <1>4, <2>1 DEF StartInv, TypeOK, CountEnv, funcs
  <2>4. LoopInv'
    BY <1>1, <1>3, <1>4, <2>1, <2>2 DEF StartInv, LoopInv
  <2> QED
    BY <1>2, <2>3, <2>4 DEF StartInv
<1>6. CASE Word(EnvpAt + envp_count) = Null
  <2>1. envp_count' = envp_count /\ pc' = [pc EXCEPT ![main] = "aux"]
    BY <1>6 DEF CountEnv, Goto
  <2>2. envp_count = Len(envp)
    <3>1. envp_count < Len(envp) => Word(EnvpAt + envp_count) # Null
      <4> SUFFICES ASSUME envp_count < Len(envp) PROVE Word(EnvpAt + envp_count) # Null
        OBVIOUS
      <4>1. envp_count \in 0..(Len(envp) - 1)
        BY <1>4
      <4> QED
        BY <4>1, EnvWords DEF StartInv
    <3> QED
      BY <1>4, <1>6, <3>1
  <2>3. TypeOK'
    <3>1. pc' \in [Threads -> Points]
      BY <1>3, <2>1 DEF Points
    <3> QED
      BY <1>1, <1>4, <2>1, <3>1 DEF StartInv, TypeOK, CountEnv, funcs
  <2>4. pc'[main] = "aux"
    BY <1>3, <2>1
  <2>5. LoopInv'
    BY <1>1, <1>4, <2>1, <2>2, <2>4 DEF StartInv, LoopInv
  <2> QED
    BY <1>2, <2>3, <2>5 DEF StartInv
<1> QED
  BY <1>5, <1>6

LEMMA ReadAuxStart == StartInv /\ ReadAux => StartInv'
<1> SUFFICES ASSUME StartInv, ReadAux PROVE StartInv'
  OBVIOUS
<1> DEFINE tag == Word(AuxvAt + i)
           j == i \div 2
<1>1. /\ argv' = argv /\ envp' = envp /\ auxv' = auxv /\ stack' = stack
      /\ envp_count' = envp_count /\ pc' = pc /\ i' = i + 2
  BY DEF ReadAux, start
<1>2. StackInv'
  BY <1>1 DEF StartInv, StackInv, Vectors
<1>3. pc[main] = "aux" /\ tag # 0
  BY DEF ReadAux, At
<1>4. envp_count = Len(envp) /\ StackInv
  BY <1>3 DEF StartInv, LoopInv
<1>5. i \in Nat /\ i % 2 = 0 /\ i <= 2 * Len(auxv) /\ Len(auxv) \in Nat
  BY <1>4, AuxWords DEF StartInv, LoopInv, TypeOK
<1>6. j \in Nat /\ i = 2 * j /\ j <= Len(auxv) /\ (i + 2) \div 2 = j + 1
  BY <1>5
<1>7. j \in 0..(Len(auxv) - 1)
  <2>1. j # Len(auxv)
    BY <1>3, <1>4, <1>6, AuxWords
  <2> QED
    BY <1>5, <1>6, <2>1
<1>8. /\ tag = auxv[j + 1][1] /\ Word(AuxvAt + i + 1) = auxv[j + 1][2]
      /\ tag \in Nat \ {0} /\ auxv[j + 1][2] \in Int
  <2>1. /\ Word(AuxvAt + 2 * j) = auxv[j + 1][1] /\ Word(AuxvAt + 2 * j + 1) = auxv[j + 1][2]
        /\ auxv[j + 1][1] \in Nat \ {0} /\ auxv[j + 1][2] \in Int
    BY <1>4, <1>7, AuxWords
  <2> QED
    BY <1>6, <2>1
<1>9. aux_raw' = [a \in DOMAIN aux_raw |-> IF a = tag /\ TagFits(tag) THEN auxv[j + 1][2] ELSE aux_raw[a]]
  BY <1>8 DEF ReadAux
<1>10. aux_raw \in [0..(AuxLen - 1) -> Int]
  BY DEF StartInv, TypeOK
<1> HIDE DEF tag, j
<1>11. aux_raw' \in [0..(AuxLen - 1) -> Int]
  BY <1>8, <1>9, <1>10
<1>12. TypeOK'
  BY <1>1, <1>5, <1>11 DEF StartInv, TypeOK, ReadAux, funcs
<1>13. LoopInv'
  <2>1. (i + 2) % 2 = 0 /\ i + 2 <= 2 * Len(auxv)
    BY <1>5, <1>6, <1>7
  <2> QED
    BY <1>1, <1>3, <1>4, <2>1 DEF LoopInv
<1>14. AuxInv'
  <2> SUFFICES ASSUME NEW g \in 1..(AuxLen - 1) PROVE ReadSoFar(g, i \div 2)'
    BY DEF AuxInv
  <2>1. i' \div 2 = j + 1
    BY <1>1, <1>6
  <2>2. ReadSoFar(g, j)
    BY DEF StartInv, AuxInv, j
  <2>3. CASE g = tag
    <3>1. TagFits(tag)
      BY <2>3 DEF TagFits
    <3>2. aux_raw'[g] = auxv[j + 1][2]
      BY <1>9, <1>10, <2>3, <3>1
    <3>3. j + 1 \in 1..(j + 1) /\ \A l \in 1..(j + 1) : l <= j + 1
      BY <1>6
    <3> QED
      BY <1>1, <1>8, <2>1, <2>3, <3>2, <3>3 DEF ReadSoFar
  <2>4. CASE g # tag
    <3>1. aux_raw'[g] = aux_raw[g]
      BY <1>9, <1>10, <2>4
    <3>2. {k \in 1..(j + 1) : auxv[k][1] = g} = {k \in 1..j : auxv[k][1] = g}
      <4>1. \A k : k \in 1..(j + 1) <=> k \in 1..j \/ k = j + 1
        BY <1>6
      <4> QED
        BY <1>8, <2>4, <4>1
    <3> QED
      BY <1>1, <2>1, <2>2, <3>1, <3>2 DEF ReadSoFar
  <2> QED
    BY <2>3, <2>4
<1> QED
  BY <1>2, <1>12, <1>13, <1>14 DEF StartInv

LEMMA CallMainStart == StartInv /\ CallMain => StartInv'
<1> SUFFICES ASSUME StartInv, CallMain PROVE StartInv'
  OBVIOUS
<1>1. /\ argv' = argv /\ envp' = envp /\ auxv' = auxv /\ stack' = stack
      /\ envp_count' = envp_count /\ aux_raw' = aux_raw /\ i' = i
  BY DEF CallMain, start
<1>2. StackInv' /\ AuxInv'
  BY <1>1 DEF StartInv, StackInv, Vectors, AuxInv, ReadSoFar
<1>3. pc[main] = "aux" /\ Word(AuxvAt + i) = 0 /\ pc \in [Threads -> Points] /\ main \in Threads
  BY DEF CallMain, At, StartInv, TypeOK, Threads
<1>4. envp_count = Len(envp) /\ StackInv
  BY <1>3 DEF StartInv, LoopInv
<1>5. i \in Nat /\ i % 2 = 0 /\ i <= 2 * Len(auxv) /\ Len(auxv) \in Nat
  BY <1>4, AuxWords DEF StartInv, LoopInv, TypeOK
<1>6. i = 2 * Len(auxv)
  <2> DEFINE j == i \div 2
  <2>1. j \in Nat /\ i = 2 * j
    BY <1>5
  <2>2. j \notin 0..(Len(auxv) - 1)
    BY <1>3, <1>4, <2>1, AuxWords
  <2> QED
    BY <1>5, <2>1, <2>2
<1>7. pc' \in [Threads -> Points] /\ pc'[main] \in {"panicked", "user"}
  BY <1>3 DEF CallMain, Points
<1>8. TypeOK'
  BY <1>1, <1>7 DEF StartInv, TypeOK, CallMain, funcs
<1>9. LoopInv'
  BY <1>1, <1>4, <1>5, <1>6, <1>7 DEF LoopInv
<1> QED
  BY <1>2, <1>8, <1>9 DEF StartInv

LEMMA LowByteRange == ASSUME NEW c \in Int PROVE LowByte(c) \in 0..255 /\ LowByte(c) = c % 256
  BY DEF LowByte

(* Every step of the program keeps what startup established. *)
LEMMA UserStart ==
  ASSUME StartInv,
         \/ \E t \in Threads : Calls(t) \/ Ending(t)
         \/ \E c \in Codes : MainReturns(c)
  PROVE  StartInv'
<1>1. StackInv /\ LoopInv /\ AuxInv /\ TypeOK /\ main \in Threads
  BY DEF StartInv, Threads
<1>2. ASSUME NEW t \in Threads, NEW point \in Exits, NEW c \in Codes, ExitCall(t, point, c)
      PROVE  StartInv'
  <2>1. UNCHANGED <<start, envp_count, i, aux_raw>> /\ pc' = [pc EXCEPT ![t] = point] /\ pc[t] = "user"
    BY <1>2 DEF ExitCall, Goto, At
  <2>2. pc \in [Threads -> Points]
    BY <1>1 DEF TypeOK
  <2>3. pc'[main] = pc[main] \/ (pc[main] = "user" /\ pc'[main] \notin {"env", "aux"})
    BY <1>1, <2>1, <2>2 DEF Exits
  <2>4. pc' \in [Threads -> Points]
    BY <2>1, <2>2 DEF Exits, Points
  <2>5. code' \in [Threads -> Int] /\ ri' \in [Threads -> 0..NumFuncs]
    <3>1. c \in Int /\ 0 \in 0..NumFuncs
      OBVIOUS
    <3> QED
      BY <1>1, <1>2, <3>1 DEF ExitCall, TypeOK
  <2>6. TypeOK'
    BY <1>1, <1>2, <2>4, <2>5 DEF TypeOK, ExitCall, funcs
  <2> QED
    BY <1>1, <2>1, <2>3, <2>6, KeepsStart DEF StartInv
<1>3. ASSUME NEW t \in Threads, NEW point \in Exits, Atexit(t, point) PROVE StartInv'
  <2>1. UNCHANGED <<start, envp_count, i, aux_raw>> /\ pc' = pc
    BY <1>3 DEF Atexit
  <2>2. refused' \subseteq Threads
    BY <1>1, <1>3 DEF TypeOK, Atexit
  <2>3. TypeOK'
    BY <1>1, <1>3, <2>2 DEF TypeOK, Atexit, funcs
  <2> QED
    BY <1>1, <2>1, <2>3, KeepsStart DEF StartInv
<1>4. ASSUME NEW t \in Threads, Abort(t) PROVE StartInv'
  <2>1. UNCHANGED <<start, envp_count, i, aux_raw>> /\ pc' = [pc EXCEPT ![t] = "aborted"] /\ pc[t] = "user"
    BY <1>4 DEF Abort, Goto, At
  <2>2. pc \in [Threads -> Points]
    BY <1>1 DEF TypeOK
  <2>3. pc'[main] = pc[main] \/ (pc[main] = "user" /\ pc'[main] \notin {"env", "aux"})
    BY <1>1, <2>1, <2>2
  <2>4. pc' \in [Threads -> Points]
    BY <2>1, <2>2 DEF Points
  <2>5. TypeOK'
    BY <1>1, <1>4, <2>4 DEF TypeOK, Abort, funcs
  <2> QED
    BY <1>1, <2>1, <2>3, <2>5, KeepsStart DEF StartInv
<1>5. ASSUME NEW t \in Threads, NEW point \in Exits, ExitSlot(t, point) PROVE StartInv'
  <2>1. UNCHANGED <<start, envp_count, i, aux_raw>> /\ pc' = pc
    BY <1>5 DEF ExitSlot
  <2>2. ri' \in [Threads -> 0..NumFuncs]
    <3>1. ri \in [Threads -> 0..NumFuncs] /\ ri[t] < NumFuncs /\ ri' = [ri EXCEPT ![t] = ri[t] + 1]
      BY <1>1, <1>5 DEF TypeOK, ExitSlot
    <3>2. ri[t] + 1 \in 0..NumFuncs
      BY <3>1
    <3> QED
      BY <3>1, <3>2
  <2>3. TypeOK'
    BY <1>1, <1>5, <2>2 DEF TypeOK, ExitSlot, funcs
  <2> QED
    BY <1>1, <2>1, <2>3, KeepsStart DEF StartInv
<1>6. ASSUME NEW t \in Threads, NEW point \in Exits, ExitProcess(t, point) PROVE StartInv'
  <2>1. UNCHANGED <<start, envp_count, i, aux_raw>> /\ pc' = pc
    BY <1>6 DEF ExitProcess
  <2>2. status' \in 0..255
    <3>1. code[t] \in Int /\ status' = LowByte(code[t])
      BY <1>1, <1>6 DEF TypeOK, ExitProcess
    <3> QED
      BY <3>1, LowByteRange
  <2>3. TypeOK'
    BY <1>1, <1>6, <2>2 DEF TypeOK, ExitProcess, funcs
  <2> QED
    BY <1>1, <2>1, <2>3, KeepsStart DEF StartInv
<1>7. ASSUME NEW c \in Codes, MainReturns(c) PROVE StartInv'
  <2>1. UNCHANGED <<start, envp_count, i, aux_raw>> /\ pc[main] = "user"
        /\ \E p \in {"returned", "panicked"} : pc' = [pc EXCEPT ![main] = p]
    BY <1>7 DEF MainReturns, Goto, At
  <2>2. pc \in [Threads -> Points]
    BY <1>1 DEF TypeOK
  <2>3. pc'[main] \notin {"env", "aux"} /\ pc' \in [Threads -> Points]
    BY <1>1, <2>1, <2>2 DEF Points
  <2>4. code' \in [Threads -> Int] /\ status' \in {Running} \cup 0..255
    <3>1. c \in Int /\ code' = [code EXCEPT ![main] = c] /\ code \in [Threads -> Int]
      BY <1>1, <1>7 DEF MainReturns, TypeOK
    <3>2. (status' = c /\ c \in 0..255) \/ status' = status
      BY <1>7 DEF MainReturns
    <3>3. status \in {Running} \cup 0..255
      BY <1>1 DEF TypeOK
    <3> QED
      BY <3>1, <3>2, <3>3
  <2>5. TypeOK'
    BY <1>1, <1>7, <2>3, <2>4 DEF TypeOK, MainReturns, funcs
  <2> QED
    BY <1>1, <2>1, <2>3, <2>5, KeepsStart DEF StartInv
<1> QED
  BY <1>2, <1>3, <1>4, <1>5, <1>6, <1>7 DEF Calls, Ending

LEMMA StepStart == StartInv /\ [Next]_vars => StartInv'
<1> SUFFICES ASSUME StartInv, [Next]_vars PROVE StartInv'
  OBVIOUS
<1>1. CASE Startup
  BY <1>1, CountEnvStart, ReadAuxStart, CallMainStart DEF Startup
<1>2. CASE \/ \E t \in Threads : Calls(t) \/ Ending(t)
           \/ \E c \in Codes : MainReturns(c)
  BY <1>2, UserStart
<1>3. CASE UNCHANGED vars
  <2>1. UNCHANGED <<start, envp_count, i, aux_raw>> /\ pc' = pc
    BY <1>3 DEF vars
  <2>2. TypeOK'
    BY <1>3 DEF StartInv, TypeOK, vars, funcs
  <2> QED
    BY <2>1, <2>2, KeepsStart DEF StartInv
<1> QED
  BY <1>1, <1>2, <1>3 DEF Next

LEMMA Started == Spec => []StartInv
  BY InitStart, StepStart, PTL DEF Spec

-----------------------------------------------------------------------------
(* Every variable keeps its type, whatever the kernel passes and however many
   threads end the process: in particular the loop counter of exit stays within
   the handler table and the status within a byte. *)
THEOREM TypeCorrect == Spec => []TypeOK
<1>1. StartInv => TypeOK
  BY DEF StartInv
<1> QED
  BY <1>1, Started, PTL

(* posixCallMainAndExit reads only words the kernel wrote, for every number of
   arguments, environment pointers and auxiliary entries, and exit looks at no
   slot outside the handler table, for every size of it. *)
THEOREM NoReadOutside == Spec => []ReadsInside
<1>1. ASSUME StartInv PROVE ReadsInside
  <2>1. StackInv /\ LoopInv /\ TypeOK
    BY <1>1 DEF StartInv
  <2>2. ASSUME pc[main] = "env" PROVE Inside(EnvpAt + envp_count)
    <3>1. envp_count \in 0..Len(envp)
      BY <2>1, EnvWords DEF LoopInv, TypeOK
    <3> QED
      BY <2>1, <3>1, EnvWords
  <2>3. ASSUME pc[main] = "aux" PROVE Inside(AuxvAt + i) /\ Inside(AuxvAt + i + 1)
    <3>1. envp_count = Len(envp) /\ i \in Nat /\ i % 2 = 0 /\ i <= 2 * Len(auxv)
      BY <2>1, <2>3 DEF LoopInv, TypeOK
    <3>2. Len(auxv) \in Nat
      BY <2>1, Layout
    <3>3. PICK j \in 0..Len(auxv) : i = 2 * j
      <4>1. i \div 2 \in 0..Len(auxv) /\ i = 2 * (i \div 2)
        BY <3>1, <3>2
      <4> QED
        BY <4>1
    <3>4. Inside(AuxvAt + 2 * j) /\ Inside(AuxvAt + 2 * j + 1)
      BY <2>1, <3>1, AuxWords
    <3> QED
      BY <3>3, <3>4
  <2>4. ASSUME NEW t \in Threads, ri[t] < NumFuncs PROVE Slot(t) \in DOMAIN exit_funcs
    <3>1. ri[t] \in 0..NumFuncs /\ DOMAIN exit_funcs = 0..(NumFuncs - 1)
      BY <2>1 DEF TypeOK
    <3> QED
      BY <2>4, <3>1 DEF Slot
  <2> QED
    BY <2>2, <2>3, <2>4 DEF ReadsInside
<1> QED
  BY <1>1, Started, PTL

(* The environment main sees is the kernel's. *)
LEMMA EnvironIs ==
  ASSUME StartInv, pc[main] = "user"
  PROVE  Environ = envp /\ DOMAIN envp = 1..Len(envp) /\ Len(envp) \in Nat
<1>1. StackInv /\ envp_count = Len(envp)
  BY DEF StartInv, LoopInv
<1>2. envp \in Seq(Nat \ {0}) /\ Len(envp) \in Nat
  BY <1>1, Layout DEF StackInv, Vectors
<1>3. ASSUME NEW k \in 1..Len(envp) PROVE Word(EnvpAt + k - 1) = envp[k]
  <2>1. k - 1 \in 0..(Len(envp) - 1) /\ (k - 1) + 1 = k
    BY <1>2
  <2>2. Word(EnvpAt + (k - 1)) = envp[(k - 1) + 1]
    BY <1>1, <2>1, EnvWords
  <2>3. EnvpAt + k - 1 = EnvpAt + (k - 1)
    BY <1>1, <1>2, EnvWords
  <2> QED
    BY <2>1, <2>2, <2>3
<1>4. envp = [k \in 1..Len(envp) |-> envp[k]]
  BY <1>2
<1> QED
  BY <1>1, <1>2, <1>3, <1>4 DEF Environ

(* When main is called, environ is the kernel's environment and every entry of the
   auxiliary table the last value the kernel gave for its tag, 0 if it gave none. *)
THEOREM StartupIsExact == Spec => []StartupExact
<1>1. ASSUME StartInv, pc[main] = "user"
      PROVE  /\ Environ = envp
             /\ \A tag \in 1..(AuxLen - 1) : aux_raw[tag] = LastAux(tag)
  <2>1. StackInv /\ i = 2 * Len(auxv) /\ Len(auxv) \in Nat
    BY <1>1, Layout DEF StartInv, LoopInv
  <2>2. auxv \in Seq((Nat \ {0}) \X Int)
    BY <2>1 DEF StackInv, Vectors
  <2>3. DOMAIN auxv = 1..(i \div 2) /\ \A k \in DOMAIN auxv : k \in Nat
    BY <2>1, <2>2
  <2>4. ASSUME NEW tag \in 1..(AuxLen - 1) PROVE aux_raw[tag] = LastAux(tag)
    <3> DEFINE hits == {k \in DOMAIN auxv : auxv[k][1] = tag}
               top(k) == k \in hits /\ \A l \in hits : l <= k
    <3>1. ReadSoFar(tag, i \div 2)
      BY <1>1 DEF StartInv, AuxInv
    <3>2. \/ hits = {} /\ aux_raw[tag] = 0
          \/ \E k \in hits : aux_raw[tag] = auxv[k][2] /\ \A l \in hits : l <= k
      BY <2>3, <3>1 DEF ReadSoFar
    <3>3. CASE hits = {}
      BY <3>2, <3>3 DEF LastAux
    <3>4. CASE hits # {}
      <4>1. PICK k \in hits : aux_raw[tag] = auxv[k][2] /\ \A l \in hits : l <= k
        BY <3>2, <3>4
      <4> DEFINE best == CHOOSE b \in hits : \A l \in hits : l <= b
      <4>2. best \in hits /\ \A l \in hits : l <= best
        BY <4>1
      <4>3. LastAux(tag) = auxv[best][2]
        BY <3>4 DEF LastAux
      <4> HIDE DEF best
      <4>4. best = k
        BY <2>3, <4>1, <4>2
      <4> QED
        BY <4>1, <4>3, <4>4
    <3> QED
      BY <3>3, <3>4
  <2> QED
    BY <1>1, <2>4, EnvironIs
<1>2. StartInv => StartupExact
  BY <1>1 DEF StartupExact
<1> QED
  BY <1>2, Started, PTL

(* The process ends with the low byte of a code that a thread passed to exit or
   quick_exit or that main returned, however many threads race to end it. *)
THEOREM StatusIsHonest == Spec => []StatusHonest
<1>1. Init => StatusHonest
  BY DEF Init, StatusHonest
<1>2. ASSUME StartInv, StatusHonest, [Next]_vars PROVE StatusHonest'
  <2>1. TypeOK /\ main \in Threads
    BY <1>2 DEF StartInv, Threads
  <2>2. CASE UNCHANGED vars
    BY <1>2, <2>2 DEF StatusHonest, vars
  <2>3. ASSUME NEW t \in Threads, NEW point \in Exits, ExitProcess(t, point) PROVE StatusHonest'
    <3>1. code[t] \in Int /\ status' = LowByte(code[t]) /\ code' = code /\ pc'[t] = point
      BY <2>1, <2>3 DEF TypeOK, ExitProcess, At
    <3>2. status' = code'[t] % 256 /\ status' \in 0..255
      BY <3>1, LowByteRange
    <3> QED
      BY <3>1, <3>2 DEF StatusHonest
  <2>4. ASSUME NEW c \in Codes, MainReturns(c), c \in 0..255 PROVE StatusHonest'
    <3>1. code' = [code EXCEPT ![main] = c] /\ status' = c /\ pc' = [pc EXCEPT ![main] = "returned"]
      BY <2>4 DEF MainReturns, Goto
    <3>2. code'[main] = c /\ pc'[main] = "returned"
      BY <2>1, <3>1 DEF TypeOK
    <3>3. c % 256 = c
      BY <2>4
    <3> QED
      BY <2>1, <2>4, <3>1, <3>2, <3>3 DEF StatusHonest
  <2>5. CASE status' = Running
    BY <2>5 DEF StatusHonest
  <2>6. \/ UNCHANGED vars
        \/ \E t \in Threads, point \in Exits : ExitProcess(t, point)
        \/ \E c \in Codes : MainReturns(c) /\ c \in 0..255
        \/ status' = Running
    BY <1>2 DEF Next, Startup, CountEnv, ReadAux, CallMain, Calls, Ending,
                ExitCall, Atexit, Abort, ExitSlot, MainReturns, At
  <2> QED
    BY <2>2, <2>3, <2>4, <2>5, <2>6
<1> QED
  BY <1>1, <1>2, Started, PTL DEF Spec
=============================================================================
