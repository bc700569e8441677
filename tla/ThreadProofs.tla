---------------------------- MODULE ThreadProofs ----------------------------
(***************************************************************************)
(* Proofs about what belongs to a thread, its memory and its environment.  *)
(*                                                                         *)
(* PagesAreAccounted and RegionsMatchStacks hold in every state, for any   *)
(* number of threads, any size of a stack, any ledgers and any amount of   *)
(* memory.  Memory is followed by name.  A name is a field that can hold a *)
(* page: the stack, the canary or an environment page of a thread, or a    *)
(* local of the creation in progress.  The ledger holds disjoint blocks,   *)
(* every name holds a block of its own, and every single page is held by a *)
(* name.  An action grants a block to an empty name, takes the blocks of   *)
(* some names back, or moves the locals of a creation into the thread; a   *)
(* lemma each shows that this keeps the accounts.                          *)
(*                                                                         *)
(* ThreadStateIsFaithful holds in every state of the thread environment.   *)
(***************************************************************************)
EXTENDS ThreadResources, ThreadEnvironment, TLAPS, FiniteSetTheorems

Names ==
  (Threads \X ({"stack", "canary"} \cup Environment))
    \cup ({Creation} \X Environment)

Base(x) ==
  CASE x[1] = Creation -> op.env[x[2]]
    [] x[2] = "stack" -> tcb[x[1]].stack
    [] x[2] = "canary" -> tcb[x[1]].canary
    [] OTHER -> tcb[x[1]].env[x[2]]

Size(x) == IF x[2] = "stack" THEN StackPages ELSE 1
Held(x) == [base |-> Base(x), pages |-> Size(x)]

\* The blocks of the physical ledger: stacks and single pages, disjoint.
LedgerIsDisjoint ==
  /\ ledger \subseteq Block
  /\ \A b \in ledger : b.pages \in {1, StackPages}
  /\ \A b, c \in ledger : b # c => Extent(b) \cap Extent(c) = {}

\* A name holds a block of the ledger, and no other name holds it.
NamesHoldBlocks ==
  /\ \A x \in Names : Base(x) # Null => Held(x) \in ledger
  /\ \A x, y \in Names : Base(x) # Null /\ Base(x) = Base(y) => x = y

\* No single page is lost.
SinglePagesAreNamed ==
  \A b \in ledger : b.pages = 1 =>
    \E x \in Names : Size(x) = 1 /\ Base(x) = b.base

Accounts == LedgerIsDisjoint /\ NamesHoldBlocks /\ SinglePagesAreNamed

\* A free slot is zeroed, the boot thread runs on the firmware's stack, and an
\* inactive scheduler has no threads.
ThreadsAreShaped ==
  /\ \A t \in Threads : ~tcb[t].live => tcb[t] = EmptyThread
  /\ tcb[Boot].stack = Null /\ tcb[Boot].canary = Null
  /\ \A t \in Threads : tcb[t].id # 0 => tcb[t].stack # Null
  /\ ~active => \A t \in Workers : tcb[t] = EmptyThread
  /\ ~active /\ op.pc = "idle" => tcb[Boot] = EmptyThread

\* The pages allocate_thread_environment has asked for at each of its steps.
Asked ==
  [idle |-> {}, stack |-> {}, canary |-> {}, gs |-> {}, vector |-> {"gs"},
   block |-> {"gs", "vector"}, teb |-> {"gs", "vector", "block"},
   check |-> Environment, register |-> {}]

\* What the creation in progress has and has not done yet.
CreationIsShaped ==
  /\ op.pc = "idle" => op = Idle
  /\ \A e \in Environment : op.env[e] # Null => e \in Asked[op.pc]
  /\ op.pc # "idle" =>
       /\ tcb[op.thread].live /\ tcb[op.thread].id = 0
       /\ op.thread = Boot <=> ~active
  /\ op.pc \in {"stack", "canary", "register"} => op.thread # Boot
  /\ op.pc = "stack" => tcb[op.thread].stack = Null
  /\ op.pc \in {"stack", "canary"} => tcb[op.thread].canary = Null
  /\ op.pc \notin {"idle", "register"} => tcb[op.thread].env = NoPages
  /\ op.pc \notin {"idle", "stack"} /\ op.thread # Boot =>
       tcb[op.thread].stack # Null

\* The region ledger lists the stacks of the threads that have an identity;
\* only the thread being created has none.
Registered == {t \in Workers : tcb[t].live /\ tcb[t].id # 0}
RegionsAreStacks == regions = {StackRegion(t) : t \in Registered}
RegionsAreComplete ==
  \A t \in Workers : tcb[t].live /\ op.thread # t => tcb[t].id # 0

ResourceInv ==
  /\ TypeOK /\ Accounts /\ ThreadsAreShaped /\ CreationIsShaped
  /\ RegionsAreStacks /\ RegionsAreComplete

-----------------------------------------------------------------------------
(* Types.                                                                  *)

LEMMA Constants ==
  /\ MaxThreads \in Nat /\ StackPages \in Nat /\ StackPages > 1
  /\ FrameCount \in Nat /\ IdentityModulus \in Nat /\ IdentityModulus > 1
  /\ Boot \in Threads /\ Creation \notin Threads /\ Null \notin Frames
  /\ 0 \in Identities /\ 1 \in Identities
  BY ResourceAssumption DEF Boot, Threads, Creation, Null, Frames, Identities

LEMMA ThreadFields ==
  ASSUME TypeOK, NEW t \in Threads
  PROVE  /\ tcb[t] \in ThreadRecord
         /\ tcb[t].live \in BOOLEAN /\ tcb[t].done \in BOOLEAN
         /\ tcb[t].open \in BOOLEAN /\ tcb[t].intact \in BOOLEAN
         /\ tcb[t].stack \in AnyFrame /\ tcb[t].canary \in AnyFrame
         /\ tcb[t].env \in [Environment -> AnyFrame]
         /\ tcb[t].id \in Identities
  <1>1. tcb[t] \in ThreadRecord
    BY DEF TypeOK
  <1>2. QED
    BY <1>1 DEF ThreadRecord

LEMMA OpFields ==
  ASSUME TypeOK
  PROVE  /\ op \in OpRecord
         /\ op.pc \in Steps /\ op.thread \in Threads
         /\ op.env \in [Environment -> AnyFrame]
  <1>1. op \in OpRecord
    BY DEF TypeOK
  <1>2. QED
    BY <1>1 DEF OpRecord

LEMMA EmptyFields ==
  /\ EmptyThread \in ThreadRecord
  /\ ~EmptyThread.live /\ ~EmptyThread.done /\ ~EmptyThread.open
  /\ EmptyThread.stack = Null /\ EmptyThread.canary = Null
  /\ EmptyThread.env = NoPages /\ EmptyThread.id = 0
  <1>1. NoPages \in [Environment -> AnyFrame]
    BY DEF NoPages, AnyFrame
  <1>2. QED
    BY <1>1, Constants DEF EmptyThread, ThreadRecord, AnyFrame

LEMMA IdleFields ==
  /\ Idle \in OpRecord
  /\ Idle.pc = "idle" /\ Idle.thread = Boot /\ Idle.env = NoPages
  <1>1. NoPages \in [Environment -> AnyFrame]
    BY DEF NoPages, AnyFrame
  <1>2. QED
    BY <1>1, Constants DEF Idle, OpRecord, Steps

LEMMA BlockFields ==
  ASSUME NEW b \in Block
  PROVE  /\ b.base \in Frames /\ b.base \in Nat /\ b.base # Null /\ b.pages \in Nat
         /\ b = [base |-> b.base, pages |-> b.pages]
  BY DEF Block, Frames, Null

\* The names, spelt out.
LEMMA NamesAre ==
  /\ \A t \in Threads : <<t, "stack">> \in Names /\ <<t, "canary">> \in Names
  /\ \A t \in Threads, e \in Environment : <<t, e>> \in Names
  /\ \A e \in Environment : <<Creation, e>> \in Names
  /\ \A x \in Names :
       \/ \E t \in Threads : x = <<t, "stack">> \/ x = <<t, "canary">>
       \/ \E t \in Threads, e \in Environment : x = <<t, e>>
       \/ \E e \in Environment : x = <<Creation, e>>
  BY DEF Names

LEMMA BasesAre ==
  /\ \A t \in Threads : /\ Base(<<t, "stack">>) = tcb[t].stack
                        /\ Base(<<t, "canary">>) = tcb[t].canary
  /\ \A t \in Threads, e \in Environment : Base(<<t, e>>) = tcb[t].env[e]
  /\ \A e \in Environment : Base(<<Creation, e>>) = op.env[e]
  BY Constants DEF Base, Environment

LEMMA BasesAreNext ==
  /\ \A t \in Threads : /\ Base(<<t, "stack">>)' = tcb'[t].stack
                        /\ Base(<<t, "canary">>)' = tcb'[t].canary
  /\ \A t \in Threads, e \in Environment : Base(<<t, e>>)' = tcb'[t].env[e]
  /\ \A e \in Environment : Base(<<Creation, e>>)' = op'.env[e]
  BY Constants DEF Base, Environment

LEMMA SizesAre ==
  /\ \A t \in Threads : /\ Size(<<t, "stack">>) = StackPages
                        /\ Size(<<t, "canary">>) = 1
  /\ \A t \in Threads, e \in Environment : Size(<<t, e>>) = 1
  /\ \A e \in Environment : Size(<<Creation, e>>) = 1
  BY DEF Size, Environment

-----------------------------------------------------------------------------
(* How the accounts change.                                                *)

\* Two blocks that share their first page are one block.
LEMMA BaseNamesBlock ==
  ASSUME LedgerIsDisjoint, NEW b \in ledger, NEW c \in ledger, b.base = c.base
  PROVE  b = c
  <1>1. /\ b.base \in Nat /\ b.pages \in Nat /\ b.pages >= 1
        /\ c.pages \in Nat /\ c.pages >= 1
    BY BlockFields, Constants DEF LedgerIsDisjoint
  <1>2. b.base \in Extent(b) /\ b.base \in Extent(c)
    BY <1>1 DEF Extent
  <1>3. QED
    BY <1>2 DEF LedgerIsDisjoint

\* Nothing is allocated, freed or passed on.
LEMMA StayKeeps ==
  ASSUME Accounts, ledger' = ledger, \A x \in Names : Base(x)' = Base(x)
  PROVE  Accounts'
  <1>1. \A x \in Names : Held(x)' = Held(x)
    BY DEF Held
  <1>2. LedgerIsDisjoint'
    BY DEF Accounts, LedgerIsDisjoint
  <1>3. NamesHoldBlocks'
    BY <1>1 DEF Accounts, NamesHoldBlocks
  <1>4. SinglePagesAreNamed'
    BY DEF Accounts, SinglePagesAreNamed
  <1>5. QED
    BY <1>2, <1>3, <1>4 DEF Accounts

\* An empty name gets a block the firmware had.
LEMMA GrantKeeps ==
  ASSUME Accounts, NEW z \in Names, Base(z) = Null,
         NEW b \in Available(Size(z)), ledger' = ledger \cup {b},
         \A x \in Names : Base(x)' = IF x = z THEN b.base ELSE Base(x)
  PROVE  Accounts'
  <1>1. /\ Size(z) \in Nat /\ Size(z) >= 1 /\ Size(z) \in {1, StackPages}
    BY Constants DEF Size
  <1>2. /\ b.base \in Frames /\ b.pages = Size(z) /\ b \in Block
        /\ b = [base |-> b.base, pages |-> Size(z)]
        /\ Extent(b) \subseteq Frames \ UNION {Extent(c) : c \in ledger}
    BY <1>1 DEF Available, Block
  <1>3. \A c \in ledger : Extent(b) \cap Extent(c) = {}
    BY <1>2
  <1>4. b.base \in Extent(b) /\ b.base # Null
    BY <1>1, <1>2 DEF Extent, Frames, Null
  <1>5. LedgerIsDisjoint'
    BY <1>1, <1>2, <1>3 DEF Accounts, LedgerIsDisjoint
  <1>6. b \notin ledger
    BY <1>3, <1>4
  <1>7. \A x \in Names : Base(x) # b.base
    <2> SUFFICES ASSUME NEW x \in Names, Base(x) = b.base PROVE FALSE
      OBVIOUS
    <2>1. Held(x) \in ledger /\ Held(x).base = b.base
      BY <1>4 DEF Accounts, NamesHoldBlocks, Held
    <2>2. /\ Held(x).base \in Nat /\ Held(x).pages \in Nat /\ Held(x).pages >= 1
      BY <2>1, BlockFields, Constants DEF Accounts, LedgerIsDisjoint
    <2>3. b.base \in Extent(Held(x))
      BY <2>1, <2>2 DEF Extent
    <2>4. QED
      BY <2>1, <2>3, <1>3, <1>4
  <1>8. NamesHoldBlocks'
    <2>1. ASSUME NEW x \in Names, Base(x)' # Null PROVE Held(x)' \in ledger'
      <3>1. CASE x = z
        BY <3>1, <1>2 DEF Held
      <3>2. CASE x # z
        <4>1. Base(x)' = Base(x)
          BY <3>2
        <4>2. Held(x)' = Held(x) /\ Held(x) \in ledger
          BY <4>1, <2>1 DEF Held, Accounts, NamesHoldBlocks
        <4>3. QED
          BY <4>2
      <3>3. QED
        BY <3>1, <3>2
    <2>2. ASSUME NEW x \in Names, NEW y \in Names, Base(x)' # Null,
                 Base(x)' = Base(y)'
          PROVE  x = y
      BY <2>2, <1>7 DEF Accounts, NamesHoldBlocks
    <2>3. QED
      BY <2>1, <2>2 DEF NamesHoldBlocks
  <1>9. SinglePagesAreNamed'
    <2> SUFFICES ASSUME NEW c \in ledger', c.pages = 1
                 PROVE  \E x \in Names : Size(x) = 1 /\ Base(x)' = c.base
      BY DEF SinglePagesAreNamed
    <2>1. CASE c = b
      BY <2>1, <1>2
    <2>2. CASE c \in ledger
      <3>1. PICK x \in Names : Size(x) = 1 /\ Base(x) = c.base
        BY <2>2 DEF Accounts, SinglePagesAreNamed
      <3>2. c.base # Null
        BY <2>2, BlockFields DEF Accounts, LedgerIsDisjoint
      <3>3. QED
        BY <3>1, <3>2
    <2>3. QED
      BY <2>1, <2>2
  <1>10. QED
    BY <1>5, <1>8, <1>9 DEF Accounts

\* page_free is called for the pages of some names, which are then cleared.
\* It is called for stacks, too, and frees nothing then: the ledger knows a
\* stack by another size, and no single page begins where a stack does.
LEMMA FreeKeeps ==
  ASSUME Accounts, NEW Z \in SUBSET Names, NEW P, ledger' = PageFree(P),
         \A x \in Names : Base(x)' = IF x \in Z THEN Null ELSE Base(x),
         \A p \in P : p = Null \/ \E z \in Z : p = Base(z),
         \A z \in Z : Size(z) = 1 /\ Base(z) # Null => Base(z) \in P
  PROVE  Accounts'
  <1>1. ledger' \subseteq ledger
    BY DEF PageFree
  <1>2. \A b \in ledger : b \in ledger' <=> ~(b.base \in P /\ b.pages = 1)
    <2> SUFFICES ASSUME NEW b \in ledger
                 PROVE  b \in [base : P, pages : {1}] <=> b.base \in P /\ b.pages = 1
      BY DEF PageFree
    <2>1. b = [base |-> b.base, pages |-> b.pages]
      BY BlockFields DEF Accounts, LedgerIsDisjoint
    <2>2. QED
      BY <2>1
  <1>3. LedgerIsDisjoint'
    BY <1>1 DEF Accounts, LedgerIsDisjoint
  <1>4. NamesHoldBlocks'
    <2>1. ASSUME NEW x \in Names, Base(x)' # Null PROVE Held(x)' \in ledger'
      <3>1. x \notin Z /\ Base(x)' = Base(x) /\ Base(x) # Null
        BY <2>1
      <3>2. Held(x)' = Held(x) /\ Held(x) \in ledger /\ Held(x).base = Base(x)
        BY <3>1 DEF Held, Accounts, NamesHoldBlocks
      <3>3. Base(x) \notin P
        BY <3>1 DEF Accounts, NamesHoldBlocks
      <3>4. QED
        BY <3>2, <3>3, <1>2
    <2>2. ASSUME NEW x \in Names, NEW y \in Names, Base(x)' # Null,
                 Base(x)' = Base(y)'
          PROVE  x = y
      <3>1. Base(x)' = Base(x) /\ Base(y)' = Base(y)
        BY <2>2
      <3>2. QED
        BY <3>1, <2>2 DEF Accounts, NamesHoldBlocks
    <2>3. QED
      BY <2>1, <2>2 DEF NamesHoldBlocks
  <1>5. SinglePagesAreNamed'
    <2> SUFFICES ASSUME NEW b \in ledger', b.pages = 1
                 PROVE  \E x \in Names : Size(x) = 1 /\ Base(x)' = b.base
      BY DEF SinglePagesAreNamed
    <2>1. PICK x \in Names : Size(x) = 1 /\ Base(x) = b.base
      BY <1>1 DEF Accounts, SinglePagesAreNamed
    <2>2. b.base \notin P /\ b.base # Null
      BY <1>1, <1>2, BlockFields DEF Accounts, LedgerIsDisjoint
    <2>3. x \notin Z
      BY <2>1, <2>2
    <2>4. QED
      BY <2>1, <2>3
  <1>6. QED
    BY <1>3, <1>4, <1>5 DEF Accounts

\* The locals of the creation become the environment of the thread t.
LEMMA MoveKeeps ==
  ASSUME Accounts, NEW t \in Threads, ledger' = ledger,
         \A e \in Environment : /\ Base(<<t, e>>) = Null
                                /\ Base(<<t, e>>)' = Base(<<Creation, e>>)
                                /\ Base(<<Creation, e>>)' = Null,
         \A x \in Names : x[1] # Creation /\ ~(x[1] = t /\ x[2] \in Environment)
                            => Base(x)' = Base(x)
  PROVE  Accounts'
  <1> DEFINE Source(x) == IF x[1] = t /\ x[2] \in Environment
                            THEN <<Creation, x[2]>> ELSE x
  <1>1. ASSUME NEW x \in Names, Base(x)' # Null
        PROVE  /\ Source(x) \in Names /\ Base(x)' = Base(Source(x))
               /\ Size(x) = Size(Source(x)) /\ x[1] # Creation
    <2>1. t # Creation
      BY Constants
    <2>2. CASE x[1] = Creation
      <3>1. PICK e \in Environment : x = <<Creation, e>>
        BY <2>2, NamesAre, Constants
      <3>2. QED
        BY <1>1, <3>1
    <2>3. CASE x[1] = t /\ x[2] \in Environment
      <3>1. x = <<t, x[2]>>
        BY <2>3, NamesAre
      <3>2. QED
        BY <2>1, <2>3, <3>1, NamesAre, SizesAre
    <2>4. CASE x[1] # Creation /\ ~(x[1] = t /\ x[2] \in Environment)
      BY <2>4
    <2>5. QED
      BY <2>2, <2>3, <2>4
  <1>2. ASSUME NEW x \in Names, NEW y \in Names, x[1] # Creation, y[1] # Creation,
               Source(x) = Source(y)
        PROVE  x = y
    <2>1. x = <<x[1], x[2]>> /\ y = <<y[1], y[2]>>
      BY DEF Names
    <2>2. QED
      BY <2>1, <1>2
  <1>3. NamesHoldBlocks'
    <2>1. ASSUME NEW x \in Names, Base(x)' # Null PROVE Held(x)' \in ledger'
      <3>1. Held(Source(x)) \in ledger
        BY <1>1, <2>1 DEF Accounts, NamesHoldBlocks
      <3>2. Held(x)' = Held(Source(x))
        BY <1>1, <2>1 DEF Held
      <3>3. QED
        BY <3>1, <3>2
    <2>2. ASSUME NEW x \in Names, NEW y \in Names, Base(x)' # Null,
                 Base(x)' = Base(y)'
          PROVE  x = y
      <3>1. Source(x) = Source(y)
        <4> HIDE DEF Source
        <4>1. QED
          BY <1>1, <2>2 DEF Accounts, NamesHoldBlocks
      <3>2. QED
        BY <1>1, <1>2, <2>2, <3>1
    <2>3. QED
      BY <2>1, <2>2 DEF NamesHoldBlocks
  <1>4. LedgerIsDisjoint'
    BY DEF Accounts, LedgerIsDisjoint
  <1>5. SinglePagesAreNamed'
    <2> SUFFICES ASSUME NEW b \in ledger, b.pages = 1
                 PROVE  \E x \in Names : Size(x) = 1 /\ Base(x)' = b.base
      BY DEF SinglePagesAreNamed
    <2>1. PICK x \in Names : Size(x) = 1 /\ Base(x) = b.base
      BY DEF Accounts, SinglePagesAreNamed
    <2>2. b.base # Null
      BY BlockFields DEF Accounts, LedgerIsDisjoint
    <2>3. CASE x[1] = Creation
      <3>1. PICK e \in Environment : x = <<Creation, e>>
        BY <2>3, NamesAre, Constants
      <3>2. QED
        BY <2>1, <3>1, NamesAre, SizesAre
    <2>4. CASE x[1] = t /\ x[2] \in Environment
      <3>1. x = <<t, x[2]>>
        BY <2>4, NamesAre
      <3>2. QED
        BY <2>1, <2>2, <2>4, <3>1
    <2>5. QED
      BY <2>1, <2>3, <2>4
  <1>6. QED
    BY <1>3, <1>4, <1>5 DEF Accounts

\* A creation that is given up, a reclamation and a teardown clear threads and
\* the locals of the creation, and call page_free for what these hold.
LEMMA ReleaseKeeps ==
  ASSUME Accounts, NEW T \in SUBSET Threads, NEW P, ledger' = PageFree(P),
         op'.env = NoPages,
         \A t \in T : /\ tcb'[t].stack = Null /\ tcb'[t].canary = Null
                      /\ tcb'[t].env = NoPages,
         \A t \in Threads \ T : /\ tcb'[t].stack = tcb[t].stack
                                /\ tcb'[t].canary = tcb[t].canary
                                /\ tcb'[t].env = tcb[t].env,
         \A p \in P : \/ p = Null \/ p \in EnvironmentPages(op.env)
                      \/ \E t \in T : p \in OwnedPages(t),
         EnvironmentPages(op.env) \subseteq P,
         \A t \in T : /\ tcb[t].canary # Null => tcb[t].canary \in P
                      /\ EnvironmentPages(tcb[t].env) \subseteq P
  PROVE  Accounts'
  <1> DEFINE Z == {x \in Names : x[1] \in T \cup {Creation}}
  <1>1. \A e \in Environment : NoPages[e] = Null
    BY DEF NoPages
  <1>2. ASSUME NEW x \in Names
        PROVE  Base(x)' = IF x \in Z THEN Null ELSE Base(x)
    <2>1. CASE \E t \in Threads : x = <<t, "stack">> \/ x = <<t, "canary">>
      <3>1. PICK t \in Threads : x = <<t, "stack">> \/ x = <<t, "canary">>
        BY <2>1
      <3>2. x \in Z <=> t \in T
        BY <3>1, Constants
      <3>3. /\ Base(<<t, "stack">>) = tcb[t].stack
            /\ Base(<<t, "canary">>) = tcb[t].canary
            /\ Base(<<t, "stack">>)' = tcb'[t].stack
            /\ Base(<<t, "canary">>)' = tcb'[t].canary
        BY BasesAre, BasesAreNext
      <3> HIDE DEF Z
      <3>4. CASE t \in T
        BY <3>1, <3>2, <3>3, <3>4, Zenon
      <3>5. CASE t \notin T
        <4>1. tcb'[t].stack = tcb[t].stack /\ tcb'[t].canary = tcb[t].canary
          BY <3>5
        <4>2. QED
          BY <3>1, <3>2, <3>3, <3>5, <4>1, Zenon
      <3>6. QED
        BY <3>4, <3>5
    <2>2. CASE \E t \in Threads, e \in Environment : x = <<t, e>>
      BY <2>2, <1>1, BasesAre, BasesAreNext, Constants
    <2>3. CASE \E e \in Environment : x = <<Creation, e>>
      BY <2>3, <1>1, BasesAreNext
    <2>4. QED
      BY <2>1, <2>2, <2>3, NamesAre
  <1>3. ASSUME NEW p \in P PROVE p = Null \/ \E z \in Z : p = Base(z)
    <2>1. CASE p \in EnvironmentPages(op.env)
      <3>1. PICK e \in Environment : p = op.env[e]
        BY <2>1 DEF EnvironmentPages
      <3>2. <<Creation, e>> \in Z /\ Base(<<Creation, e>>) = p
        BY <3>1, NamesAre, BasesAre
      <3>3. QED
        BY <3>2
    <2>2. ASSUME NEW t \in T, p \in OwnedPages(t)
          PROVE  p = Null \/ \E z \in Z : p = Base(z)
      <3>1. /\ <<t, "stack">> \in Z /\ <<t, "canary">> \in Z
            /\ \A e \in Environment : <<t, e>> \in Z
        BY NamesAre
      <3>2. \/ p = tcb[t].stack \/ p = tcb[t].canary
            \/ \E e \in Environment : p = tcb[t].env[e]
        BY <2>2 DEF OwnedPages, EnvironmentPages
      <3>3. /\ Base(<<t, "stack">>) = tcb[t].stack
            /\ Base(<<t, "canary">>) = tcb[t].canary
            /\ \A e \in Environment : Base(<<t, e>>) = tcb[t].env[e]
        BY BasesAre
      <3> HIDE DEF Z
      <3>4. QED
        BY <3>1, <3>2, <3>3, ZenonT(30)
    <2>3. QED
      BY <2>1, <2>2
  <1>4. ASSUME NEW z \in Z, Size(z) = 1, Base(z) # Null PROVE Base(z) \in P
    <2>1. CASE \E t \in Threads : z = <<t, "stack">> \/ z = <<t, "canary">>
      <3>1. PICK t \in Threads : z = <<t, "stack">> \/ z = <<t, "canary">>
        BY <2>1
      <3>2. z = <<t, "canary">>
        <4>1. Size(<<t, "stack">>) # 1
          BY Constants DEF Size
        <4>2. QED
          BY <3>1, <1>4, <4>1
      <3>3. t \in T /\ Base(z) = tcb[t].canary
        BY <3>2, BasesAre, Constants
      <3>4. QED
        BY <3>3, <1>4
    <2>2. CASE \E t \in Threads, e \in Environment : z = <<t, e>>
      <3>1. PICK t \in Threads, e \in Environment : z = <<t, e>>
        BY <2>2
      <3>2. t \in T /\ Base(z) = tcb[t].env[e]
        BY <3>1, BasesAre, Constants
      <3>3. QED
        BY <3>2, <1>4 DEF EnvironmentPages
    <2>3. CASE \E e \in Environment : z = <<Creation, e>>
      <3>1. PICK e \in Environment : z = <<Creation, e>>
        BY <2>3
      <3>2. Base(z) = op.env[e]
        BY <3>1, BasesAre
      <3>3. QED
        BY <3>2, <1>4 DEF EnvironmentPages
    <2>4. QED
      BY <2>1, <2>2, <2>3, NamesAre
  <1>5. Z \in SUBSET Names
    OBVIOUS
  <1> HIDE DEF Z
  <1>6. QED
    BY <1>2, <1>3, <1>4, <1>5, FreeKeeps

-----------------------------------------------------------------------------
(* How the region ledger changes.                                          *)

LEMMA RegionsStay ==
  ASSUME RegionsAreStacks, regions' = regions,
         \A t \in Workers :
           /\ tcb'[t].live /\ tcb'[t].id # 0 <=> tcb[t].live /\ tcb[t].id # 0
           /\ tcb[t].live /\ tcb[t].id # 0 =>
                tcb'[t].stack = tcb[t].stack /\ tcb'[t].id = tcb[t].id
  PROVE  RegionsAreStacks'
  <1>1. Registered' = Registered
    BY DEF Registered
  <1>2. \A t \in Registered : StackRegion(t)' = StackRegion(t)
    BY DEF Registered, StackRegion
  <1>3. QED
    BY <1>1, <1>2 DEF RegionsAreStacks

\* Stacks of different threads are different regions.
LEMMA StackRegionsDiffer ==
  ASSUME TypeOK, Accounts, ThreadsAreShaped, NEW t \in Registered,
         NEW u \in Registered, StackRegion(t) = StackRegion(u)
  PROVE  t = u
  <1>1. t \in Threads /\ u \in Threads /\ tcb[t].id # 0
    BY DEF Registered, Workers
  <1>2. tcb[t].stack = tcb[u].stack
    BY DEF StackRegion
  <1>3. Base(<<t, "stack">>) # Null /\ Base(<<t, "stack">>) = Base(<<u, "stack">>)
    <2>1. Base(<<t, "stack">>) = tcb[t].stack /\ Base(<<u, "stack">>) = tcb[u].stack
      BY <1>1, BasesAre
    <2>2. tcb[t].stack # Null
      BY <1>1 DEF ThreadsAreShaped
    <2>3. QED
      BY <1>2, <2>1, <2>2
  <1>4. <<t, "stack">> = <<u, "stack">>
    BY <1>1, <1>3, NamesAre DEF Accounts, NamesHoldBlocks
  <1>5. QED
    BY <1>4

LEMMA RegionsReclaimed ==
  ASSUME TypeOK, Accounts, ThreadsAreShaped, RegionsAreStacks,
         NEW T \in SUBSET Registered,
         regions' = regions \ {StackRegion(t) : t \in T},
         \A t \in T : ~tcb'[t].live,
         \A t \in Workers \ T : /\ tcb'[t].live = tcb[t].live
                                /\ tcb'[t].stack = tcb[t].stack
                                /\ tcb'[t].id = tcb[t].id
  PROVE  RegionsAreStacks'
  <1>1. Registered' = Registered \ T
    BY DEF Registered
  <1>2. \A t \in Registered \ T : StackRegion(t)' = StackRegion(t)
    BY DEF Registered, StackRegion
  <1>3. regions' = {StackRegion(t) : t \in Registered \ T}
    BY StackRegionsDiffer DEF RegionsAreStacks
  <1>4. QED
    BY <1>1, <1>2, <1>3 DEF RegionsAreStacks

-----------------------------------------------------------------------------
(* The actions.                                                            *)

LEMMA ThreadUpdate ==
  ASSUME TypeOK, NEW t \in Threads, NEW r \in ThreadRecord,
         tcb' = [tcb EXCEPT ![t] = r]
  PROVE  /\ tcb' \in [Threads -> ThreadRecord]
         /\ tcb'[t] = r
         /\ \A u \in Threads : u # t => tcb'[u] = tcb[u]
  BY DEF TypeOK

LEMMA SameBases ==
  ASSUME op'.env = op.env,
         \A t \in Threads : /\ tcb'[t].stack = tcb[t].stack
                            /\ tcb'[t].canary = tcb[t].canary
                            /\ tcb'[t].env = tcb[t].env
  PROVE  \A x \in Names : Base(x)' = Base(x)
  <1> SUFFICES ASSUME NEW x \in Names PROVE Base(x)' = Base(x)
    OBVIOUS
  <1>1. CASE \E t \in Threads : x = <<t, "stack">> \/ x = <<t, "canary">>
    <2>1. PICK t \in Threads : x = <<t, "stack">> \/ x = <<t, "canary">>
      BY <1>1
    <2>2. /\ Base(<<t, "stack">>)' = Base(<<t, "stack">>)
          /\ Base(<<t, "canary">>)' = Base(<<t, "canary">>)
      BY BasesAre, BasesAreNext
    <2>3. QED
      BY <2>1, <2>2, Zenon
  <1>2. CASE \E t \in Threads, e \in Environment : x = <<t, e>>
    BY <1>2, BasesAre, BasesAreNext
  <1>3. CASE \E e \in Environment : x = <<Creation, e>>
    BY <1>3, BasesAre, BasesAreNext
  <1>4. QED
    BY <1>1, <1>2, <1>3, NamesAre

LEMMA InitResources == Init => ResourceInv
  <1> SUFFICES ASSUME Init PROVE ResourceInv
    OBVIOUS
  <1>1. /\ ledger = {} /\ regions = {} /\ nextId = 1 /\ op = Idle
        /\ active = FALSE /\ tcb = [t \in Threads |-> EmptyThread]
    BY DEF Init
  <1>2. TypeOK
    BY <1>1, Constants, EmptyFields, IdleFields DEF TypeOK
  <1>3. \A t \in Threads : tcb[t] = EmptyThread
    BY <1>1
  <1>4. \A e \in Environment : NoPages[e] = Null
    BY DEF NoPages
  <1>5. ASSUME NEW x \in Names PROVE Base(x) = Null
    <2>1. CASE \E t \in Threads : x = <<t, "stack">> \/ x = <<t, "canary">>
      <3>1. PICK t \in Threads : x = <<t, "stack">> \/ x = <<t, "canary">>
        BY <2>1
      <3>2. Base(<<t, "stack">>) = Null /\ Base(<<t, "canary">>) = Null
        BY <1>3, BasesAre, EmptyFields
      <3>3. QED
        BY <3>1, <3>2, Zenon
    <2>2. CASE \E t \in Threads, e \in Environment : x = <<t, e>>
      BY <2>2, <1>3, <1>4, BasesAre, EmptyFields
    <2>3. CASE \E e \in Environment : x = <<Creation, e>>
      BY <2>3, <1>1, <1>4, BasesAre, IdleFields
    <2>4. QED
      BY <2>1, <2>2, <2>3, NamesAre
  <1>6. Accounts
    BY <1>1, <1>5 DEF Accounts, LedgerIsDisjoint, NamesHoldBlocks, SinglePagesAreNamed
  <1>7. ThreadsAreShaped
    BY <1>3, EmptyFields, Constants DEF ThreadsAreShaped, Workers
  <1>8. CreationIsShaped
    BY <1>1, <1>4, IdleFields DEF CreationIsShaped
  <1>9. RegionsAreStacks /\ RegionsAreComplete
    BY <1>1, <1>3, EmptyFields
       DEF RegionsAreStacks, RegionsAreComplete, Registered, Workers
  <1>10. QED
    BY <1>2, <1>6, <1>7, <1>8, <1>9 DEF ResourceInv

\* The flags of a live thread change, and nothing else.
LEMMA FlagsKeep ==
  ASSUME ResourceInv, UNCHANGED <<ledger, regions, nextId, op, active>>,
         tcb' \in [Threads -> ThreadRecord],
         \A t \in Threads :
           /\ tcb'[t].live = tcb[t].live /\ tcb'[t].stack = tcb[t].stack
           /\ tcb'[t].canary = tcb[t].canary /\ tcb'[t].env = tcb[t].env
           /\ tcb'[t].id = tcb[t].id
           /\ ~tcb[t].live => tcb'[t] = tcb[t]
  PROVE  ResourceInv'
  <1>1. TypeOK'
    BY DEF ResourceInv, TypeOK
  <1>2. \A x \in Names : Base(x)' = Base(x)
    BY SameBases
  <1>3. Accounts'
    BY <1>2, StayKeeps DEF ResourceInv
  <1>4. /\ Boot \in Threads /\ op.thread \in Threads
        /\ \A t \in Workers : t \in Threads
    BY Constants, OpFields DEF ResourceInv, Workers
  <1>5. \A t \in Threads : tcb[t] = EmptyThread => ~tcb[t].live
    BY EmptyFields
  <1>6. ThreadsAreShaped'
    BY <1>4, <1>5 DEF ResourceInv, ThreadsAreShaped
  <1>7. CreationIsShaped'
    BY <1>4 DEF ResourceInv, CreationIsShaped
  <1>8. RegionsAreStacks'
    BY <1>4, RegionsStay DEF ResourceInv
  <1>9. RegionsAreComplete'
    BY <1>4 DEF ResourceInv, RegionsAreComplete
  <1>10. QED
    BY <1>1, <1>3, <1>6, <1>7, <1>8, <1>9 DEF ResourceInv

LEMMA TerminateKeeps ==
  ASSUME ResourceInv, NEW t \in Workers, Terminate(t) \/ OverwriteCanary(t)
  PROVE  ResourceInv'
  <1>1. t \in Threads /\ TypeOK
    BY DEF Workers, ResourceInv
  <1>2. /\ UNCHANGED <<ledger, regions, nextId, op, active>> /\ tcb[t].live
        /\ \/ tcb' = [tcb EXCEPT ![t] = [tcb[t] EXCEPT !.done = TRUE]]
           \/ tcb' = [tcb EXCEPT ![t] = [tcb[t] EXCEPT !.intact = FALSE]]
    BY DEF Terminate, OverwriteCanary
  <1>3. /\ [tcb[t] EXCEPT !.done = TRUE] \in ThreadRecord
        /\ [tcb[t] EXCEPT !.intact = FALSE] \in ThreadRecord
    BY <1>1, ThreadFields DEF ThreadRecord
  <1>4. PICK r \in ThreadRecord :
          /\ tcb' = [tcb EXCEPT ![t] = r]
          /\ r.live = tcb[t].live /\ r.stack = tcb[t].stack
          /\ r.canary = tcb[t].canary /\ r.env = tcb[t].env /\ r.id = tcb[t].id
    <2>1. tcb[t] \in ThreadRecord
      BY <1>1, ThreadFields
    <2>2. QED
      BY <2>1, <1>2, <1>3 DEF ThreadRecord
  <1>5. /\ tcb' \in [Threads -> ThreadRecord]
        /\ tcb'[t] = r /\ \A u \in Threads : u # t => tcb'[u] = tcb[u]
    BY <1>1, <1>4, ThreadUpdate
  <1>6. QED
    BY <1>2, <1>4, <1>5, FlagsKeep

LEMMA StutterKeeps == ResourceInv /\ UNCHANGED vars => ResourceInv'
  <1> SUFFICES ASSUME ResourceInv, UNCHANGED vars PROVE ResourceInv'
    OBVIOUS
  <1>1. UNCHANGED <<ledger, regions, nextId, op, active, tcb>>
    BY DEF vars
  <1>2. tcb' \in [Threads -> ThreadRecord]
    BY <1>1 DEF ResourceInv, TypeOK
  <1>3. QED
    BY <1>1, <1>2, FlagsKeep

\* maybe_reclaim_thread for the threads T, after flags of threads changed.
LEMMA ReclaimKeeps ==
  ASSUME ResourceInv, Ready, NEW ts \in [Threads -> ThreadRecord],
         NEW T \in SUBSET Registered, Reclaim(ts, T),
         UNCHANGED <<nextId, op, active>>,
         \A t \in Threads :
           /\ ts[t].live = tcb[t].live /\ ts[t].stack = tcb[t].stack
           /\ ts[t].canary = tcb[t].canary /\ ts[t].env = tcb[t].env
           /\ ts[t].id = tcb[t].id
           /\ ~tcb[t].live => ts[t] = tcb[t]
  PROVE  ResourceInv'
  <1> DEFINE P == UNION {OwnedPages(t) : t \in T}
  <1>1. /\ ledger' = PageFree(P)
        /\ tcb' = [t \in Threads |-> IF t \in T THEN EmptyThread ELSE ts[t]]
        /\ regions' = regions \ {StackRegion(t) : t \in T}
    BY DEF Reclaim
  <1>2. op = Idle /\ op' = Idle /\ active /\ active'
    BY DEF Ready
  <1>3. T \subseteq Workers /\ T \subseteq Threads /\ Boot \in Threads
    BY Constants DEF Registered, Workers
  <1>4. /\ \A t \in T : tcb'[t] = EmptyThread
        /\ \A t \in Threads \ T : tcb'[t] = ts[t]
    BY <1>1, <1>3
  <1>5. tcb' \in [Threads -> ThreadRecord]
    BY <1>1, EmptyFields
  <1>6. EnvironmentPages(op.env) = {}
    BY <1>2, IdleFields DEF EnvironmentPages, NoPages
  <1>7. \A t \in T : /\ tcb[t].canary \in P
                     /\ EnvironmentPages(tcb[t].env) \subseteq P
    BY DEF OwnedPages
  <1>8. \A p \in P : \E t \in T : p \in OwnedPages(t)
    OBVIOUS
  <1> HIDE DEF P
  <1>9. Accounts'
    <2>1. op'.env = NoPages
      BY <1>2, IdleFields
    <2>2. \A t \in T : /\ tcb'[t].stack = Null /\ tcb'[t].canary = Null
                       /\ tcb'[t].env = NoPages
      BY <1>4, EmptyFields
    <2>3. \A t \in Threads \ T : /\ tcb'[t].stack = tcb[t].stack
                                 /\ tcb'[t].canary = tcb[t].canary
                                 /\ tcb'[t].env = tcb[t].env
      BY <1>4
    <2>4. QED
      BY <2>1, <2>2, <2>3, <1>1, <1>3, <1>6, <1>7, <1>8, ReleaseKeeps DEF ResourceInv
  <1>10. ledger' \subseteq Block /\ regions' \subseteq Region
    BY <1>1, <1>9 DEF Accounts, LedgerIsDisjoint, ResourceInv, TypeOK
  <1>11. TypeOK'
    BY <1>5, <1>10 DEF ResourceInv, TypeOK
  <1>12. Boot \notin T
    BY <1>3 DEF Workers
  <1>13. ThreadsAreShaped'
    BY <1>2, <1>3, <1>4, <1>12, EmptyFields DEF ResourceInv, ThreadsAreShaped
  <1>14. CreationIsShaped'
    BY <1>2, IdleFields DEF CreationIsShaped, NoPages
  <1>15. RegionsAreStacks'
    <2>1. /\ \A t \in T : ~tcb'[t].live
          /\ \A t \in Workers \ T : /\ tcb'[t].live = tcb[t].live
                                    /\ tcb'[t].stack = tcb[t].stack
                                    /\ tcb'[t].id = tcb[t].id
      BY <1>4, EmptyFields DEF Workers
    <2>2. QED
      BY <2>1, <1>1, RegionsReclaimed DEF ResourceInv
  <1>16. RegionsAreComplete'
    BY <1>2, <1>4, EmptyFields DEF ResourceInv, RegionsAreComplete, Workers
  <1>17. QED
    BY <1>9, <1>11, <1>13, <1>14, <1>15, <1>16 DEF ResourceInv

\* gxos_scheduler_close_handle and gxos_scheduler_discard_created_thread
LEMMA CloseHandleKeeps ==
  ASSUME ResourceInv, NEW t \in Workers, CloseHandle(t) \/ DiscardCreatedThread(t)
  PROVE  ResourceInv'
  <1>1. t \in Threads /\ TypeOK /\ tcb \in [Threads -> ThreadRecord]
    BY DEF Workers, ResourceInv, TypeOK
  <1>2. /\ [tcb[t] EXCEPT !.open = FALSE] \in ThreadRecord
        /\ [tcb[t] EXCEPT !.done = TRUE] \in ThreadRecord
    BY <1>1, ThreadFields DEF ThreadRecord
  <1>3. Ready /\ tcb[t].live /\ UNCHANGED <<nextId, op, active>>
    BY DEF CloseHandle, DiscardCreatedThread
  <1>4. PICK r \in ThreadRecord :
          /\ \E ts : /\ ts = [tcb EXCEPT ![t] = r]
                     /\ Reclaim(ts, {u \in {t} : Reclaimable(ts, u)})
          /\ r.live = tcb[t].live /\ r.stack = tcb[t].stack
          /\ r.canary = tcb[t].canary /\ r.env = tcb[t].env /\ r.id = tcb[t].id
    <2>1. tcb[t] \in ThreadRecord
      BY <1>1, ThreadFields
    <2>2. CASE CloseHandle(t)
      <3>1. PICK r \in ThreadRecord : r = [tcb[t] EXCEPT !.open = FALSE]
        BY <1>2
      <3>2. PICK ts : ts = [tcb EXCEPT ![t] = r]
        OBVIOUS
      <3>3. Reclaim(ts, {u \in {t} : Reclaimable(ts, u)})
        BY <2>2, <3>1, <3>2 DEF CloseHandle
      <3>4. QED
        BY <2>1, <3>1, <3>2, <3>3 DEF ThreadRecord
    <2>3. CASE DiscardCreatedThread(t)
      <3>1. PICK r \in ThreadRecord : r = [tcb[t] EXCEPT !.done = TRUE]
        BY <1>2
      <3>2. PICK ts : ts = [tcb EXCEPT ![t] = r]
        OBVIOUS
      <3>3. Reclaim(ts, {u \in {t} : Reclaimable(ts, u)})
        BY <2>3, <3>1, <3>2 DEF DiscardCreatedThread
      <3>4. QED
        BY <2>1, <3>1, <3>2, <3>3 DEF ThreadRecord
    <2>4. QED
      BY <2>2, <2>3
  <1>5. PICK ts : /\ ts = [tcb EXCEPT ![t] = r]
                  /\ Reclaim(ts, {u \in {t} : Reclaimable(ts, u)})
    BY <1>4
  <1>6. /\ ts \in [Threads -> ThreadRecord]
        /\ ts[t] = r /\ \A u \in Threads : u # t => ts[u] = tcb[u]
    BY <1>1, <1>5
  <1>7. {u \in {t} : Reclaimable(ts, u)} \in SUBSET Registered
    BY <1>3, <1>4, <1>6 DEF Reclaimable, Registered
  <1>8. \A u \in Threads :
          /\ ts[u].live = tcb[u].live /\ ts[u].stack = tcb[u].stack
          /\ ts[u].canary = tcb[u].canary /\ ts[u].env = tcb[u].env
          /\ ts[u].id = tcb[u].id
          /\ ~tcb[u].live => ts[u] = tcb[u]
    BY <1>3, <1>4, <1>6
  <1>9. QED
    BY <1>3, <1>5, <1>6, <1>7, <1>8, ReclaimKeeps

LEMMA CollectKeeps ==
  ASSUME ResourceInv, Collect
  PROVE  ResourceInv'
  <1>1. PICK T : T = {t \in Workers : Reclaimable(tcb, t)} /\ Reclaim(tcb, T)
    BY DEF Collect
  <1>2. T \in SUBSET Registered
    BY <1>1 DEF Reclaimable, Registered
  <1>3. Ready /\ UNCHANGED <<nextId, op, active>> /\ tcb \in [Threads -> ThreadRecord]
    BY DEF Collect, ResourceInv, TypeOK
  <1>4. QED
    BY <1>1, <1>2, <1>3, ReclaimKeeps

\* gxos_scheduler_teardown goes on only when every worker can be reclaimed.
LEMMA TeardownKeeps ==
  ASSUME ResourceInv, Teardown
  PROVE  ResourceInv'
  <1>1. PICK T : /\ T = {t \in Workers : Reclaimable(tcb, t)}
                 /\ \A t \in Workers : tcb[t].live => t \in T
                 /\ ledger' = PageFree(UNION {OwnedPages(t) : t \in T \cup {Boot}})
                 /\ regions' = regions \ {StackRegion(t) : t \in T}
    BY DEF Teardown
  <1>2. /\ op = Idle /\ op' = Idle /\ nextId' = nextId /\ ~active' /\ active' \in BOOLEAN
        /\ tcb' = [t \in Threads |-> EmptyThread]
    BY DEF Teardown, Ready
  <1>3. T \in SUBSET Registered
    BY <1>1 DEF Reclaimable, Registered
  <1>4. \A t \in Threads : tcb'[t] = EmptyThread
    BY <1>2
  <1>5. PICK P : P = UNION {OwnedPages(t) : t \in T \cup {Boot}}
    OBVIOUS
  <1>6. \A t \in T \cup {Boot} : OwnedPages(t) \subseteq P
    BY <1>5
  <1>7. T \subseteq Workers /\ Boot \in Threads /\ \A t \in Workers : t \in Threads
    BY <1>3, Constants DEF Registered, Workers
  <1>8. ASSUME NEW t \in Threads
        PROVE  /\ tcb[t].canary # Null => tcb[t].canary \in P
               /\ EnvironmentPages(tcb[t].env) \subseteq P
    <2>1. CASE t \in T \cup {Boot}
      BY <2>1, <1>6 DEF OwnedPages
    <2>2. CASE t \notin T \cup {Boot}
      <3>1. tcb[t] = EmptyThread
        BY <2>2, <1>1 DEF Workers, ResourceInv, ThreadsAreShaped
      <3>2. QED
        BY <3>1, EmptyFields DEF EnvironmentPages, NoPages
    <2>3. QED
      BY <2>1, <2>2
  <1>9. Accounts'
    <2>1. op'.env = NoPages /\ EnvironmentPages(op.env) = {}
      BY <1>2, IdleFields DEF EnvironmentPages, NoPages
    <2>2. \A t \in Threads : /\ tcb'[t].stack = Null /\ tcb'[t].canary = Null
                             /\ tcb'[t].env = NoPages
      BY <1>4, EmptyFields
    <2>3. \A p \in P : \E t \in Threads : p \in OwnedPages(t)
      BY <1>5, <1>7
    <2>4. ledger' = PageFree(P)
      BY <1>1, <1>5
    <2>5. QED
      BY <2>1, <2>2, <2>3, <2>4, <1>8, ReleaseKeeps DEF ResourceInv
  <1>10. ledger' \subseteq Block /\ regions' \subseteq Region
    BY <1>1, <1>9 DEF Accounts, LedgerIsDisjoint, ResourceInv, TypeOK
  <1>11. TypeOK'
    BY <1>2, <1>10, EmptyFields, IdleFields DEF ResourceInv, TypeOK
  <1>12. ThreadsAreShaped'
    BY <1>2, <1>4, <1>7, EmptyFields DEF ThreadsAreShaped
  <1>13. CreationIsShaped'
    BY <1>2, IdleFields DEF CreationIsShaped, NoPages
  <1>14. RegionsAreStacks'
    <2>1. Registered' = {}
      BY <1>4, <1>7, EmptyFields DEF Registered
    <2>2. Registered \subseteq T
      BY <1>1 DEF Registered
    <2>3. regions' = {}
      BY <2>2, <1>1 DEF ResourceInv, RegionsAreStacks
    <2>4. QED
      BY <2>1, <2>3 DEF RegionsAreStacks
  <1>15. RegionsAreComplete'
    BY <1>4, <1>7, EmptyFields DEF RegionsAreComplete
  <1>16. QED
    BY <1>9, <1>11, <1>12, <1>13, <1>14, <1>15 DEF ResourceInv

-----------------------------------------------------------------------------
(* The steps of a creation.                                                *)

LEMMA NullPages == \A e \in Environment : NoPages[e] = Null
  BY DEF NoPages

LEMMA InitializeKeeps ==
  ASSUME ResourceInv, Initialize
  PROVE  ResourceInv'
  <1>1. /\ op = Idle /\ ~active /\ UNCHANGED <<ledger, regions, nextId, active>>
        /\ op' = [Idle EXCEPT !.pc = "gs", !.thread = Boot]
        /\ tcb' = [t \in Threads |->
             IF t = Boot THEN [EmptyThread EXCEPT !.live = TRUE] ELSE EmptyThread]
    BY DEF Initialize
  <1>2. \A t \in Threads : tcb[t] = EmptyThread
    BY <1>1, IdleFields DEF ResourceInv, ThreadsAreShaped, Workers
  <1>3. PICK r \in ThreadRecord :
          /\ r = [EmptyThread EXCEPT !.live = TRUE]
          /\ r.live /\ r.stack = Null /\ r.canary = Null /\ r.env = NoPages /\ r.id = 0
    <2>1. [EmptyThread EXCEPT !.live = TRUE] \in ThreadRecord
      BY EmptyFields DEF ThreadRecord
    <2>2. QED
      BY <2>1, EmptyFields DEF ThreadRecord
  <1>4. /\ tcb'[Boot] = r /\ \A t \in Workers : tcb'[t] = EmptyThread
        /\ tcb' \in [Threads -> ThreadRecord]
    BY <1>1, <1>3, EmptyFields, Constants DEF Workers
  <1>5. /\ op' \in OpRecord /\ op'.pc = "gs" /\ op'.thread = Boot
        /\ op'.env = NoPages
    BY <1>1, IdleFields, Constants DEF OpRecord, Steps
  <1>6. TypeOK'
    BY <1>1, <1>4, <1>5 DEF ResourceInv, TypeOK
  <1>7. \A t \in Threads : /\ tcb'[t].stack = tcb[t].stack
                           /\ tcb'[t].canary = tcb[t].canary
                           /\ tcb'[t].env = tcb[t].env
    BY <1>2, <1>3, <1>4, EmptyFields DEF Workers
  <1>8. op'.env = op.env
    BY <1>1, <1>5, IdleFields
  <1>9. Accounts'
    BY <1>1, <1>7, <1>8, SameBases, StayKeeps DEF ResourceInv
  <1>10. ThreadsAreShaped'
    <2>1. \A t \in Threads : t = Boot \/ tcb'[t] = EmptyThread
      BY <1>4 DEF Workers
    <2>2. QED
      BY <2>1, <1>1, <1>3, <1>4, <1>5, EmptyFields DEF ThreadsAreShaped
  <1>11. CreationIsShaped'
    BY <1>1, <1>3, <1>4, <1>5, NullPages DEF CreationIsShaped
  <1>12. RegionsAreStacks'
    BY <1>1, <1>2, <1>4, EmptyFields, RegionsStay DEF ResourceInv, Workers
  <1>13. RegionsAreComplete'
    BY <1>4, EmptyFields DEF RegionsAreComplete
  <1>14. QED
    BY <1>6, <1>9, <1>10, <1>11, <1>12, <1>13 DEF ResourceInv

LEMMA CreateSuspendedThreadKeeps ==
  ASSUME ResourceInv, NEW t \in Workers, CreateSuspendedThread(t)
  PROVE  ResourceInv'
  <1>1. /\ op = Idle /\ active /\ ~tcb[t].live
        /\ tcb' = [tcb EXCEPT ![t] = [EmptyThread EXCEPT !.live = TRUE, !.open = TRUE]]
        /\ op' = [Idle EXCEPT !.pc = "stack", !.thread = t]
        /\ UNCHANGED <<ledger, regions, nextId, active>>
    BY DEF CreateSuspendedThread, FreeThreads
  <1>2. t \in Threads /\ t # Boot /\ TypeOK
    BY DEF Workers, ResourceInv
  <1>3. tcb[t] = EmptyThread
    BY <1>1, <1>2 DEF ResourceInv, ThreadsAreShaped
  <1>4. PICK r \in ThreadRecord :
          /\ r = [EmptyThread EXCEPT !.live = TRUE, !.open = TRUE]
          /\ r.live /\ r.stack = Null /\ r.canary = Null /\ r.env = NoPages /\ r.id = 0
    <2>1. [EmptyThread EXCEPT !.live = TRUE, !.open = TRUE] \in ThreadRecord
      BY EmptyFields DEF ThreadRecord
    <2>2. QED
      BY <2>1, EmptyFields DEF ThreadRecord
  <1>5. /\ tcb' \in [Threads -> ThreadRecord] /\ tcb'[t] = r
        /\ \A u \in Threads : u # t => tcb'[u] = tcb[u]
    BY <1>1, <1>2, <1>4, ThreadUpdate
  <1>6. /\ op' \in OpRecord /\ op'.pc = "stack" /\ op'.thread = t
        /\ op'.env = NoPages
    BY <1>1, <1>2, IdleFields DEF OpRecord, Steps
  <1>7. TypeOK'
    BY <1>1, <1>5, <1>6 DEF ResourceInv, TypeOK
  <1>8. \A u \in Threads : /\ tcb'[u].stack = tcb[u].stack
                           /\ tcb'[u].canary = tcb[u].canary
                           /\ tcb'[u].env = tcb[u].env
                           /\ tcb'[u].id = tcb[u].id
    BY <1>3, <1>4, <1>5, EmptyFields, ZenonT(30)
  <1>9. op'.env = op.env
    BY <1>1, <1>6, IdleFields
  <1>10. Accounts'
    BY <1>1, <1>8, <1>9, SameBases, StayKeeps DEF ResourceInv
  <1>11. ThreadsAreShaped'
    BY <1>1, <1>2, <1>4, <1>5, <1>8, Constants DEF ResourceInv, ThreadsAreShaped
  <1>12. CreationIsShaped'
    BY <1>1, <1>2, <1>4, <1>5, <1>6, NullPages DEF CreationIsShaped
  <1>13. RegionsAreStacks'
    BY <1>1, <1>3, <1>4, <1>5, EmptyFields, RegionsStay DEF ResourceInv, Workers
  <1>14. RegionsAreComplete'
    <2>1. ASSUME NEW u \in Workers, tcb'[u].live, u # t PROVE tcb'[u].id # 0
      BY <2>1, <1>1, <1>5, IdleFields DEF ResourceInv, RegionsAreComplete, Workers
    <2>2. QED
      BY <2>1, <1>6 DEF RegionsAreComplete
  <1>15. QED
    BY <1>7, <1>10, <1>11, <1>12, <1>13, <1>14 DEF ResourceInv

\* What a step of the creation that goes on with its thread keeps.
LEMMA ThreadStepKeeps ==
  ASSUME ResourceInv, op.pc # "idle", UNCHANGED <<regions, active>>,
         NEW r \in ThreadRecord, tcb' = [tcb EXCEPT ![op.thread] = r],
         r.live, r.id = 0, op.thread = Boot => r.stack = Null /\ r.canary = Null,
         op'.thread = op.thread, op'.pc # "idle"
  PROVE  ThreadsAreShaped' /\ RegionsAreStacks' /\ RegionsAreComplete'
  <1>1. PICK t \in Threads : t = op.thread
    BY OpFields DEF ResourceInv
  <1>2. /\ tcb'[t] = r /\ \A u \in Threads : u # t => tcb'[u] = tcb[u]
    BY <1>1, ThreadUpdate DEF ResourceInv
  <1>3. /\ tcb[t].live /\ tcb[t].id = 0 /\ (t = Boot <=> ~active)
    BY <1>1 DEF ResourceInv, CreationIsShaped
  <1>4. ThreadsAreShaped'
    BY <1>1, <1>2, <1>3, Constants DEF ResourceInv, ThreadsAreShaped, Workers
  <1>5. RegionsAreStacks'
    BY <1>2, <1>3, RegionsStay DEF ResourceInv, Workers
  <1>6. RegionsAreComplete'
    BY <1>1, <1>2 DEF ResourceInv, RegionsAreComplete, Workers
  <1>7. QED
    BY <1>4, <1>5, <1>6

\* The base of one name changes.
LEMMA OneBaseChanges ==
  ASSUME NEW z \in Names, NEW v,
         \A t \in Threads :
           /\ tcb'[t].stack = IF <<t, "stack">> = z THEN v ELSE tcb[t].stack
           /\ tcb'[t].canary = IF <<t, "canary">> = z THEN v ELSE tcb[t].canary
           /\ tcb'[t].env = tcb[t].env,
         \A e \in Environment :
           op'.env[e] = IF <<Creation, e>> = z THEN v ELSE op.env[e],
         ~\E t \in Threads, e \in Environment : z = <<t, e>>
  PROVE  \A x \in Names : Base(x)' = IF x = z THEN v ELSE Base(x)
  <1> SUFFICES ASSUME NEW x \in Names
               PROVE  Base(x)' = IF x = z THEN v ELSE Base(x)
    OBVIOUS
  <1>1. CASE \E t \in Threads : x = <<t, "stack">> \/ x = <<t, "canary">>
    <2>1. PICK t \in Threads : x = <<t, "stack">> \/ x = <<t, "canary">>
      BY <1>1
    <2>2. /\ Base(<<t, "stack">>)' = IF <<t, "stack">> = z THEN v ELSE Base(<<t, "stack">>)
          /\ Base(<<t, "canary">>)' =
               IF <<t, "canary">> = z THEN v ELSE Base(<<t, "canary">>)
      BY BasesAre, BasesAreNext
    <2>3. QED
      BY <2>1, <2>2, Zenon
  <1>2. CASE \E t \in Threads, e \in Environment : x = <<t, e>>
    BY <1>2, BasesAre, BasesAreNext
  <1>3. CASE \E e \in Environment : x = <<Creation, e>>
    BY <1>3, BasesAre, BasesAreNext
  <1>4. QED
    BY <1>1, <1>2, <1>3, NamesAre

LEMMA AllocateStackKeeps ==
  ASSUME ResourceInv, NEW b \in Available(StackPages), AllocateStack(b)
  PROVE  ResourceInv'
  <1>1. PICK t \in Threads : t = op.thread
    BY OpFields DEF ResourceInv
  <1>2. /\ op.pc = "stack" /\ ledger' = ledger \cup {b}
        /\ tcb' = [tcb EXCEPT ![t] = [tcb[t] EXCEPT !.stack = b.base]]
        /\ op' = [op EXCEPT !.pc = "canary"]
        /\ UNCHANGED <<regions, nextId, active>>
    BY <1>1 DEF AllocateStack
  <1>3. /\ t # Boot /\ tcb[t].live /\ tcb[t].id = 0 /\ tcb[t].stack = Null
        /\ tcb[t].canary = Null /\ tcb[t].env = NoPages
    BY <1>1, <1>2 DEF ResourceInv, CreationIsShaped
  <1>4. b.base \in Frames
    BY DEF Available
  <1>5. PICK r \in ThreadRecord :
          /\ r = [tcb[t] EXCEPT !.stack = b.base]
          /\ r.live /\ r.id = 0 /\ r.stack = b.base
          /\ r.canary = tcb[t].canary /\ r.env = tcb[t].env
    <2>1. tcb[t] \in ThreadRecord
      BY ThreadFields DEF ResourceInv
    <2>2. [tcb[t] EXCEPT !.stack = b.base] \in ThreadRecord
      BY <2>1, <1>4 DEF ThreadRecord, AnyFrame
    <2>3. QED
      BY <2>1, <2>2, <1>3 DEF ThreadRecord
  <1>6. /\ tcb' \in [Threads -> ThreadRecord] /\ tcb'[t] = r
        /\ \A u \in Threads : u # t => tcb'[u] = tcb[u]
    BY <1>2, <1>5, ThreadUpdate DEF ResourceInv
  <1>7. /\ op' \in OpRecord /\ op'.pc = "canary" /\ op'.thread = t
        /\ op'.env = op.env
    BY <1>1, <1>2, OpFields DEF ResourceInv, OpRecord, Steps
  <1>8. Accounts'
    <2>1. \A x \in Names :
            Base(x)' = IF x = <<t, "stack">> THEN b.base ELSE Base(x)
      <3>1. <<t, "stack">> \in Names
        BY NamesAre
      <3>2. \A u \in Threads :
              /\ tcb'[u].stack = IF <<u, "stack">> = <<t, "stack">>
                                   THEN b.base ELSE tcb[u].stack
              /\ tcb'[u].canary = IF <<u, "canary">> = <<t, "stack">>
                                    THEN b.base ELSE tcb[u].canary
              /\ tcb'[u].env = tcb[u].env
        BY <1>5, <1>6
      <3>3. \A e \in Environment :
              op'.env[e] = IF <<Creation, e>> = <<t, "stack">> THEN b.base ELSE op.env[e]
        BY <1>7, Constants
      <3>4. ~\E u \in Threads, e \in Environment : <<t, "stack">> = <<u, e>>
        BY DEF Environment
      <3>5. QED
        BY <3>1, <3>2, <3>3, <3>4, OneBaseChanges
    <2>2. Base(<<t, "stack">>) = Null /\ Size(<<t, "stack">>) = StackPages
      BY <1>3, BasesAre, SizesAre
    <2>3. <<t, "stack">> \in Names /\ b \in Available(Size(<<t, "stack">>))
      BY <2>2, NamesAre
    <2>4. QED
      BY <2>1, <2>2, <2>3, <1>2, GrantKeeps DEF ResourceInv
  <1>9. TypeOK'
    BY <1>2, <1>6, <1>7, <1>8 DEF ResourceInv, TypeOK, Accounts, LedgerIsDisjoint
  <1>10. ThreadsAreShaped' /\ RegionsAreStacks' /\ RegionsAreComplete'
    BY <1>1, <1>2, <1>3, <1>5, <1>7, ThreadStepKeeps
  <1>11. CreationIsShaped'
    <2>1. b.base # Null
      BY <1>4, Constants
    <2>2. \A e \in Environment : op'.env[e] = Null
      BY <1>2, <1>7 DEF ResourceInv, CreationIsShaped, Asked
    <2>3. t = Boot <=> ~active'
      BY <1>1, <1>2 DEF ResourceInv, CreationIsShaped
    <2>4. QED
      BY <2>1, <2>2, <2>3, <1>2, <1>3, <1>5, <1>6, <1>7 DEF CreationIsShaped
  <1>12. QED
    BY <1>8, <1>9, <1>10, <1>11 DEF ResourceInv

LEMMA AllocateCanaryKeeps ==
  ASSUME ResourceInv, NEW b \in Available(1), AllocateCanary(b)
  PROVE  ResourceInv'
  <1>1. PICK t \in Threads : t = op.thread
    BY OpFields DEF ResourceInv
  <1>2. /\ op.pc = "canary" /\ ledger' = ledger \cup {b}
        /\ tcb' = [tcb EXCEPT ![t] = [tcb[t] EXCEPT !.canary = b.base, !.intact = TRUE]]
        /\ op' = [op EXCEPT !.pc = "gs"]
        /\ UNCHANGED <<regions, nextId, active>>
    BY <1>1 DEF AllocateCanary, After
  <1>3. /\ t # Boot /\ tcb[t].live /\ tcb[t].id = 0 /\ tcb[t].stack # Null
        /\ tcb[t].canary = Null /\ tcb[t].env = NoPages
    BY <1>1, <1>2 DEF ResourceInv, CreationIsShaped
  <1>4. b.base \in Frames
    BY DEF Available
  <1>5. PICK r \in ThreadRecord :
          /\ r = [tcb[t] EXCEPT !.canary = b.base, !.intact = TRUE]
          /\ r.live /\ r.id = 0 /\ r.canary = b.base
          /\ r.stack = tcb[t].stack /\ r.env = tcb[t].env
    <2>1. tcb[t] \in ThreadRecord
      BY ThreadFields DEF ResourceInv
    <2>2. [tcb[t] EXCEPT !.canary = b.base, !.intact = TRUE] \in ThreadRecord
      BY <2>1, <1>4 DEF ThreadRecord, AnyFrame
    <2>3. QED
      BY <2>1, <2>2, <1>3 DEF ThreadRecord
  <1>6. /\ tcb' \in [Threads -> ThreadRecord] /\ tcb'[t] = r
        /\ \A u \in Threads : u # t => tcb'[u] = tcb[u]
    BY <1>2, <1>5, ThreadUpdate DEF ResourceInv
  <1>7. /\ op' \in OpRecord /\ op'.pc = "gs" /\ op'.thread = t
        /\ op'.env = op.env
    BY <1>1, <1>2, OpFields DEF ResourceInv, OpRecord, Steps
  <1>8. Accounts'
    <2>1. \A x \in Names :
            Base(x)' = IF x = <<t, "canary">> THEN b.base ELSE Base(x)
      <3>1. <<t, "canary">> \in Names
        BY NamesAre
      <3>2. \A u \in Threads :
              /\ tcb'[u].stack = IF <<u, "stack">> = <<t, "canary">>
                                   THEN b.base ELSE tcb[u].stack
              /\ tcb'[u].canary = IF <<u, "canary">> = <<t, "canary">>
                                    THEN b.base ELSE tcb[u].canary
              /\ tcb'[u].env = tcb[u].env
        BY <1>5, <1>6
      <3>3. \A e \in Environment :
              op'.env[e] = IF <<Creation, e>> = <<t, "canary">> THEN b.base ELSE op.env[e]
        BY <1>7, Constants
      <3>4. ~\E u \in Threads, e \in Environment : <<t, "canary">> = <<u, e>>
        BY DEF Environment
      <3>5. QED
        BY <3>1, <3>2, <3>3, <3>4, OneBaseChanges
    <2>2. Base(<<t, "canary">>) = Null /\ Size(<<t, "canary">>) = 1
      BY <1>3, BasesAre, SizesAre
    <2>3. <<t, "canary">> \in Names /\ b \in Available(Size(<<t, "canary">>))
      BY <2>2, NamesAre
    <2>4. QED
      BY <2>1, <2>2, <2>3, <1>2, GrantKeeps DEF ResourceInv
  <1>9. TypeOK'
    BY <1>2, <1>6, <1>7, <1>8 DEF ResourceInv, TypeOK, Accounts, LedgerIsDisjoint
  <1>10. ThreadsAreShaped' /\ RegionsAreStacks' /\ RegionsAreComplete'
    BY <1>1, <1>2, <1>3, <1>5, <1>7, ThreadStepKeeps
  <1>11. CreationIsShaped'
    <2>1. \A e \in Environment : op'.env[e] = Null
      BY <1>2, <1>7 DEF ResourceInv, CreationIsShaped, Asked
    <2>2. t = Boot <=> ~active'
      BY <1>1, <1>2 DEF ResourceInv, CreationIsShaped
    <2>3. QED
      BY <2>1, <2>2, <1>3, <1>5, <1>6, <1>7 DEF CreationIsShaped
  <1>12. QED
    BY <1>8, <1>9, <1>10, <1>11 DEF ResourceInv

\* The order in which allocate_thread_environment asks for its pages.
LEMMA AskedAfter ==
  ASSUME NEW e \in Environment
  PROVE  /\ After[e] \in {"vector", "block", "teb", "check"}
         /\ After[e] \in Steps
         /\ e \notin Asked[e] /\ Asked[e] \subseteq Environment
         /\ Asked[After[e]] = Asked[e] \cup {e}
  BY DEF Environment, After, Asked, Steps

\* A page of the environment is granted or refused; the thread is not touched.
LEMMA EnvironmentStepKeeps ==
  ASSUME ResourceInv, op.pc \in Environment, UNCHANGED <<regions, nextId, tcb, active>>,
         Accounts', op' \in OpRecord, op'.pc = After[op.pc], op'.thread = op.thread,
         \A e \in Environment : e # op.pc => op'.env[e] = op.env[e]
  PROVE  ResourceInv'
  <1>1. TypeOK'
    BY DEF ResourceInv, TypeOK, Accounts, LedgerIsDisjoint
  <1>2. /\ op'.pc \in {"vector", "block", "teb", "check"}
        /\ op.pc \in {"gs", "vector", "block", "teb"}
    BY AskedAfter DEF Environment
  <1>3. ThreadsAreShaped'
    BY <1>2 DEF ResourceInv, ThreadsAreShaped
  <1>4. CreationIsShaped'
    <2>1. ASSUME NEW e \in Environment, op'.env[e] # Null PROVE e \in Asked[op'.pc]
      <3>1. e = op.pc \/ e \in Asked[op.pc]
        BY <2>1 DEF ResourceInv, CreationIsShaped
      <3>2. QED
        BY <3>1, AskedAfter
    <2>2. QED
      BY <2>1, <1>2 DEF ResourceInv, CreationIsShaped
  <1>5. RegionsAreStacks'
    BY RegionsStay DEF ResourceInv
  <1>6. RegionsAreComplete'
    BY DEF ResourceInv, RegionsAreComplete
  <1>7. QED
    BY <1>1, <1>3, <1>4, <1>5, <1>6 DEF ResourceInv

LEMMA AllocateEnvironmentPageKeeps ==
  ASSUME ResourceInv, NEW b \in Available(1), AllocateEnvironmentPage(b)
  PROVE  ResourceInv'
  <1>1. PICK e \in Environment : e = op.pc
    BY DEF AllocateEnvironmentPage
  <1>2. /\ ledger' = ledger \cup {b} /\ UNCHANGED <<regions, nextId, tcb, active>>
        /\ op' = [op EXCEPT !.pc = After[e], !.env = [op.env EXCEPT ![e] = b.base]]
    BY <1>1 DEF AllocateEnvironmentPage
  <1>3. b.base \in Frames
    BY DEF Available
  <1>4. PICK env \in [Environment -> AnyFrame] :
          /\ env = [op.env EXCEPT ![e] = b.base] /\ env[e] = b.base
          /\ \A f \in Environment : f # e => env[f] = op.env[f]
    <2>1. op.env \in [Environment -> AnyFrame] /\ b.base \in AnyFrame
      BY <1>3, OpFields DEF ResourceInv, AnyFrame
    <2>2. [op.env EXCEPT ![e] = b.base] \in [Environment -> AnyFrame]
      BY <2>1
    <2>3. QED
      BY <2>1, <2>2
  <1>5. After[e] \in Steps
    BY AskedAfter
  <1>6. PICK pc \in Steps : pc = After[e]
    BY <1>5
  <1>7. op' = [op EXCEPT !.pc = pc, !.env = env]
    BY <1>2, <1>4, <1>6
  <1>8. /\ op' \in OpRecord /\ op'.pc = pc /\ op'.thread = op.thread
        /\ op'.env = env
    BY <1>7, OpFields DEF ResourceInv, OpRecord
  <1>9. op.env[e] = Null
    BY <1>1, AskedAfter DEF ResourceInv, CreationIsShaped
  <1>10. Accounts'
    <2>1. <<Creation, e>> \in Names
      BY NamesAre
    <2>2. /\ Base(<<Creation, e>>) = Null /\ Size(<<Creation, e>>) = 1
      BY <1>9, BasesAre, SizesAre
    <2>3. \A x \in Names :
            Base(x)' = IF x = <<Creation, e>> THEN b.base ELSE Base(x)
      <3>1. \A t \in Threads :
              /\ tcb'[t].stack = IF <<t, "stack">> = <<Creation, e>>
                                   THEN b.base ELSE tcb[t].stack
              /\ tcb'[t].canary = IF <<t, "canary">> = <<Creation, e>>
                                    THEN b.base ELSE tcb[t].canary
              /\ tcb'[t].env = tcb[t].env
        BY <1>2, Constants
      <3>2. \A f \in Environment :
              op'.env[f] = IF <<Creation, f>> = <<Creation, e>> THEN b.base ELSE op.env[f]
        BY <1>4, <1>8
      <3>3. ~\E t \in Threads, f \in Environment : <<Creation, e>> = <<t, f>>
        BY Constants
      <3>4. QED
        BY <2>1, <3>1, <3>2, <3>3, OneBaseChanges
    <2>4. b \in Available(Size(<<Creation, e>>))
      BY <2>2
    <2>5. QED
      BY <2>1, <2>2, <2>3, <2>4, <1>2, GrantKeeps DEF ResourceInv
  <1>11. QED
    BY <1>1, <1>2, <1>4, <1>6, <1>8, <1>10, EnvironmentStepKeeps

LEMMA EnvironmentPageRefusedKeeps ==
  ASSUME ResourceInv, EnvironmentPageRefused
  PROVE  ResourceInv'
  <1>1. PICK e \in Environment : e = op.pc
    BY DEF EnvironmentPageRefused
  <1>2. PICK pc \in Steps : pc = After[e]
    BY AskedAfter
  <1>3. /\ UNCHANGED <<ledger, regions, nextId, tcb, active>>
        /\ op' = [op EXCEPT !.pc = pc]
    BY <1>1, <1>2 DEF EnvironmentPageRefused
  <1>4. /\ op' \in OpRecord /\ op'.pc = pc /\ op'.thread = op.thread
        /\ op'.env = op.env
    BY <1>3, OpFields DEF ResourceInv, OpRecord
  <1>5. Accounts'
    BY <1>3, <1>4, SameBases, StayKeeps DEF ResourceInv
  <1>6. QED
    BY <1>1, <1>2, <1>3, <1>4, <1>5, EnvironmentStepKeeps

\* The environment is complete and becomes the thread's.
LEMMA EnvironmentReadyKeeps ==
  ASSUME ResourceInv, EnvironmentReady
  PROVE  ResourceInv'
  <1>1. PICK t \in Threads : t = op.thread
    BY OpFields DEF ResourceInv
  <1>2. /\ op.pc = "check" /\ UNCHANGED <<ledger, regions, nextId>>
        /\ tcb' = [tcb EXCEPT ![t] = [tcb[t] EXCEPT !.env = op.env]]
        /\ t = Boot => op' = Idle /\ active' = TRUE
        /\ t # Boot => /\ op' = [op EXCEPT !.pc = "register", !.env = NoPages]
                       /\ UNCHANGED active
    BY <1>1 DEF EnvironmentReady
  <1>3. /\ tcb[t].live /\ tcb[t].id = 0 /\ tcb[t].env = NoPages
        /\ t = Boot <=> ~active
        /\ t # Boot => tcb[t].stack # Null
    BY <1>1, <1>2 DEF ResourceInv, CreationIsShaped
  <1>4. PICK r \in ThreadRecord :
          /\ r = [tcb[t] EXCEPT !.env = op.env]
          /\ r.live /\ r.id = 0 /\ r.env = op.env
          /\ r.stack = tcb[t].stack /\ r.canary = tcb[t].canary
    <2>1. tcb[t] \in ThreadRecord /\ op.env \in [Environment -> AnyFrame]
      BY ThreadFields, OpFields DEF ResourceInv
    <2>2. [tcb[t] EXCEPT !.env = op.env] \in ThreadRecord
      BY <2>1 DEF ThreadRecord
    <2>3. QED
      BY <2>1, <2>2, <1>3 DEF ThreadRecord
  <1>5. /\ tcb' \in [Threads -> ThreadRecord] /\ tcb'[t] = r
        /\ \A u \in Threads : u # t => tcb'[u] = tcb[u]
    BY <1>2, <1>4, ThreadUpdate DEF ResourceInv
  <1>6. NoPages \in [Environment -> AnyFrame]
    BY DEF NoPages, AnyFrame
  <1>7. /\ op' \in OpRecord /\ op'.env = NoPages /\ op'.thread = t
        /\ t # Boot => op'.pc = "register"
        /\ t = Boot => op'.pc = "idle"
    <2>1. CASE t = Boot
      BY <2>1, <1>2, IdleFields
    <2>2. CASE t # Boot
      BY <2>2, <1>1, <1>2, <1>6, OpFields DEF ResourceInv, OpRecord, Steps
    <2>3. QED
      BY <2>1, <2>2
  <1>8. Accounts'
    <2>1. \A e \in Environment : /\ Base(<<t, e>>) = Null
                                 /\ Base(<<t, e>>)' = Base(<<Creation, e>>)
                                 /\ Base(<<Creation, e>>)' = Null
      <3> SUFFICES ASSUME NEW e \in Environment
                   PROVE  /\ Base(<<t, e>>) = Null
                          /\ Base(<<t, e>>)' = Base(<<Creation, e>>)
                          /\ Base(<<Creation, e>>)' = Null
        OBVIOUS
      <3>1. /\ Base(<<t, e>>) = tcb[t].env[e] /\ Base(<<t, e>>)' = tcb'[t].env[e]
            /\ Base(<<Creation, e>>) = op.env[e]
            /\ Base(<<Creation, e>>)' = op'.env[e]
        BY BasesAre, BasesAreNext
      <3>2. /\ tcb[t].env[e] = Null /\ tcb'[t].env[e] = op.env[e]
            /\ op'.env[e] = Null
        BY <1>3, <1>4, <1>5, <1>7, NullPages
      <3>3. QED
        BY <3>1, <3>2, Zenon
    <2>2. ASSUME NEW x \in Names, x[1] # Creation, ~(x[1] = t /\ x[2] \in Environment)
          PROVE  Base(x)' = Base(x)
      <3>1. CASE \E u \in Threads : x = <<u, "stack">> \/ x = <<u, "canary">>
        <4>1. PICK u \in Threads : x = <<u, "stack">> \/ x = <<u, "canary">>
          BY <3>1
        <4>2. /\ tcb'[u].stack = tcb[u].stack /\ tcb'[u].canary = tcb[u].canary
          BY <1>4, <1>5
        <4>3. /\ Base(<<u, "stack">>)' = Base(<<u, "stack">>)
              /\ Base(<<u, "canary">>)' = Base(<<u, "canary">>)
          BY <4>2, BasesAre, BasesAreNext
        <4>4. QED
          BY <4>1, <4>3, Zenon
      <3>2. CASE \E u \in Threads, e \in Environment : x = <<u, e>>
        <4>1. PICK u \in Threads, e \in Environment : x = <<u, e>>
          BY <3>2
        <4>2. u # t
          BY <4>1, <2>2
        <4>3. tcb'[u] = tcb[u]
          BY <4>2, <1>5
        <4>4. QED
          BY <4>1, <4>3, BasesAre, BasesAreNext
      <3>3. CASE \E e \in Environment : x = <<Creation, e>>
        BY <3>3, <2>2
      <3>4. QED
        BY <3>1, <3>2, <3>3, NamesAre
    <2>3. QED
      BY <2>1, <2>2, <1>2, MoveKeeps DEF ResourceInv
  <1>9. active' \in BOOLEAN
    BY <1>2 DEF ResourceInv, TypeOK
  <1>10. TypeOK'
    BY <1>2, <1>5, <1>7, <1>9 DEF ResourceInv, TypeOK
  <1>11. active'
    BY <1>2, <1>3
  <1>12. ThreadsAreShaped'
    BY <1>3, <1>4, <1>5, <1>11, Constants, ZenonT(30) DEF ResourceInv, ThreadsAreShaped
  <1>13. CreationIsShaped'
    <2>1. CASE t = Boot
      BY <2>1, <1>2, IdleFields, NullPages DEF CreationIsShaped
    <2>2. CASE t # Boot
      BY <2>2, <1>3, <1>4, <1>5, <1>7, <1>11, NullPages DEF CreationIsShaped
    <2>3. QED
      BY <2>1, <2>2
  <1>14. RegionsAreStacks'
    BY <1>2, <1>3, <1>4, <1>5, RegionsStay DEF ResourceInv, Workers
  <1>15. RegionsAreComplete'
    BY <1>1, <1>5, <1>7 DEF ResourceInv, RegionsAreComplete, Workers
  <1>16. QED
    BY <1>8, <1>10, <1>12, <1>13, <1>14, <1>15 DEF ResourceInv

\* The error returns of a creation.
LEMMA AbandonKeeps ==
  ASSUME ResourceInv, op.pc # "idle", NEW P, Abandon(P),
         \A p \in P : \/ p \in EnvironmentPages(op.env)
                      \/ p \in OwnedPages(op.thread),
         EnvironmentPages(op.env) \subseteq P,
         tcb[op.thread].canary # Null => tcb[op.thread].canary \in P,
         EnvironmentPages(tcb[op.thread].env) \subseteq P
  PROVE  ResourceInv'
  <1>1. PICK t \in Threads : t = op.thread
    BY OpFields DEF ResourceInv
  <1>2. /\ ledger' = PageFree(P) /\ tcb' = [tcb EXCEPT ![t] = EmptyThread]
        /\ op' = Idle /\ UNCHANGED <<regions, nextId, active>>
    BY <1>1 DEF Abandon
  <1>3. /\ tcb' \in [Threads -> ThreadRecord] /\ tcb'[t] = EmptyThread
        /\ \A u \in Threads : u # t => tcb'[u] = tcb[u]
    BY <1>2, EmptyFields, ThreadUpdate DEF ResourceInv
  <1>4. /\ tcb[t].live /\ tcb[t].id = 0 /\ (t = Boot <=> ~active)
    BY <1>1 DEF ResourceInv, CreationIsShaped
  <1>5. Accounts'
    <2>1. {t} \in SUBSET Threads
      OBVIOUS
    <2>2. op'.env = NoPages
      BY <1>2, IdleFields
    <2>3. \A u \in {t} : /\ tcb'[u].stack = Null /\ tcb'[u].canary = Null
                         /\ tcb'[u].env = NoPages
      BY <1>3, EmptyFields
    <2>4. \A u \in Threads \ {t} : /\ tcb'[u].stack = tcb[u].stack
                                   /\ tcb'[u].canary = tcb[u].canary
                                   /\ tcb'[u].env = tcb[u].env
      BY <1>3
    <2>5. \A p \in P : \/ p = Null \/ p \in EnvironmentPages(op.env)
                       \/ \E u \in {t} : p \in OwnedPages(u)
      BY <1>1
    <2>6. \A u \in {t} : /\ tcb[u].canary # Null => tcb[u].canary \in P
                         /\ EnvironmentPages(tcb[u].env) \subseteq P
      BY <1>1
    <2>7. QED
      BY <2>1, <2>2, <2>3, <2>4, <2>5, <2>6, <1>2, ReleaseKeeps DEF ResourceInv
  <1>6. TypeOK'
    BY <1>2, <1>3, <1>5, IdleFields
       DEF ResourceInv, TypeOK, Accounts, LedgerIsDisjoint
  <1>7. ThreadsAreShaped'
    BY <1>2, <1>3, <1>4, EmptyFields, Constants
       DEF ResourceInv, ThreadsAreShaped, Workers
  <1>8. CreationIsShaped'
    BY <1>2, IdleFields, NullPages DEF CreationIsShaped
  <1>9. RegionsAreStacks'
    BY <1>2, <1>3, <1>4, EmptyFields, RegionsStay DEF ResourceInv, Workers
  <1>10. RegionsAreComplete'
    BY <1>1, <1>3, EmptyFields DEF ResourceInv, RegionsAreComplete, Workers
  <1>11. QED
    BY <1>5, <1>6, <1>7, <1>8, <1>9, <1>10 DEF ResourceInv

LEMMA NoPagesToFree == EnvironmentPages(NoPages) = {}
  BY DEF EnvironmentPages, NoPages

LEMMA RefusalsKeep ==
  ASSUME ResourceInv,
         StackRefused \/ CanaryRefused \/ EnvironmentFails \/ RegisterFails
  PROVE  ResourceInv'
  <1>1. op.thread \in Threads /\ op.env \in [Environment -> AnyFrame]
    BY OpFields DEF ResourceInv
  <1>2. op.pc # "check" /\ op.pc \notin Environment => EnvironmentPages(op.env) = {}
    <2> SUFFICES ASSUME op.pc # "check", op.pc \notin Environment
                 PROVE  \A e \in Environment : op.env[e] = Null
      BY DEF EnvironmentPages
    <2>1. op.pc \in {"idle", "stack", "canary", "register"}
      BY OpFields DEF ResourceInv, Steps, Environment
    <2>2. Asked[op.pc] = {}
      BY <2>1 DEF Asked
    <2>3. QED
      BY <2>2 DEF ResourceInv, CreationIsShaped
  <1>3. CASE StackRefused
    <2>1. op.pc = "stack" /\ Abandon({})
      BY <1>3 DEF StackRefused
    <2>2. EnvironmentPages(op.env) = {} /\ EnvironmentPages(tcb[op.thread].env) = {}
      BY <2>1, <1>2, NoPagesToFree DEF ResourceInv, CreationIsShaped, Environment
    <2>3. tcb[op.thread].canary = Null
      BY <2>1 DEF ResourceInv, CreationIsShaped
    <2>4. QED
      BY <2>1, <2>2, <2>3, AbandonKeeps
  <1>4. CASE CanaryRefused
    <2>1. op.pc = "canary" /\ Abandon({tcb[op.thread].stack})
      BY <1>4 DEF CanaryRefused
    <2>2. EnvironmentPages(op.env) = {} /\ EnvironmentPages(tcb[op.thread].env) = {}
      BY <2>1, <1>2, NoPagesToFree DEF ResourceInv, CreationIsShaped, Environment
    <2>3. tcb[op.thread].canary = Null
      BY <2>1 DEF ResourceInv, CreationIsShaped
    <2>4. tcb[op.thread].stack \in OwnedPages(op.thread)
      BY DEF OwnedPages
    <2>5. QED
      BY <2>1, <2>2, <2>3, <2>4, AbandonKeeps
  <1>5. CASE EnvironmentFails
    <2> DEFINE P == EnvironmentPages(op.env)
                      \cup {tcb[op.thread].canary, tcb[op.thread].stack}
    <2>1. op.pc = "check" /\ Abandon(P)
      BY <1>5 DEF EnvironmentFails
    <2>2. EnvironmentPages(tcb[op.thread].env) = {}
      BY <2>1, NoPagesToFree DEF ResourceInv, CreationIsShaped
    <2>3. /\ \A p \in P : \/ p \in EnvironmentPages(op.env)
                          \/ p \in OwnedPages(op.thread)
          /\ EnvironmentPages(op.env) \subseteq P
          /\ tcb[op.thread].canary \in P
      BY DEF OwnedPages
    <2> HIDE DEF P
    <2>4. QED
      BY <2>1, <2>2, <2>3, AbandonKeeps
  <1>6. CASE RegisterFails
    <2> DEFINE P == EnvironmentPages(tcb[op.thread].env)
                      \cup {tcb[op.thread].canary, tcb[op.thread].stack}
    <2>1. op.pc = "register" /\ Abandon(P)
      BY <1>6 DEF RegisterFails
    <2>2. EnvironmentPages(op.env) = {}
      BY <2>1, <1>2 DEF Environment
    <2>3. /\ \A p \in P : p \in OwnedPages(op.thread)
          /\ EnvironmentPages(tcb[op.thread].env) \subseteq P
          /\ tcb[op.thread].canary \in P
      BY DEF OwnedPages
    <2> HIDE DEF P
    <2>4. QED
      BY <2>1, <2>2, <2>3, AbandonKeeps
  <1>7. QED
    BY <1>3, <1>4, <1>5, <1>6

LEMMA RegisterStackKeeps ==
  ASSUME ResourceInv, RegisterStack
  PROVE  ResourceInv'
  <1>1. PICK t \in Threads : t = op.thread
    BY OpFields DEF ResourceInv
  <1>2. PICK id \in Identities : id = RegisteredId /\ id # 0
    BY Constants DEF RegisteredId, ResourceInv, TypeOK
  <1>3. /\ op.pc = "register"
        /\ regions' = regions \cup
             {[base |-> tcb[t].stack, pages |-> StackPages, id |-> id]}
        /\ tcb' = [tcb EXCEPT ![t] = [tcb[t] EXCEPT !.id = id]]
        /\ nextId' = NextIdentity(id) /\ op' = Idle /\ UNCHANGED <<ledger, active>>
    BY <1>1, <1>2 DEF RegisterStack
  <1>4. /\ t # Boot /\ tcb[t].live /\ tcb[t].id = 0 /\ tcb[t].stack # Null /\ active
    BY <1>1, <1>3 DEF ResourceInv, CreationIsShaped, TypeOK
  <1>5. PICK r \in ThreadRecord :
          /\ r = [tcb[t] EXCEPT !.id = id]
          /\ r.live /\ r.id = id /\ r.stack = tcb[t].stack
          /\ r.canary = tcb[t].canary /\ r.env = tcb[t].env
    <2>1. tcb[t] \in ThreadRecord
      BY ThreadFields DEF ResourceInv
    <2>2. [tcb[t] EXCEPT !.id = id] \in ThreadRecord
      BY <2>1 DEF ThreadRecord
    <2>3. QED
      BY <2>1, <2>2, <1>4 DEF ThreadRecord
  <1>6. /\ tcb' \in [Threads -> ThreadRecord] /\ tcb'[t] = r
        /\ \A u \in Threads : u # t => tcb'[u] = tcb[u]
    BY <1>3, <1>5, ThreadUpdate DEF ResourceInv
  <1>7. nextId' \in Identities
    BY <1>3, Constants DEF NextIdentity, Identities
  <1>8. tcb[t].stack \in Frames
    BY <1>4, ThreadFields DEF ResourceInv, AnyFrame
  <1>9. TypeOK'
    BY <1>3, <1>6, <1>7, <1>8, Constants, IdleFields DEF ResourceInv, TypeOK, Region
  <1>10. op'.env = op.env
    <2>1. \A e \in Environment : op.env[e] = Null
      BY <1>3 DEF ResourceInv, CreationIsShaped, Asked
    <2>2. op.env = NoPages
      BY <2>1, OpFields DEF ResourceInv, NoPages
    <2>3. QED
      BY <2>2, <1>3, IdleFields
  <1>11. Accounts'
    BY <1>3, <1>5, <1>6, <1>10, SameBases, StayKeeps DEF ResourceInv
  <1>12. ThreadsAreShaped'
    BY <1>3, <1>4, <1>5, <1>6, Constants DEF ResourceInv, ThreadsAreShaped
  <1>13. CreationIsShaped'
    BY <1>3, IdleFields, NullPages DEF CreationIsShaped
  <1>14. RegionsAreStacks'
    <2>1. Registered' = Registered \cup {t} /\ t \notin Registered
      BY <1>2, <1>4, <1>5, <1>6, ZenonT(30) DEF Registered, Workers
    <2>2. \A u \in Registered : StackRegion(u)' = StackRegion(u)
      BY <2>1, <1>6 DEF Registered, Workers, StackRegion
    <2>3. StackRegion(t)' = [base |-> tcb[t].stack, pages |-> StackPages, id |-> id]
      BY <1>5, <1>6 DEF StackRegion
    <2>4. QED
      BY <2>1, <2>2, <2>3, <1>3 DEF ResourceInv, RegionsAreStacks
  <1>15. RegionsAreComplete'
    <2> SUFFICES ASSUME NEW u \in Workers, tcb'[u].live PROVE tcb'[u].id # 0
      BY DEF RegionsAreComplete
    <2>1. CASE u = t
      BY <2>1, <1>2, <1>5, <1>6
    <2>2. CASE u # t
      <3>1. u \in Threads /\ tcb'[u] = tcb[u] /\ op.thread # u
        BY <2>2, <1>1, <1>6 DEF Workers
      <3>2. QED
        BY <3>1 DEF ResourceInv, RegionsAreComplete
    <2>3. QED
      BY <2>1, <2>2
  <1>16. QED
    BY <1>9, <1>11, <1>12, <1>13, <1>14, <1>15 DEF ResourceInv

LEMMA ResourceStep == ResourceInv /\ [Next]_vars => ResourceInv'
  <1> SUFFICES ASSUME ResourceInv, [Next]_vars
               PROVE  ResourceInv'
    OBVIOUS
  <1>1. CASE Initialize
    BY <1>1, InitializeKeeps
  <1>2. ASSUME NEW t \in Workers, CreateSuspendedThread(t) PROVE ResourceInv'
    BY <1>2, CreateSuspendedThreadKeeps
  <1>3. ASSUME NEW t \in Workers, Terminate(t) \/ OverwriteCanary(t) PROVE ResourceInv'
    BY <1>3, TerminateKeeps
  <1>4. ASSUME NEW t \in Workers, CloseHandle(t) \/ DiscardCreatedThread(t)
        PROVE  ResourceInv'
    BY <1>4, CloseHandleKeeps
  <1>5. ASSUME NEW b \in Available(StackPages), AllocateStack(b) PROVE ResourceInv'
    BY <1>5, AllocateStackKeeps
  <1>6. ASSUME NEW b \in Available(1), AllocateCanary(b) PROVE ResourceInv'
    BY <1>6, AllocateCanaryKeeps
  <1>7. ASSUME NEW b \in Available(1), AllocateEnvironmentPage(b) PROVE ResourceInv'
    BY <1>7, AllocateEnvironmentPageKeeps
  <1>8. CASE EnvironmentPageRefused
    BY <1>8, EnvironmentPageRefusedKeeps
  <1>9. CASE EnvironmentReady
    BY <1>9, EnvironmentReadyKeeps
  <1>10. CASE StackRefused \/ CanaryRefused \/ EnvironmentFails \/ RegisterFails
    BY <1>10, RefusalsKeep
  <1>11. CASE RegisterStack
    BY <1>11, RegisterStackKeeps
  <1>12. CASE Collect
    BY <1>12, CollectKeeps
  <1>13. CASE Teardown
    BY <1>13, TeardownKeeps
  <1>14. CASE UNCHANGED vars
    BY <1>14, StutterKeeps
  <1>15. QED
    BY <1>1, <1>2, <1>3, <1>4, <1>5, <1>6, <1>7, <1>8, <1>9, <1>10, <1>11,
       <1>12, <1>13, <1>14 DEF Next

-----------------------------------------------------------------------------
(* The theorems.                                                           *)

\* The inductive invariant holds in every state of every sequence of
\* creations, refusals, terminations, closed handles and teardowns.
THEOREM ResourceInvHolds == Spec => []ResourceInv
  BY InitResources, ResourceStep, PTL DEF Spec

\* The owners of PagesAreAccounted are the names that hold a block.
LEMMA OwnersAreNames ==
  /\ StackOwners \cup PageOwners = {x \in Names : Base(x) # Null}
  /\ \A x \in Names : Base(x) # Null /\ Size(x) = 1 => x \in PageOwners
  /\ \A x \in Names : Owned(x) = Held(x)
  <1>1. ASSUME NEW x \in Names
        PROVE  /\ x \in StackOwners \cup PageOwners <=> Base(x) # Null
               /\ Base(x) # Null /\ Size(x) = 1 => x \in PageOwners
               /\ Owned(x) = Held(x)
    <2>1. CASE \E t \in Threads : x = <<t, "stack">>
      <3>1. PICK t \in Threads : x = <<t, "stack">>
        BY <2>1
      <3>2. Base(x) = tcb[t].stack /\ Size(x) = StackPages /\ StackPages # 1
        <4>1. StackPages # 1
          BY Constants
        <4>2. Base(<<t, "stack">>) = tcb[t].stack /\ Size(<<t, "stack">>) = StackPages
          BY BasesAre, SizesAre
        <4>3. QED
          BY <3>1, <4>1, <4>2
      <3>3. x \in StackOwners <=> tcb[t].stack # Null
        BY <3>1 DEF StackOwners
      <3>4. x \notin PageOwners
        BY <3>1 DEF PageOwners, Environment
      <3>5. Owned(x) = [base |-> tcb[t].stack, pages |-> StackPages]
        BY <3>1, Constants DEF Owned
      <3>6. QED
        BY <3>2, <3>3, <3>4, <3>5 DEF Held
    <2>2. CASE \E t \in Threads : x = <<t, "canary">>
      <3>1. PICK t \in Threads : x = <<t, "canary">>
        BY <2>2
      <3>2. Base(x) = tcb[t].canary /\ Size(x) = 1
        BY <3>1, BasesAre, SizesAre
      <3>3. x \in PageOwners <=> tcb[t].canary # Null
        BY <3>1 DEF PageOwners, Environment
      <3>4. x \notin StackOwners
        BY <3>1 DEF StackOwners
      <3>5. Owned(x) = [base |-> tcb[t].canary, pages |-> 1]
        BY <3>1, Constants DEF Owned
      <3>6. QED
        BY <3>2, <3>3, <3>4, <3>5 DEF Held
    <2>3. CASE \E t \in Threads, e \in Environment : x = <<t, e>>
      <3>1. PICK t \in Threads, e \in Environment : x = <<t, e>>
        BY <2>3
      <3>2. Base(x) = tcb[t].env[e] /\ Size(x) = 1
        BY <3>1, BasesAre, SizesAre
      <3>3. x \in PageOwners <=> tcb[t].env[e] # Null
        BY <3>1, Constants DEF PageOwners, Environment
      <3>4. x \notin StackOwners
        BY <3>1 DEF StackOwners, Environment
      <3>5. Owned(x) = [base |-> tcb[t].env[e], pages |-> 1]
        BY <3>1, Constants DEF Owned, Environment
      <3>6. QED
        BY <3>2, <3>3, <3>4, <3>5 DEF Held
    <2>4. CASE \E e \in Environment : x = <<Creation, e>>
      <3>1. PICK e \in Environment : x = <<Creation, e>>
        BY <2>4
      <3>2. Base(x) = op.env[e] /\ Size(x) = 1
        BY <3>1, BasesAre, SizesAre
      <3>3. x \in PageOwners <=> op.env[e] # Null
        BY <3>1, Constants DEF PageOwners, Environment
      <3>4. x \notin StackOwners
        BY <3>1 DEF StackOwners, Environment
      <3>5. Owned(x) = [base |-> op.env[e], pages |-> 1]
        BY <3>1 DEF Owned, Environment
      <3>6. QED
        BY <3>2, <3>3, <3>4, <3>5 DEF Held
    <2>5. QED
      BY <2>1, <2>2, <2>3, <2>4, NamesAre
  <1>2. StackOwners \cup PageOwners \subseteq Names
    BY DEF StackOwners, PageOwners, Names
  <1>3. QED
    BY <1>1, <1>2

LEMMA NamesAreFinite == IsFiniteSet(Names)
  <1>1. IsFiniteSet(Threads)
    BY FS_Interval, Constants DEF Threads
  <1>2. IsFiniteSet({"stack", "canary"} \cup Environment)
    <2>1. IsFiniteSet({"gs", "vector"}) /\ IsFiniteSet({"block", "teb"})
          /\ IsFiniteSet({"stack", "canary"})
      <3>1. \A a, b : IsFiniteSet({a, b})
        <4> SUFFICES ASSUME NEW a, NEW b PROVE IsFiniteSet({a, b})
          OBVIOUS
        <4>1. {a, b} = {a} \cup {b}
          OBVIOUS
        <4>2. IsFiniteSet({a} \cup {b})
          BY FS_Singleton, FS_Union, Zenon
        <4>3. QED
          BY <4>1, <4>2
      <3>2. QED
        BY <3>1, Zenon
    <2>2. Environment = {"gs", "vector"} \cup {"block", "teb"}
      BY DEF Environment
    <2>3. QED
      BY <2>1, <2>2, FS_Union
  <1>3. IsFiniteSet(Environment)
    BY <1>2, FS_Subset
  <1>4. QED
    BY <1>1, <1>2, <1>3, FS_Singleton, FS_Product, FS_Union DEF Names

LEMMA OwnersAreCounted ==
  ASSUME Accounts
  PROVE  OwnedMemoryIsHeld /\ SinglePagesDoNotLeak
  <1> DEFINE Owners == StackOwners \cup PageOwners
             Blocks == {Owned(x) : x \in Owners}
             f == [x \in Owners |-> Owned(x)]
  <1>1. \A x \in Owners : x \in Names /\ Base(x) # Null /\ Owned(x) = Held(x)
    BY OwnersAreNames
  <1>2. \A x \in Owners : Owned(x) \in ledger
    BY <1>1 DEF Accounts, NamesHoldBlocks
  <1>3. ASSUME NEW x \in Owners, NEW y \in Owners, Owned(x) = Owned(y)
        PROVE  x = y
    <2>1. Base(x) = Base(y)
      BY <1>1, <1>3 DEF Held
    <2>2. QED
      BY <2>1, <1>1 DEF Accounts, NamesHoldBlocks
  <1>4. IsFiniteSet(Owners)
    BY <1>1, NamesAreFinite, FS_Subset
  <1>5. f \in Bijection(Owners, Blocks)
    BY <1>3 DEF Bijection, Injection, Surjection, IsInjective
  <1>6. Cardinality(Blocks) = Cardinality(Owners)
    BY <1>4, <1>5, FS_Bijection DEF ExistsBijection
  <1>7. SinglePagesDoNotLeak
    <2> SUFFICES ASSUME NEW b \in ledger, b.pages = 1
                 PROVE  \E x \in PageOwners : Owned(x) = b
      BY DEF SinglePagesDoNotLeak
    <2>1. PICK x \in Names : Size(x) = 1 /\ Base(x) = b.base
      BY DEF Accounts, SinglePagesAreNamed
    <2>2. b \in Block /\ b.base # Null /\ b = [base |-> b.base, pages |-> b.pages]
      BY BlockFields DEF Accounts, LedgerIsDisjoint
    <2>3. x \in PageOwners /\ Owned(x) = Held(x)
      BY <2>1, <2>2, OwnersAreNames
    <2>4. QED
      BY <2>1, <2>2, <2>3 DEF Held
  <1>8. QED
    BY <1>2, <1>6, <1>7 DEF OwnedMemoryIsHeld

\* Every page a thread uses is one the firmware handed out and has not taken
\* back, no two uses share it, and no single page is ever lost, whichever
\* page_allocate or gxos_vm_region_register of a creation is refused and
\* however threads end.
THEOREM ThreadMemoryIsAccounted == Spec => []PagesAreAccounted
  <1>1. ResourceInv => PagesAreAccounted
    BY OwnersAreCounted DEF ResourceInv, PagesAreAccounted
  <1>2. QED
    BY <1>1, ResourceInvHolds, PTL

\* The stack of a registered thread is the only region over its pages.
LEMMA StackAnswers ==
  ASSUME ResourceInv, NEW t \in Registered, NEW p \in Extent(StackRegion(t))
  PROVE  VirtualQuery(p) = {StackRegion(t)}
  <1>1. ASSUME NEW u \in Registered
        PROVE  /\ u \in Threads /\ <<u, "stack">> \in Names
               /\ Held(<<u, "stack">>) \in ledger
               /\ Extent(Held(<<u, "stack">>)) = Extent(StackRegion(u))
               /\ Base(<<u, "stack">>) # Null
    <2>1. u \in Threads /\ tcb[u].stack # Null
      BY DEF Registered, Workers, ResourceInv, ThreadsAreShaped
    <2>2. /\ <<u, "stack">> \in Names /\ Base(<<u, "stack">>) = tcb[u].stack
          /\ Size(<<u, "stack">>) = StackPages
      BY <2>1, NamesAre, BasesAre, SizesAre
    <2>3. Held(<<u, "stack">>) = [base |-> tcb[u].stack, pages |-> StackPages]
      BY <2>2 DEF Held
    <2>4. QED
      BY <2>1, <2>2, <2>3
         DEF Extent, StackRegion, ResourceInv, Accounts, NamesHoldBlocks
  <1>2. ASSUME NEW u \in Registered, p \in Extent(StackRegion(u)) PROVE u = t
    <2>1. Held(<<u, "stack">>) = Held(<<t, "stack">>)
      BY <1>1, <1>2 DEF ResourceInv, Accounts, LedgerIsDisjoint
    <2>2. Base(<<u, "stack">>) = Base(<<t, "stack">>)
      BY <2>1 DEF Held
    <2>3. <<u, "stack">> = <<t, "stack">>
      BY <2>2, <1>1 DEF ResourceInv, Accounts, NamesHoldBlocks
    <2>4. QED
      BY <2>3
  <1>3. QED
    BY <1>2 DEF VirtualQuery, ResourceInv, RegionsAreStacks

\* The region ledger that VirtualQuery answers from lists the stacks of the
\* existing threads, each once with its bounds and its identity, through every
\* creation, failure, reclamation and teardown and across the wrap-around of
\* the identities.
THEOREM StacksAreRegistered == Spec => []RegionsMatchStacks
  <1>1. ASSUME ResourceInv PROVE RegionsMatchStacks
    <2>1. regions = {StackRegion(t) :
                       t \in {t \in Workers : tcb[t].live /\ tcb[t].id # 0}}
      BY <1>1 DEF ResourceInv, RegionsAreStacks, Registered
    <2>2. ASSUME NEW t \in Workers, tcb[t].live, op.thread # t
          PROVE  /\ tcb[t].id # 0
                 /\ \A p \in Extent(StackRegion(t)) : VirtualQuery(p) = {StackRegion(t)}
      <3>1. tcb[t].id # 0
        BY <1>1, <2>2 DEF ResourceInv, RegionsAreComplete
      <3>2. t \in Registered
        BY <2>2, <3>1 DEF Registered
      <3>3. QED
        BY <1>1, <3>1, <3>2, StackAnswers
    <2>3. QED
      BY <2>1, <2>2 DEF RegionsMatchStacks
  <1>2. QED
    BY <1>1, ResourceInvHolds, PTL

-----------------------------------------------------------------------------
(* The inductive invariant of the thread environment.                      *)

Tcb ==
  [state : {"free", "live", "terminated"}, identity : Nat, has : [FlsSlots -> BOOLEAN],
   value : [FlsSlots -> Nat], com : Nat]
FlsEntry == [allocated : BOOLEAN, value : Nat]
SectionRecord == [ready : BOOLEAN, owned : BOOLEAN, recursion : Nat]

EnvTypes ==
  /\ tcbs \in [EnvThreads -> Tcb]
  /\ running \in EnvThreads
  /\ flsGlobal \in [FlsSlots -> FlsEntry]
  /\ flsMode \in BOOLEAN
  /\ sections \in [Sections -> SectionRecord]
  /\ stored \in [EnvThreads -> [FlsSlots -> Nat]]
  /\ entered \in [EnvThreads -> [Sections -> Nat]]
  /\ apartments \in [EnvThreads -> Nat]
  /\ nextIdentity \in Nat

\* The boot thread never ends, and until the scheduler has adopted the local
\* storage there is no other.
LivesAreOrdered ==
  /\ tcbs[running].state = "live" /\ tcbs[BootThread].state = "live"
  /\ ~flsMode => /\ running = BootThread
                 /\ \A t \in EnvThreads : t # BootThread => tcbs[t].state = "free"

\* No control block holds a value for a slot that is not allocated, or from
\* before the adoption; this is what a later FlsAlloc relies on.
NothingIsLeftInSlots ==
  \A t \in EnvThreads, s \in FlsSlots :
    tcbs[t].has[s] => flsMode /\ flsGlobal[s].allocated

\* The entries of threads into section c, one by one.
InsideOf(en, c) == {p \in EnvThreads \X (1 .. MaxNesting) : p[2] <= en[p[1]][c]}

EntriesAreCounted ==
  \A c \in Sections :
    /\ sections[c].owned <=> InsideOf(entered, c) # {}
    /\ sections[c].recursion = Cardinality(InsideOf(entered, c))

\* Entries stay within the bound, only live threads are inside a section, and
\* a section that is not initialised is not owned.
EntriesAreOfTheLiving ==
  /\ \A t \in EnvThreads, c \in Sections :
       /\ entered[t][c] <= MaxNesting
       /\ tcbs[t].state # "live" => entered[t][c] = 0
  /\ \A c \in Sections : sections[c].owned => sections[c].ready

FlsPart == FlsIsPerThread /\ NothingIsLeftInSlots
SectionPart == EntriesAreCounted /\ EntriesAreOfTheLiving /\ ~envHalted

EnvInv == EnvTypes /\ LivesAreOrdered /\ FlsPart /\ ApartmentsAreBalanced /\ SectionPart

-----------------------------------------------------------------------------
(* Counting the entries of a section.                                      *)

LEMMA InsideIsFinite ==
  ASSUME NEW en, NEW c
  PROVE  /\ IsFiniteSet(InsideOf(en, c))
         /\ Cardinality(InsideOf(en, c)) \in Nat
         /\ Cardinality(InsideOf(en, c)) = 0 <=> InsideOf(en, c) = {}
<1>1. IsFiniteSet(EnvThreads) /\ MaxNesting \in Nat
  BY EnvironmentAssumption
<1>2. IsFiniteSet(1 .. MaxNesting)
  BY <1>1, FS_Interval
<1>3. IsFiniteSet(EnvThreads \X (1 .. MaxNesting))
  BY <1>1, <1>2, FS_Product
<1>4. InsideOf(en, c) \subseteq EnvThreads \X (1 .. MaxNesting)
  BY DEF InsideOf
<1>5. IsFiniteSet(InsideOf(en, c))
  BY <1>3, <1>4, FS_Subset
<1> QED
  BY <1>5, FS_CardinalityType, FS_EmptySet

\* en1 is en after thread t has entered section c once more.
EntersOnce(en, en1, t, c) ==
  /\ en[t][c] < MaxNesting /\ en1[t][c] = en[t][c] + 1
  /\ \A u \in EnvThreads, d \in Sections : u # t \/ d # c => en1[u][d] = en[u][d]

\* One more entry of one thread is one more element.
LEMMA InsideGrows ==
  ASSUME NEW en \in [EnvThreads -> [Sections -> Nat]],
         NEW en1 \in [EnvThreads -> [Sections -> Nat]],
         NEW t \in EnvThreads, NEW c \in Sections,
         EntersOnce(en, en1, t, c)
  PROVE  /\ Cardinality(InsideOf(en1, c)) = Cardinality(InsideOf(en, c)) + 1
         /\ InsideOf(en1, c) # {}
         /\ \A d \in Sections : d # c => InsideOf(en1, d) = InsideOf(en, d)
<1> DEFINE n == en[t][c]
<1>1. n \in Nat /\ MaxNesting \in Nat /\ n + 1 \in 1 .. MaxNesting
  BY EnvironmentAssumption DEF EntersOnce
<1>2. en1[t][c] = n + 1 /\ \A u \in EnvThreads : u # t => en1[u][c] = en[u][c]
  BY DEF EntersOnce
<1>3. \A p \in EnvThreads \X (1 .. MaxNesting) :
        p[2] <= en1[p[1]][c] <=> (p[2] <= en[p[1]][c] \/ p = <<t, n + 1>>)
  <2> SUFFICES ASSUME NEW u \in EnvThreads, NEW k \in 1 .. MaxNesting
               PROVE  k <= en1[u][c] <=> (k <= en[u][c] \/ <<u, k>> = <<t, n + 1>>)
    OBVIOUS
  <2>1. CASE u = t
    BY <1>1, <1>2, <2>1
  <2>2. CASE u # t
    BY <1>2, <2>2
  <2> QED BY <2>1, <2>2
<1>4. <<t, n + 1>> \in EnvThreads \X (1 .. MaxNesting)
  BY <1>1
<1>5. InsideOf(en1, c) = InsideOf(en, c) \cup {<<t, n + 1>>}
  BY <1>3, <1>4, Zenon DEF InsideOf
<1>6. <<t, n + 1>> \notin InsideOf(en, c)
  BY <1>1 DEF InsideOf
<1>7. Cardinality(InsideOf(en1, c)) = Cardinality(InsideOf(en, c)) + 1
  BY <1>5, <1>6, InsideIsFinite, FS_AddElement, ZenonT(30)
<1>8. \A d \in Sections : d # c => InsideOf(en1, d) = InsideOf(en, d)
  <2> TAKE d \in Sections
  <2> HAVE d # c
  <2>1. \A u \in EnvThreads : en1[u][d] = en[u][d]
    BY DEF EntersOnce
  <2> QED
    BY <2>1 DEF InsideOf
<1> QED
  BY <1>5, <1>7, <1>8

\* A thread is not deeper in a section than the section is entered.
LEMMA EntriesAreInside ==
  ASSUME NEW en \in [EnvThreads -> [Sections -> Nat]],
         NEW t \in EnvThreads, NEW c \in Sections, en[t][c] <= MaxNesting
  PROVE  /\ en[t][c] <= Cardinality(InsideOf(en, c))
         /\ en[t][c] > 0 => InsideOf(en, c) # {}
<1> DEFINE n == en[t][c]
           f == [k \in 1 .. n |-> <<t, k>>]
<1>1. n \in Nat /\ MaxNesting \in Nat
  BY EnvironmentAssumption
<1>2. \A k \in 1 .. n : <<t, k>> \in InsideOf(en, c)
  BY <1>1 DEF InsideOf
<1>3. f \in [1 .. n -> InsideOf(en, c)]
  BY <1>2
<1>4. \A k, l \in 1 .. n : f[k] = f[l] => k = l
  OBVIOUS
<1>5. f \in Injection(1 .. n, InsideOf(en, c))
  BY <1>3, <1>4 DEF Injection, IsInjective
<1>6. Cardinality(1 .. n) = n
  BY <1>1, FS_Interval
<1>7. Cardinality(1 .. n) <= Cardinality(InsideOf(en, c))
  BY <1>5, InsideIsFinite, FS_Injection
<1>8. n > 0 => <<t, 1>> \in InsideOf(en, c)
  BY <1>1, <1>2
<1> QED
  BY <1>6, <1>7, <1>8


-----------------------------------------------------------------------------
(* Every step keeps the invariant.                                         *)

LEMMA TcbFields ==
  ASSUME NEW b \in Tcb
  PROVE  /\ b.has \in [FlsSlots -> BOOLEAN] /\ b.value \in [FlsSlots -> Nat]
         /\ b.com \in Nat /\ b.identity \in Nat
         /\ b.state \in {"free", "live", "terminated"}
BY DEF Tcb

LEMMA FreeTcbFields ==
  /\ FreeTcb \in Tcb
  /\ FreeTcb.state = "free" /\ FreeTcb.com = 0
  /\ \A s \in FlsSlots : FreeTcb.has[s] = FALSE
  /\ \A id \in Nat : /\ NewTcb(id) \in Tcb
                     /\ NewTcb(id).state = "live" /\ NewTcb(id).com = 0
                     /\ NewTcb(id).has = FreeTcb.has
BY DEF FreeTcb, NewTcb, Tcb

\* A step that leaves the sections and their entries alone, and ends no thread
\* that is inside one.
LEMMA SectionsStay ==
  ASSUME SectionPart, UNCHANGED <<sections, entered, envHalted>>,
         \A t \in EnvThreads :
           tcbs'[t].state # "live" =>
             tcbs[t].state # "live" \/ \A c \in Sections : entered[t][c] = 0
  PROVE  SectionPart'
<1>1. EntriesAreCounted'
  BY Zenon DEF SectionPart, EntriesAreCounted, InsideOf
<1>2. EntriesAreOfTheLiving'
  BY DEF SectionPart, EntriesAreOfTheLiving
<1> QED
  BY <1>1, <1>2 DEF SectionPart

LEMMA EnvInitial == EnvInit => EnvInv
<1> SUFFICES ASSUME EnvInit PROVE EnvInv
  OBVIOUS
<1> USE DEF EnvInit
<1>1. EnvTypes
  <2>1. BootThread \in EnvThreads
    BY EnvironmentAssumption
  <2>2. tcbs \in [EnvThreads -> Tcb]
    BY FreeTcbFields
  <2> QED
    BY <2>1, <2>2 DEF EnvTypes, FlsEntry, SectionRecord, NoSection
<1>2. LivesAreOrdered
  BY FreeTcbFields, EnvironmentAssumption DEF LivesAreOrdered
<1>3. NothingIsLeftInSlots
  BY FreeTcbFields DEF NothingIsLeftInSlots
<1>4. FlsIsPerThread
  BY DEF FlsIsPerThread, FlsGet
<1>5. ApartmentsAreBalanced
  BY FreeTcbFields DEF ApartmentsAreBalanced
<1>6. SectionPart
  <2>1. \A c \in Sections : InsideOf(entered, c) = {}
    BY EnvironmentAssumption DEF InsideOf
  <2>2. EntriesAreCounted
    BY <2>1, FS_EmptySet DEF EntriesAreCounted, NoSection
  <2>3. EntriesAreOfTheLiving
    BY EnvironmentAssumption DEF EntriesAreOfTheLiving, NoSection
  <2> QED
    BY <2>2, <2>3 DEF SectionPart
<1> QED
  BY <1>1, <1>2, <1>3, <1>4, <1>5, <1>6 DEF EnvInv, FlsPart

LEMMA CreateThreadKeepsEnv ==
  ASSUME EnvInv, NEW t \in EnvThreads, CreateThread(t)
  PROVE  EnvInv'
<1> USE DEF EnvInv, CreateThread, Fresh
<1>1. entered' = entered
  <2>1. entered[t] = [c \in Sections |-> 0]
    BY FreeTcbFields DEF EnvTypes, SectionPart, EntriesAreOfTheLiving
  <2> QED
    BY <2>1 DEF EnvTypes
<1>2. EnvTypes'
  BY FreeTcbFields DEF EnvTypes
<1>3. LivesAreOrdered'
  BY FreeTcbFields, EnvironmentAssumption DEF LivesAreOrdered, EnvTypes
<1>4. NothingIsLeftInSlots'
  BY FreeTcbFields DEF FlsPart, NothingIsLeftInSlots, EnvTypes
<1>5. FlsIsPerThread'
  <2> SUFFICES ASSUME NEW u \in EnvThreads, NEW s \in FlsSlots,
                      tcbs'[u].state = "live"
               PROVE  FlsGet(u, s)' = stored'[u][s]
    BY DEF FlsIsPerThread
  <2>1. CASE u = t
    BY <2>1, FreeTcbFields DEF FlsGet, EnvTypes
  <2>2. CASE u # t
    BY <2>2 DEF FlsPart, FlsIsPerThread, FlsGet, EnvTypes
  <2> QED BY <2>1, <2>2
<1>6. ApartmentsAreBalanced'
  BY FreeTcbFields DEF ApartmentsAreBalanced, EnvTypes
<1>7. SectionPart'
  BY <1>1, SectionsStay, FreeTcbFields DEF EnvTypes
<1> QED
  BY <1>2, <1>3, <1>4, <1>5, <1>6, <1>7 DEF FlsPart

LEMMA SwitchToKeepsEnv ==
  ASSUME EnvInv, NEW t \in EnvThreads, SwitchTo(t)
  PROVE  EnvInv'
<1> USE DEF EnvInv, SwitchTo
<1>1. EnvTypes' /\ LivesAreOrdered'
  BY DEF EnvTypes, LivesAreOrdered
<1>2. FlsPart' /\ ApartmentsAreBalanced'
  BY DEF FlsPart, FlsIsPerThread, FlsGet, NothingIsLeftInSlots, ApartmentsAreBalanced
<1>3. SectionPart'
  BY SectionsStay
<1> QED
  BY <1>1, <1>2, <1>3

LEMMA ExitThreadKeepsEnv ==
  ASSUME EnvInv, NEW t \in EnvThreads, NEW next \in EnvThreads, ExitThread(t, next)
  PROVE  EnvInv'
<1> USE DEF EnvInv, ExitThread, flsVars, sectionVars
<1>0. \A u \in EnvThreads :
        /\ tcbs'[u].has = tcbs[u].has /\ tcbs'[u].value = tcbs[u].value
        /\ tcbs'[u].com = tcbs[u].com
        /\ tcbs'[u].state = IF u = t THEN "terminated" ELSE tcbs[u].state
  BY DEF EnvTypes, Tcb
<1>1. EnvTypes'
  BY DEF EnvTypes, Tcb
<1>2. LivesAreOrdered'
  BY <1>0, EnvironmentAssumption DEF LivesAreOrdered, EnvTypes
<1>3. FlsPart'
  BY <1>0 DEF FlsPart, FlsIsPerThread, FlsGet, NothingIsLeftInSlots
<1>4. ApartmentsAreBalanced'
  BY <1>0 DEF ApartmentsAreBalanced, LivesAreOrdered
<1>5. SectionPart'
  BY <1>0, SectionsStay
<1> QED
  BY <1>1, <1>2, <1>3, <1>4, <1>5

LEMMA ReclaimTcbKeepsEnv ==
  ASSUME EnvInv, NEW t \in EnvThreads, ReclaimTcb(t)
  PROVE  EnvInv'
<1> USE DEF EnvInv, ReclaimTcb, Fresh
<1>1. entered' = entered
  <2>1. entered[t] = [c \in Sections |-> 0]
    BY DEF EnvTypes, SectionPart, EntriesAreOfTheLiving
  <2> QED
    BY <2>1 DEF EnvTypes
<1>2. EnvTypes'
  BY FreeTcbFields DEF EnvTypes
<1>3. LivesAreOrdered'
  BY FreeTcbFields, EnvironmentAssumption DEF LivesAreOrdered, EnvTypes
<1>4. FlsPart'
  BY FreeTcbFields DEF FlsPart, FlsIsPerThread, FlsGet, NothingIsLeftInSlots, EnvTypes
<1>5. ApartmentsAreBalanced'
  BY FreeTcbFields DEF ApartmentsAreBalanced, EnvTypes
<1>6. SectionPart'
  BY <1>1, SectionsStay DEF EnvTypes
<1> QED
  BY <1>2, <1>3, <1>4, <1>5, <1>6


LEMMA AdoptKeepsEnv == EnvInv /\ AdoptSchedulerStorage => EnvInv'
<1> SUFFICES ASSUME EnvInv, AdoptSchedulerStorage PROVE EnvInv'
  OBVIOUS
<1> USE DEF EnvInv, AdoptSchedulerStorage, sectionVars
<1> DEFINE old == tcbs[BootThread]
           has == [s \in FlsSlots |-> old.has[s] \/ flsGlobal[s].allocated]
           value == [s \in FlsSlots |->
                      IF flsGlobal[s].allocated THEN flsGlobal[s].value ELSE old.value[s]]
<1>0. /\ BootThread \in EnvThreads /\ old \in Tcb
      /\ has \in [FlsSlots -> BOOLEAN] /\ value \in [FlsSlots -> Nat]
  BY EnvironmentAssumption DEF EnvTypes, Tcb, FlsEntry
<1>1. tcbs' = [tcbs EXCEPT ![BootThread] = [old EXCEPT !.has = has, !.value = value]]
  BY <1>0 DEF EnvTypes, Tcb
<1>9. UNCHANGED <<running, flsGlobal, sections, entered, bridge, envHalted, stored,
                  apartments, nextIdentity>> /\ flsMode' /\ ~flsMode
  OBVIOUS
<1> HIDE DEF has, value, AdoptSchedulerStorage, old
<1>2. /\ tcbs'[BootThread].has = has /\ tcbs'[BootThread].value = value
      /\ \A u \in EnvThreads : /\ u # BootThread => tcbs'[u] = tcbs[u]
                               /\ tcbs'[u].state = tcbs[u].state
                               /\ tcbs'[u].com = tcbs[u].com
      /\ tcbs' \in [EnvThreads -> Tcb]
  <2>1. /\ [old EXCEPT !.has = has, !.value = value] \in Tcb
        /\ [old EXCEPT !.has = has, !.value = value].has = has
        /\ [old EXCEPT !.has = has, !.value = value].value = value
        /\ [old EXCEPT !.has = has, !.value = value].state = old.state
        /\ [old EXCEPT !.has = has, !.value = value].com = old.com
    BY <1>0 DEF Tcb
  <2> QED
    BY <1>0, <1>1, <2>1 DEF EnvTypes, old
<1>3. EnvTypes'
  BY <1>2, <1>9 DEF EnvTypes
<1>4. LivesAreOrdered'
  BY <1>0, <1>2, <1>9 DEF LivesAreOrdered, EnvTypes
<1>5. NothingIsLeftInSlots'
  <2> SUFFICES ASSUME NEW t \in EnvThreads, NEW s \in FlsSlots, tcbs'[t].has[s]
               PROVE  flsGlobal[s].allocated
    BY <1>9 DEF NothingIsLeftInSlots
  <2>1. CASE t = BootThread
    <3>1. has[s]
      BY <1>2, <2>1
    <3>2. old.has[s] \/ flsGlobal[s].allocated
      BY <3>1 DEF has
    <3> QED
      BY <1>0, <1>9, <3>2 DEF old, FlsPart, NothingIsLeftInSlots
  <2>2. CASE t # BootThread
    BY <1>2, <2>2 DEF FlsPart, NothingIsLeftInSlots
  <2> QED BY <2>1, <2>2
<1>6. FlsIsPerThread'
  <2> SUFFICES ASSUME NEW t \in EnvThreads, NEW s \in FlsSlots,
                      tcbs'[t].state = "live"
               PROVE  FlsGet(t, s)' = stored[t][s]
    BY <1>9 DEF FlsIsPerThread
  <2>1. t = BootThread
    BY <1>2, <1>9 DEF LivesAreOrdered
  <2>2. FlsGet(t, s) = stored[t][s]
    BY <1>0, <2>1 DEF FlsPart, FlsIsPerThread, LivesAreOrdered
  <2>3. flsGlobal[s].allocated => has[s] /\ value[s] = flsGlobal[s].value
    BY DEF has, value
  <2> QED
    BY <1>2, <1>9, <2>1, <2>2, <2>3 DEF FlsGet
<1>7. ApartmentsAreBalanced'
  BY <1>2, <1>9 DEF ApartmentsAreBalanced
<1>8. SectionPart'
  BY <1>2, <1>9, SectionsStay
<1> QED
  BY <1>3, <1>4, <1>5, <1>6, <1>7, <1>8 DEF FlsPart

LEMMA FlsAllocKeepsEnv ==
  ASSUME EnvInv, NEW s \in FlsSlots, FlsAlloc(s)
  PROVE  EnvInv'
<1> USE DEF EnvInv, FlsAlloc, sectionVars
<1>1. EnvTypes' /\ LivesAreOrdered' /\ ApartmentsAreBalanced'
  BY DEF EnvTypes, FlsEntry, LivesAreOrdered, ApartmentsAreBalanced
<1>2. NothingIsLeftInSlots'
  BY DEF FlsPart, NothingIsLeftInSlots, EnvTypes
<1>3. FlsIsPerThread'
  BY DEF FlsPart, FlsIsPerThread, FlsGet, NothingIsLeftInSlots, EnvTypes
<1>4. SectionPart'
  BY SectionsStay
<1> QED
  BY <1>1, <1>2, <1>3, <1>4 DEF FlsPart

\* FlsSetValue, by the running thread.
LEMMA StoreFlsKeeps ==
  ASSUME EnvInv, NEW s \in FlsSlots, NEW v \in FlsValues, StoreFls(running, s, v),
         UNCHANGED <<running, flsMode, sections, entered, envHalted, apartments,
                     nextIdentity>>
  PROVE  EnvInv'
<1> USE DEF EnvInv, StoreFls
<1>0. v \in Nat /\ running \in EnvThreads
  BY EnvironmentAssumption DEF EnvTypes
<1>1. CASE flsMode
  <2>0. \A u \in EnvThreads :
          /\ tcbs'[u].state = tcbs[u].state /\ tcbs'[u].com = tcbs[u].com
          /\ \A r \in FlsSlots :
               IF u = running /\ r = s
                 THEN tcbs'[u].has[r] = TRUE /\ tcbs'[u].value[r] = v
                 ELSE tcbs'[u].has[r] = tcbs[u].has[r] /\ tcbs'[u].value[r] = tcbs[u].value[r]
    BY <1>0, <1>1 DEF EnvTypes, Tcb
  <2>1. EnvTypes'
    <3>1. tcbs' \in [EnvThreads -> Tcb]
      <4> DEFINE old == tcbs[running]
                 has == [old.has EXCEPT ![s] = TRUE]
                 value == [old.value EXCEPT ![s] = v]
      <4>1. has \in [FlsSlots -> BOOLEAN] /\ value \in [FlsSlots -> Nat] /\ old \in Tcb
        BY <1>0, TcbFields DEF EnvTypes
      <4>2. tcbs' = [tcbs EXCEPT ![running] = [old EXCEPT !.has = has, !.value = value]]
        BY <1>1, <4>1 DEF EnvTypes, Tcb
      <4>3. [old EXCEPT !.has = has, !.value = value] \in Tcb
        <5> HIDE DEF old, has, value
        <5> QED BY <4>1 DEF Tcb
      <4> QED
        BY <4>2, <4>3 DEF EnvTypes
    <3>2. stored' \in [EnvThreads -> [FlsSlots -> Nat]]
      BY <1>0 DEF EnvTypes
    <3> QED BY <1>1, <3>1, <3>2 DEF EnvTypes
  <2>2. LivesAreOrdered' /\ ApartmentsAreBalanced'
    BY <1>0, <1>1, <2>0, EnvironmentAssumption DEF LivesAreOrdered, ApartmentsAreBalanced
  <2>3. NothingIsLeftInSlots'
    BY <1>1, <2>0 DEF FlsPart, NothingIsLeftInSlots
  <2>4. FlsIsPerThread'
    <3> SUFFICES ASSUME NEW u \in EnvThreads, NEW r \in FlsSlots,
                        tcbs'[u].state = "live"
                 PROVE  FlsGet(u, r)' = stored'[u][r]
      BY DEF FlsIsPerThread
    <3>1. stored'[u][r] = IF u = running /\ r = s THEN v ELSE stored[u][r]
      BY <1>0 DEF EnvTypes
    <3>2. FlsGet(u, r) = stored[u][r]
      BY <1>1, <2>0 DEF FlsPart, FlsIsPerThread
    <3> QED
      BY <1>0, <1>1, <2>0, <3>1, <3>2 DEF FlsGet
  <2>5. SectionPart'
    BY <2>0, SectionsStay
  <2> QED
    BY <2>1, <2>2, <2>3, <2>4, <2>5 DEF FlsPart
<1>2. CASE ~flsMode
  <2>1. EnvTypes'
    BY <1>0, <1>2 DEF EnvTypes, FlsEntry
  <2>2. LivesAreOrdered' /\ ApartmentsAreBalanced'
    BY <1>2 DEF LivesAreOrdered, ApartmentsAreBalanced
  <2>3. \A r \in FlsSlots :
          /\ flsGlobal'[r].allocated = flsGlobal[r].allocated
          /\ flsGlobal'[r].value = IF r = s THEN v ELSE flsGlobal[r].value
    BY <1>2 DEF EnvTypes, FlsEntry
  <2>4. NothingIsLeftInSlots'
    BY <1>2, <2>3 DEF FlsPart, NothingIsLeftInSlots
  <2>5. FlsIsPerThread'
    BY <1>0, <1>2, <2>3 DEF FlsPart, FlsIsPerThread, FlsGet, LivesAreOrdered, EnvTypes
  <2>6. SectionPart'
    BY <1>2, SectionsStay
  <2> QED
    BY <2>1, <2>2, <2>4, <2>5, <2>6 DEF FlsPart
<1> QED
  BY <1>1, <1>2 DEF EnvTypes

LEMMA FlsFreeKeepsEnv ==
  ASSUME EnvInv, NEW s \in FlsSlots, FlsFree(s)
  PROVE  EnvInv'
<1> USE DEF EnvInv, FlsFree, sectionVars
<1>0. /\ \A u \in EnvThreads :
           /\ tcbs'[u].state = tcbs[u].state /\ tcbs'[u].com = tcbs[u].com
           /\ \A r \in FlsSlots :
                /\ r # s => /\ tcbs'[u].has[r] = tcbs[u].has[r]
                            /\ tcbs'[u].value[r] = tcbs[u].value[r]
                /\ r = s /\ flsMode => tcbs'[u].has[r] = FALSE
                /\ ~flsMode => tcbs'[u].has[r] = tcbs[u].has[r]
      /\ tcbs' \in [EnvThreads -> Tcb]
  <2>1. CASE flsMode
    BY <2>1, ZenonT(30) DEF EnvTypes, Tcb
  <2>2. CASE ~flsMode
    BY <2>2 DEF EnvTypes
  <2> QED BY <2>1, <2>2 DEF EnvTypes
<1>1. EnvTypes'
  BY <1>0 DEF EnvTypes, FlsEntry
<1>2. LivesAreOrdered' /\ ApartmentsAreBalanced'
  <2>1. /\ BootThread \in EnvThreads /\ running \in EnvThreads
        /\ UNCHANGED <<running, flsMode, apartments>>
    BY EnvironmentAssumption DEF EnvTypes
  <2> HIDE DEF FlsFree
  <2> QED
    BY <1>0, <2>1 DEF LivesAreOrdered, ApartmentsAreBalanced
<1>3. NothingIsLeftInSlots'
  BY <1>0, ZenonT(30) DEF FlsPart, NothingIsLeftInSlots, EnvTypes
<1>4. FlsIsPerThread'
  <2>1. \A r \in FlsSlots : /\ r # s => flsGlobal'[r] = flsGlobal[r]
                            /\ ~flsGlobal'[s].allocated
    BY DEF EnvTypes
  <2>2. \A u \in EnvThreads, r \in FlsSlots :
          stored'[u][r] = IF r = s THEN 0 ELSE stored[u][r]
    BY DEF EnvTypes
  <2> QED
    <3> SUFFICES ASSUME NEW u \in EnvThreads, NEW r \in FlsSlots,
                        tcbs'[u].state = "live", flsMode \/ u = BootThread
                 PROVE  FlsGet(u, r)' = stored'[u][r]
      BY DEF FlsIsPerThread
    <3>1. FlsGet(u, r) = stored[u][r]
      <4>1. tcbs[u].state = "live"
        BY <1>0
      <4> HIDE DEF FlsFree
      <4> QED
        BY <4>1 DEF FlsPart, FlsIsPerThread
    <3>2. flsMode' = flsMode
      OBVIOUS
    <3>3. CASE r = s
      BY <2>1, <2>2, <3>3, ZenonT(30) DEF FlsGet
    <3>4. CASE r # s
      <4> HIDE DEF FlsFree
      <4> QED
        BY <1>0, <2>1, <2>2, <3>1, <3>2, <3>4 DEF FlsGet
    <3> QED BY <3>3, <3>4
<1>5. SectionPart'
  BY <1>0, SectionsStay
<1> QED
  BY <1>1, <1>2, <1>3, <1>4, <1>5 DEF FlsPart

\* CoInitializeEx and CoUninitialize change the depth and its history alike.
LEMMA ApartmentKeeps ==
  ASSUME EnvInv, NEW depth \in Nat,
         tcbs' = [tcbs EXCEPT ![running].com = depth],
         apartments' = [apartments EXCEPT ![running] = depth],
         UNCHANGED <<running, flsGlobal, flsMode, stored, sections, entered,
                     envHalted, nextIdentity>>
  PROVE  EnvInv'
<1> USE DEF EnvInv
<1>0. \A u \in EnvThreads :
        /\ tcbs'[u].has = tcbs[u].has /\ tcbs'[u].value = tcbs[u].value
        /\ tcbs'[u].state = tcbs[u].state
        /\ tcbs'[u].com = IF u = running THEN depth ELSE tcbs[u].com
  BY DEF EnvTypes, Tcb
<1>1. EnvTypes'
  BY DEF EnvTypes, Tcb
<1>2. LivesAreOrdered'
  BY <1>0, EnvironmentAssumption DEF LivesAreOrdered, EnvTypes
<1>3. FlsPart'
  BY <1>0 DEF FlsPart, FlsIsPerThread, FlsGet, NothingIsLeftInSlots
<1>4. ApartmentsAreBalanced'
  BY <1>0 DEF ApartmentsAreBalanced, EnvTypes
<1>5. SectionPart'
  BY <1>0, SectionsStay
<1> QED
  BY <1>1, <1>2, <1>3, <1>4, <1>5

LEMMA ComIsApartment ==
  EnvInv => /\ tcbs[running].com = apartments[running]
            /\ tcbs[running].com \in Nat
BY DEF EnvInv, EnvTypes, Tcb, LivesAreOrdered, ApartmentsAreBalanced

LEMMA StillKeepsEnv ==
  ASSUME EnvInv,
         UNCHANGED <<tcbs, running, flsGlobal, flsMode, sections, envHalted, stored,
                     entered, apartments, nextIdentity>>
  PROVE  EnvInv'
<1> USE DEF EnvInv
<1>1. EnvTypes' /\ LivesAreOrdered' /\ ApartmentsAreBalanced'
  BY DEF EnvTypes, LivesAreOrdered, ApartmentsAreBalanced
<1>2. FlsPart'
  BY DEF FlsPart, FlsIsPerThread, FlsGet, NothingIsLeftInSlots
<1>3. SectionPart'
  BY SectionsStay
<1> QED
  BY <1>1, <1>2, <1>3


LEMMA SectionTypes ==
  ASSUME EnvTypes, UNCHANGED <<tcbs, running, flsGlobal, flsMode, stored, apartments,
                               nextIdentity>>,
         sections' \in [Sections -> SectionRecord],
         entered' \in [EnvThreads -> [Sections -> Nat]],
         LivesAreOrdered, FlsPart, ApartmentsAreBalanced
  PROVE  EnvTypes' /\ LivesAreOrdered' /\ FlsPart' /\ ApartmentsAreBalanced'
<1>1. EnvTypes' /\ LivesAreOrdered' /\ ApartmentsAreBalanced'
  BY DEF EnvTypes, LivesAreOrdered, ApartmentsAreBalanced
<1>2. FlsPart'
  BY DEF FlsPart, FlsIsPerThread, FlsGet, NothingIsLeftInSlots
<1> QED
  BY <1>1, <1>2

\* A section that nobody is inside of is initialised or deleted.
LEMMA SectionResets ==
  ASSUME EnvInv, NEW c \in Sections, NEW new \in SectionRecord,
         ~new.owned, new.recursion = 0, InsideOf(entered, c) = {},
         sections' = [sections EXCEPT ![c] = new],
         UNCHANGED <<tcbs, running, flsGlobal, flsMode, stored, apartments,
                     nextIdentity, entered>>,
         ~envHalted'
  PROVE  EnvInv'
<1>1. sections' \in [Sections -> SectionRecord]
  BY DEF EnvInv, EnvTypes
<1>2. EntriesAreCounted'
  <2> SUFFICES ASSUME NEW d \in Sections
               PROVE  /\ sections'[d].owned <=> InsideOf(entered, d) # {}
                      /\ sections'[d].recursion = Cardinality(InsideOf(entered, d))
    BY DEF EntriesAreCounted
  <2>1. CASE d = c
    BY <2>1, FS_EmptySet DEF EnvInv, EnvTypes
  <2>2. CASE d # c
    BY <2>2 DEF EnvInv, EnvTypes, SectionPart, EntriesAreCounted
  <2> QED BY <2>1, <2>2
<1>3. EntriesAreOfTheLiving'
  BY DEF EnvInv, EnvTypes, SectionPart, EntriesAreOfTheLiving
<1> QED
  BY <1>1, <1>2, <1>3, SectionTypes DEF EnvInv, EnvTypes, SectionPart

LEMMA InitializeSectionKeeps ==
  ASSUME EnvInv, NEW c \in Sections, InitializeSection(c)
  PROVE  EnvInv'
<1>1. InsideOf(entered, c) = {}
  BY DEF EnvInv, SectionPart, EntriesAreCounted, EntriesAreOfTheLiving, EnvTypes,
         SectionRecord, InitializeSection
<1>2. [NoSection EXCEPT !.ready = TRUE] \in SectionRecord
  BY DEF NoSection, SectionRecord
<1>3. /\ ~[NoSection EXCEPT !.ready = TRUE].owned
      /\ [NoSection EXCEPT !.ready = TRUE].recursion = 0
  BY DEF NoSection
<1> QED
  BY <1>1, <1>2, <1>3, SectionResets DEF InitializeSection, flsVars, EnvInv, SectionPart

LEMMA DeleteSectionKeeps ==
  ASSUME EnvInv, NEW c \in Sections, DeleteSection(c)
  PROVE  EnvInv'
<1>1. InsideOf(entered, c) = {}
  BY EnvironmentAssumption DEF DeleteSection, InsideOf, EnvInv, EnvTypes
<1>2. ~sections[c].owned /\ sections[c].recursion = 0
  BY <1>1, FS_EmptySet DEF EnvInv, SectionPart, EntriesAreCounted
<1>3. ~envHalted'
  BY <1>2 DEF DeleteSection
<1>4. NoSection \in SectionRecord /\ ~NoSection.owned /\ NoSection.recursion = 0
  BY DEF NoSection, SectionRecord
<1> QED
  BY <1>1, <1>3, <1>4, SectionResets DEF DeleteSection, flsVars

LEMMA EnterSectionKeeps ==
  ASSUME EnvInv, NEW c \in Sections, EnterSection(c)
  PROVE  EnvInv'
<1> DEFINE n == Cardinality(InsideOf(entered, c))
<1>1. /\ running \in EnvThreads /\ entered \in [EnvThreads -> [Sections -> Nat]]
      /\ sections \in [Sections -> SectionRecord] /\ MaxNesting \in Nat
      /\ tcbs[running].state = "live"
  BY EnvironmentAssumption DEF EnvInv, EnvTypes, LivesAreOrdered
<1>2. /\ sections[c].recursion = n /\ n \in Nat
      /\ sections[c].owned <=> InsideOf(entered, c) # {}
      /\ n = 0 <=> InsideOf(entered, c) = {}
  BY InsideIsFinite DEF EnvInv, SectionPart, EntriesAreCounted
<1>3. entered[running][c] < MaxNesting
  <2>1. entered[running][c] <= n
    BY <1>1, EntriesAreInside DEF EnvInv, SectionPart, EntriesAreOfTheLiving
  <2> QED
    BY <1>1, <1>2, <2>1 DEF EnterSection
<1>4. /\ entered' = [entered EXCEPT ![running][c] = @ + 1]
      /\ entered' \in [EnvThreads -> [Sections -> Nat]]
      /\ EntersOnce(entered, entered', running, c)
  BY <1>1, <1>3 DEF EnterSection, EntersOnce
<1>5. /\ Cardinality(InsideOf(entered', c)) = n + 1
      /\ InsideOf(entered', c) # {}
      /\ \A d \in Sections : d # c => InsideOf(entered', d) = InsideOf(entered, d)
  <2> DEFINE after == entered'
  <2>1. after \in [EnvThreads -> [Sections -> Nat]] /\ EntersOnce(entered, after, running, c)
    BY <1>4
  <2> HIDE DEF after
  <2>2. /\ Cardinality(InsideOf(after, c)) = Cardinality(InsideOf(entered, c)) + 1
        /\ InsideOf(after, c) # {}
        /\ \A d \in Sections : d # c => InsideOf(after, d) = InsideOf(entered, d)
    <3>1. running \in EnvThreads /\ entered \in [EnvThreads -> [Sections -> Nat]]
      BY <1>1
    <3> QED
      BY <2>1, <3>1, InsideGrows, ZenonT(30)
  <2> QED
    BY <2>2 DEF after
<1>6. /\ sections' \in [Sections -> SectionRecord]
      /\ \A d \in Sections : d # c => sections'[d] = sections[d]
      /\ sections'[c].owned = TRUE /\ sections'[c].recursion = n + 1
      /\ sections'[c].ready = TRUE
  BY <1>1, <1>2 DEF EnterSection, SectionRecord
<1>7. EntriesAreCounted'
  <2> SUFFICES ASSUME NEW d \in Sections
               PROVE  /\ sections'[d].owned <=> InsideOf(entered', d) # {}
                      /\ sections'[d].recursion = Cardinality(InsideOf(entered', d))
    BY Zenon DEF EntriesAreCounted, InsideOf
  <2>1. CASE d = c
    BY <1>5, <1>6, <2>1
  <2>2. CASE d # c
    BY <1>5, <1>6, <2>2 DEF EnvInv, SectionPart, EntriesAreCounted
  <2> QED BY <2>1, <2>2
<1>8. EntriesAreOfTheLiving'
  BY <1>1, <1>3, <1>4, <1>6 DEF EnvInv, SectionPart, EntriesAreOfTheLiving, EnterSection
<1>9. ~envHalted'
  BY DEF EnterSection
<1> QED
  BY <1>4, <1>6, <1>7, <1>8, <1>9, SectionTypes DEF EnvInv, SectionPart, EnterSection, flsVars

LEMMA LeaveSectionKeeps ==
  ASSUME EnvInv, NEW c \in Sections, LeaveSection(c)
  PROVE  EnvInv'
<1> DEFINE n == Cardinality(InsideOf(entered, c))
<1>1. /\ running \in EnvThreads /\ entered \in [EnvThreads -> [Sections -> Nat]]
      /\ sections \in [Sections -> SectionRecord] /\ MaxNesting \in Nat
      /\ entered[running][c] <= MaxNesting /\ entered[running][c] > 0
  BY EnvironmentAssumption
     DEF EnvInv, EnvTypes, SectionPart, EntriesAreOfTheLiving, LeaveSection
<1>2. /\ sections[c].recursion = n /\ n \in Nat
      /\ sections[c].owned <=> InsideOf(entered, c) # {}
      /\ n = 0 <=> InsideOf(entered, c) = {}
  BY InsideIsFinite DEF EnvInv, SectionPart, EntriesAreCounted
<1>3. sections[c].owned /\ sections[c].recursion > 0
  BY <1>1, <1>2, EntriesAreInside
<1>4. /\ entered' = [entered EXCEPT ![running][c] = @ - 1]
      /\ entered' \in [EnvThreads -> [Sections -> Nat]]
      /\ ~envHalted'
  BY <1>1, <1>3 DEF LeaveSection
<1>10. EntersOnce(entered', entered, running, c)
  BY <1>1, <1>4 DEF EntersOnce
<1>5. /\ n = Cardinality(InsideOf(entered', c)) + 1
      /\ \A d \in Sections : d # c => InsideOf(entered', d) = InsideOf(entered, d)
  <2> DEFINE after == entered'
  <2>1. /\ after \in [EnvThreads -> [Sections -> Nat]] /\ EntersOnce(after, entered, running, c)
    BY <1>4, <1>10
  <2> HIDE DEF after
  <2>2. /\ Cardinality(InsideOf(entered, c)) = Cardinality(InsideOf(after, c)) + 1
        /\ InsideOf(entered, c) # {}
        /\ \A d \in Sections : d # c => InsideOf(entered, d) = InsideOf(after, d)
    BY <1>1, <2>1, InsideGrows, ZenonT(30)
  <2> QED
    BY <2>2 DEF after
<1>6. /\ Cardinality(InsideOf(entered', c)) \in Nat
      /\ Cardinality(InsideOf(entered', c)) = 0 <=> InsideOf(entered', c) = {}
  BY InsideIsFinite
<1>7. /\ sections' \in [Sections -> SectionRecord]
      /\ \A d \in Sections : d # c => sections'[d] = sections[d]
      /\ (sections'[c].owned <=> n # 1) /\ sections'[c].recursion = n - 1
      /\ sections'[c].ready = sections[c].ready
  BY <1>1, <1>2, <1>3 DEF LeaveSection, SectionRecord
<1>8. EntriesAreCounted'
  <2> SUFFICES ASSUME NEW d \in Sections
               PROVE  /\ sections'[d].owned <=> InsideOf(entered', d) # {}
                      /\ sections'[d].recursion = Cardinality(InsideOf(entered', d))
    BY Zenon DEF EntriesAreCounted, InsideOf
  <2>1. CASE d = c
    BY <1>2, <1>5, <1>6, <1>7, <2>1
  <2>2. CASE d # c
    BY <1>5, <1>7, <2>2 DEF EnvInv, SectionPart, EntriesAreCounted
  <2> QED BY <2>1, <2>2
<1>9. EntriesAreOfTheLiving'
  <2>1. UNCHANGED tcbs
    BY DEF LeaveSection
  <2>2. \A t \in EnvThreads, d \in Sections : entered'[t][d] <= entered[t][d]
    BY <1>1, <1>4
  <2> QED
    BY <1>1, <1>3, <1>4, <1>7, <2>1, <2>2 DEF EnvInv, SectionPart, EntriesAreOfTheLiving
<1> QED
  BY <1>4, <1>7, <1>8, <1>9, SectionTypes DEF EnvInv, SectionPart, LeaveSection, flsVars

LEMMA EnvStep == EnvInv /\ [EnvNext]_envVars => EnvInv'
<1> SUFFICES ASSUME EnvInv, [EnvNext]_envVars PROVE EnvInv'
  OBVIOUS
<1>1. ASSUME NEW t \in EnvThreads, CreateThread(t) PROVE EnvInv'
  BY <1>1, CreateThreadKeepsEnv
<1>2. ASSUME NEW t \in EnvThreads, SwitchTo(t) PROVE EnvInv'
  BY <1>2, SwitchToKeepsEnv
<1>3. ASSUME NEW t \in EnvThreads, ReclaimTcb(t) PROVE EnvInv'
  BY <1>3, ReclaimTcbKeepsEnv
<1>4. ASSUME NEW t \in EnvThreads, NEW next \in EnvThreads, ExitThread(t, next)
      PROVE  EnvInv'
  BY <1>4, ExitThreadKeepsEnv
<1>5. CASE AdoptSchedulerStorage
  BY <1>5, AdoptKeepsEnv
<1>6. ASSUME NEW s \in FlsSlots, FlsAlloc(s) PROVE EnvInv'
  BY <1>6, FlsAllocKeepsEnv
<1>7. ASSUME NEW s \in FlsSlots, FlsFree(s) PROVE EnvInv'
  BY <1>7, FlsFreeKeepsEnv
<1>8. ASSUME NEW s \in FlsSlots, NEW v \in FlsValues, FlsSet(s, v) PROVE EnvInv'
  BY <1>8, StoreFlsKeeps DEF FlsSet, sectionVars
<1>9. ASSUME NEW model, CoInitializeEx(model) PROVE EnvInv'
  <2> DEFINE depth == tcbs[running].com + 1
  <2>1. CASE model = "MTA" /\ tcbs[running].com < MaxNesting
    <3>1. /\ depth \in Nat
          /\ tcbs' = [tcbs EXCEPT ![running].com = depth]
          /\ apartments' = [apartments EXCEPT ![running] = depth]
      BY <1>9, <2>1, ComIsApartment DEF CoInitializeEx
    <3> HIDE DEF depth
    <3> QED
      BY <1>9, <3>1, ApartmentKeeps DEF CoInitializeEx, flsVars, sectionVars
  <2>2. CASE ~(model = "MTA" /\ tcbs[running].com < MaxNesting)
    BY <1>9, <2>2, StillKeepsEnv DEF CoInitializeEx, flsVars, sectionVars
  <2> QED BY <2>1, <2>2
<1>10. CASE CoUninitialize
  <2> DEFINE depth == IF tcbs[running].com > 0 THEN tcbs[running].com - 1 ELSE 0
  <2>0. depth = (IF apartments[running] > 0 THEN apartments[running] - 1 ELSE 0)
        /\ depth \in Nat
    BY ComIsApartment
  <2>1. /\ tcbs' = [tcbs EXCEPT ![running].com = depth]
        /\ apartments' = [apartments EXCEPT ![running] = depth]
    BY <1>10, <2>0, Zenon DEF CoUninitialize
  <2> HIDE DEF depth
  <2> QED
    BY <1>10, <2>0, <2>1, ApartmentKeeps DEF CoUninitialize, flsVars, sectionVars
<1>11. ASSUME NEW c \in Sections, InitializeSection(c) PROVE EnvInv'
  BY <1>11, InitializeSectionKeeps
<1>12. ASSUME NEW c \in Sections, EnterSection(c) PROVE EnvInv'
  BY <1>12, EnterSectionKeeps
<1>13. ASSUME NEW c \in Sections, LeaveSection(c) PROVE EnvInv'
  BY <1>13, LeaveSectionKeeps
<1>14. ASSUME NEW c \in Sections, DeleteSection(c) PROVE EnvInv'
  BY <1>14, DeleteSectionKeeps
<1>15. CASE RegisterCallback \/ MarkReady
  BY <1>15, StillKeepsEnv DEF RegisterCallback, MarkReady, flsVars, sectionVars
<1>16. ASSUME NEW v \in FlsValues, InvokeCallback(v) PROVE EnvInv'
  <2>1. CASE FlsGet(running, RuntimeSlot) = 0
    BY <1>16, <2>1, StoreFlsKeeps, EnvironmentAssumption DEF InvokeCallback, sectionVars
  <2>2. CASE FlsGet(running, RuntimeSlot) # 0
    BY <1>16, <2>2, StillKeepsEnv DEF InvokeCallback, sectionVars
  <2> QED BY <2>1, <2>2
<1>17. CASE UNCHANGED envVars
  BY <1>17, StillKeepsEnv DEF envVars
<1> QED
  BY <1>1, <1>2, <1>3, <1>4, <1>5, <1>6, <1>7, <1>8, <1>9, <1>10, <1>11, <1>12,
     <1>13, <1>14, <1>15, <1>16, <1>17 DEF EnvNext

\* The inductive invariant holds in every state of the thread environment.
THEOREM EnvInvHolds == EnvSpec => []EnvInv
BY EnvInitial, EnvStep, PTL DEF EnvSpec

\* For any number of threads, slots, sections and nested calls: a thread reads
\* from fiber local storage what it stored itself, its apartment is as deep as
\* its successful CoInitializeEx calls, and a section counts its entries, across
\* switches, exits and reuse of control blocks; no correct sequence of calls
\* makes platform_leave_critical_section or platform_delete_critical_section fail.
THEOREM ThreadStateBelongsToTheThread == EnvSpec => []ThreadStateIsFaithful
<1>1. EnvInv => ThreadStateIsFaithful
  BY DEF EnvInv, FlsPart, SectionPart, EntriesAreCounted, ThreadStateIsFaithful,
         SectionsCountEntries, InsideOf
<1> QED
  BY <1>1, EnvInvHolds, PTL
=============================================================================
