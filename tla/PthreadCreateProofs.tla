-------------------------- MODULE PthreadCreateProofs --------------------------
(***************************************************************************)
(* The numbers of threads, and what the edges of creations and joins say,  *)
(* for any threads, handles and memory, however early the creator frees an *)
(* argument block.  What is said about edges is for one thread that        *)
(* creates and joins the others: with two such threads it does not hold.   *)
(***************************************************************************)
EXTENDS PthreadCreate, TLAPS

Lives == {"new", "begun", "launching", "numbered", "running", "ended", "joined"}
Begun == {"begun", "launching", "numbered", "running", "ended"}
Starting == {"begun", "launching", "numbered"}
Making == {"create", "record", "note", "free"}

\* Every variable keeps its type.
TypeInv ==
    /\ life \in [Threads -> Lives]
    /\ gid \in [Threads -> Int] /\ nextGid \in Nat
    /\ block \in [Threads -> Blocks \cup {None}]
    /\ mem \in [Blocks -> [routine : Threads \cup {None}, id : Nat]]
    /\ inUse \subseteq Blocks
    /\ handle \in [Threads -> Handles \cup {None}]
    /\ entry \in [Handles -> Nat \cup {None}]
    /\ pc \in [Threads -> Making \cup {"run", "joined"}]
    /\ on \in [Threads -> Threads \cup {None}]
    /\ var \in [Threads -> Handles \cup {None}]
    /\ creator \in [Threads -> Threads \cup {None}]
    /\ failed \in BOOLEAN /\ late \subseteq Threads
    /\ edges \subseteq [kind : {"create", "join"}, from : Nat, to : Nat, about : Threads]

\* A thread has a number when it has taken one, and another one than all others.
Numbered ==
    /\ life[Main] = "running" /\ gid[Main] = 0
    /\ \A t \in Threads : IF life[t] \in {"new", "begun", "launching"} THEN gid[t] = -1
                          ELSE gid[t] \in 0..(nextGid - 1)
    /\ \A t, u \in Threads : gid[t] = gid[u] /\ t # u => gid[t] = -1

\* What the thread t may be called: 0, by its own number or by that of a late thread.
Names(t) == {0, gid[t]} \cup {gid[u] : u \in Strangers(t)}

\* The creator p is in the middle of at most one creation or join; a thread that is
\* starting is the one it creates, or late.
OneAtATime(p) ==
    /\ \A q \in Threads : q # p => pc[q] = "run"
    /\ pc[p] # "run" => on[p] \in Threads
    /\ pc[p] \in Making => /\ block[on[p]] \in Blocks
                           /\ mem[block[on[p]]].id \in Names(on[p])
                           /\ life[on[p]] # "joined" /\ on[p] # Main /\ creator[on[p]] # None
    /\ pc[p] = "create" => life[on[p]] = "new"
    /\ \A t \in Threads : life[t] \in Starting =>
           /\ block[t] \in Blocks
           /\ t \in late \/ (pc[p] \in {"record", "note", "free"} /\ on[p] = t)
    /\ \A t \in Threads : t \in late \/ (t # Main /\ life[t] # "new") => creator[t] # None

\* A thread has a handle of its own from its creation to its join.
HandlesAreOwn ==
    /\ \A t \in Threads : handle[t] # None <=> (t # Main /\ life[t] \in Begun)
    /\ \A t, u \in Threads : handle[t] = handle[u] /\ t # u => handle[t] = None

\* The creator has the handle of the thread it creates, unless the creation failed.
CreatorHasHandle(p) ==
    pc[p] \in {"record", "note"} =>
        /\ var[p] \in Handles
        /\ IF life[on[p]] = "new" THEN failed ELSE var[p] = handle[on[p]]

\* What was noted for the handle of a thread is its number, or what else it may be called.
NotedBy(p, t) == ~(pc[p] \in {"record", "note"} /\ on[p] = t)
EntriesAreOwn(p) ==
    /\ \A t \in Threads : handle[t] # None /\ NotedBy(p, t) => entry[handle[t]] \in {None} \cup Names(t)
    /\ pc[p] = "joined" => /\ var[p] \in Handles /\ life[on[p]] = "joined"
                           /\ entry[var[p]] \in {None} \cup Names(on[p])

\* What an edge says, and whether the thread it is about has got that far.
Named(e) == IF e.kind = "create" THEN e.to ELSE e.from
EdgesAreOwn(p) ==
    /\ \A e \in edges : Named(e) \in Names(e.about)
    /\ \A e \in edges : e.kind = "create" => creator[e.about] # None
    /\ \A e \in edges : e.kind = "join" => life[e.about] = "joined"
    /\ pc[p] \in {"create", "record"} => \A e \in edges : e.kind = "create" => e.about # on[p]

\* The number n that the creation of t named is kept: in the block until it is noted, then
\* for the handle, then by the join.
Kept(p, t, n) ==
    IF pc[p] = "note" /\ on[p] = t THEN mem[block[t]].id = n
    ELSE /\ handle[t] # None => entry[handle[t]] = n
         /\ pc[p] = "joined" /\ on[p] = t => entry[var[p]] = n
         /\ \A j \in edges : j.kind = "join" /\ j.about = t => j.from = n
NamesAreKept(p) ==
    ~failed => \A c \in edges : c.kind = "create" /\ c.to # 0 /\ Strangers(c.about) = {} =>
                   Kept(p, c.about, c.to)

IInv(p) == /\ TypeInv /\ Numbered
           /\ OneAtATime(p) /\ HandlesAreOwn /\ CreatorHasHandle(p)
           /\ EntriesAreOwn(p) /\ EdgesAreOwn(p) /\ NamesAreKept(p)
-----------------------------------------------------------------------------
(* What a thread may be called                                               *)

\* What a thread that was created may be called, it may still be called after a step, and
\* who is a stranger to it is one then.
NamesStay ==
    \A t \in Threads : creator[t] # None =>
        /\ \A n \in Nat : n \in Names(t) => n \in Names(t)'
        /\ Strangers(t)' = {} => Strangers(t) = {}

\* Numbers are taken once, blocks are given once, and who was late has been.
LEMMA NamesKeep ==
    ASSUME \A t \in late : t \in Threads /\ creator[t] # None,
           \A t \in Threads : creator[t] # None => block'[t] = block[t],
           \A t \in Threads : gid'[t] = gid[t] \/ gid[t] = -1,
           late \subseteq late', failed => failed'
    PROVE  NamesStay
<1> SUFFICES ASSUME NEW t \in Threads, creator[t] # None
             PROVE  /\ \A n \in Nat : n \in Names(t) => n \in Names(t)'
                    /\ Strangers(t)' = {} => Strangers(t) = {}
  BY DEF NamesStay
<1>1. Strangers(t) \subseteq Strangers(t)'
  BY DEF Strangers
<1>2. ASSUME NEW n \in Nat, n \in Names(t) PROVE n \in Names(t)'
  <2>1. n # -1
    OBVIOUS
  <2>2. CASE n \in {0, gid[t]}
    BY <2>1, <2>2 DEF Names
  <2>3. CASE n \in {gid[u] : u \in Strangers(t)}
    <3>1. PICK u \in Strangers(t) : n = gid[u]
      BY <2>3
    <3>2. u \in Threads
      BY DEF Strangers
    <3>3. u \in Strangers(t)' /\ gid'[u] = n
      BY <1>1, <2>1, <3>1, <3>2
    <3> QED
      BY <3>3 DEF Names
  <2> QED
    BY <1>2, <2>2, <2>3 DEF Names
<1> QED
  BY <1>1, <1>2

\* The same, as the steps use it.
LEMMA NamesStep ==
    ASSUME NEW p \in Threads, IInv(p), \A t \in Threads : creator[t] # None => block'[t] = block[t],
           gid' = gid, late \subseteq late', failed => failed'
    PROVE  NamesStay
<1>1. \A t \in late : t \in Threads /\ creator[t] # None
  BY DEF IInv, TypeInv, OneAtATime
<1> QED
  BY <1>1, NamesKeep

\* It may be called 0 or by its number, and when a creation failed by any late one.
LEMMA NamesAre ==
    /\ \A t : 0 \in Names(t) /\ gid[t] \in Names(t)
    /\ \A t : \A u \in late : u = t \/ block[u] = block[t] => gid[u] \in Names(t)
    /\ \A t, v : \A n \in Names(v) : failed /\ n # gid[v] => n \in Names(t)
    /\ \A t : \A n \in Names(t) : Strangers(t) = {} => n \in {0, gid[t]}
<1>1. \A t : 0 \in Names(t) /\ gid[t] \in Names(t)
  BY DEF Names
<1>2. ASSUME NEW t, NEW u \in late, u = t \/ block[u] = block[t] PROVE gid[u] \in Names(t)
  BY <1>2 DEF Names, Strangers
<1>3. ASSUME NEW t, NEW v, NEW n \in Names(v), failed, n # gid[v] PROVE n \in Names(t)
  BY <1>3 DEF Names, Strangers
<1>4. ASSUME NEW t, NEW n \in Names(t), Strangers(t) = {} PROVE n \in {0, gid[t]}
  BY <1>4 DEF Names
<1> QED
  BY <1>1, <1>2, <1>3, <1>4

\* The same of the next state.
LEMMA NamesAreThen ==
    /\ \A t : 0 \in Names(t)' /\ gid'[t] \in Names(t)'
    /\ \A t : \A u \in late' : u = t \/ block'[u] = block'[t] => gid'[u] \in Names(t)'
<1>1. \A t : 0 \in Names(t)' /\ gid'[t] \in Names(t)'
  BY DEF Names
<1>2. ASSUME NEW t, NEW u \in late', u = t \/ block'[u] = block'[t] PROVE gid'[u] \in Names(t)'
  BY <1>2 DEF Names, Strangers
<1> QED
  BY <1>1, <1>2

\* What has a handle, is being joined or was recorded was created.
LEMMA CreatedIs ==
    ASSUME NEW p \in Threads, IInv(p)
    PROVE  /\ \A t \in Threads : handle[t] # None => creator[t] # None
           /\ pc[p] = "joined" => on[p] \in Threads /\ creator[on[p]] # None
           /\ \A e \in edges : e.about \in Threads /\ creator[e.about] # None
<1> USE DEF IInv
<1>1. \A t \in Threads : handle[t] # None => creator[t] # None
  BY DEF OneAtATime, HandlesAreOwn, Begun
<1>2. pc[p] = "joined" => on[p] \in Threads /\ creator[on[p]] # None
  BY DEF OneAtATime, EntriesAreOwn, Numbered
<1>3. \A e \in edges : e.about \in Threads /\ creator[e.about] # None
  BY DEF TypeInv, OneAtATime, EdgesAreOwn, Numbered
<1> QED
  BY <1>1, <1>2, <1>3
-----------------------------------------------------------------------------
(* One step of the creator p, or of a thread t                               *)

\* The thread t and its block are new: no other thread, handle or edge is about it.
LEMMA CreateStep ==
    ASSUME NEW p \in Threads, IInv(p), NEW t \in Threads, NEW b \in Blocks, Create(p, t, b)
    PROVE  IInv(p)'
<1> USE DEF IInv, Create, Goto, In, progress
<1>0. NamesStay
  BY NamesStep DEF TypeInv
<1>1. TypeInv'
  BY DEF TypeInv, Lives, Making
<1>2. Numbered'
  BY DEF Numbered
<1>3. OneAtATime(p)'
  BY <1>0, CreateAssumption, NamesAreThen DEF NamesStay, TypeInv, Numbered, OneAtATime, Making,
     Starting
<1>4. HandlesAreOwn'
  BY DEF HandlesAreOwn, Begun
<1>5. CreatorHasHandle(p)'
  BY DEF CreatorHasHandle
<1>6. EntriesAreOwn(p)'
  BY <1>0 DEF NamesStay, EntriesAreOwn, NotedBy, TypeInv, Numbered, OneAtATime, HandlesAreOwn, Begun
<1>7. EdgesAreOwn(p)'
  BY <1>0 DEF NamesStay, TypeInv, EdgesAreOwn, Named, Numbered, OneAtATime, Making
<1>8. NamesAreKept(p)'
  BY <1>0 DEF NamesStay, NamesAreKept, Kept, TypeInv, OneAtATime, EdgesAreOwn
<1> QED
  BY <1>1, <1>2, <1>3, <1>4, <1>5, <1>6, <1>7, <1>8

\* The new thread gets a handle that no other has, or the creation fails.
LEMMA RealCreateStep ==
    ASSUME NEW p \in Threads, IInv(p), RealCreate(p)
    PROVE  IInv(p)'
<1> USE DEF IInv, RealCreate, Goto, In, memory
<1>0. NamesStay
  <2>1. failed => failed'
    OBVIOUS
  <2>2. gid' = gid /\ block' = block /\ late' = late
    OBVIOUS
  <2> QED
    BY <2>1, <2>2, NamesStep
<1>1. TypeInv'
  <2>1. PICK h \in Handles :
            \/ /\ handle' = [handle EXCEPT ![on[p]] = h] /\ failed' = failed
               /\ var' = [var EXCEPT ![p] = h] /\ life' = [life EXCEPT ![on[p]] = "begun"]
            \/ /\ var' = [var EXCEPT ![p] = h] /\ failed' = TRUE
               /\ handle' = handle /\ life' = life
    OBVIOUS
  <2>2. pc' \in [Threads -> Making \cup {"run", "joined"}]
    BY DEF TypeInv, Making
  <2>3. UNCHANGED <<gid, nextGid, block, mem, inUse, entry, on, creator, late, edges>>
    OBVIOUS
  <2> HIDE DEF RealCreate
  <2>4. /\ life' \in [Threads -> Lives] /\ handle' \in [Threads -> Handles \cup {None}]
        /\ var' \in [Threads -> Handles \cup {None}] /\ failed' \in BOOLEAN
    <3>1. life' \in [Threads -> Lives]
      BY <2>1 DEF TypeInv, Lives
    <3>2. handle' \in [Threads -> Handles \cup {None}]
      BY <2>1 DEF TypeInv
    <3>3. var' \in [Threads -> Handles \cup {None}]
      BY <2>1 DEF TypeInv
    <3>4. failed' \in BOOLEAN
      BY <2>1 DEF TypeInv
    <3> QED
      BY <3>1, <3>2, <3>3, <3>4
  <2> QED
    BY <2>2, <2>3, <2>4 DEF TypeInv
<1>2. Numbered'
  BY CreateAssumption DEF TypeInv, Numbered, OneAtATime
<1>3. OneAtATime(p)'
  BY <1>0 DEF NamesStay, TypeInv, OneAtATime, Making, Starting
<1>4. HandlesAreOwn'
  BY SMTT(20) DEF TypeInv, OneAtATime, Making, HandlesAreOwn, Begun
<1>5. CreatorHasHandle(p)'
  BY DEF TypeInv, OneAtATime, CreatorHasHandle
<1>6. EntriesAreOwn(p)'
  BY <1>0 DEF NamesStay, TypeInv, EntriesAreOwn, NotedBy, Numbered, OneAtATime, HandlesAreOwn, Begun
<1>7. EdgesAreOwn(p)'
  BY <1>0 DEF NamesStay, TypeInv, OneAtATime, EdgesAreOwn, Numbered, Making, Named
<1>8. NamesAreKept(p)'
  BY <1>0 DEF NamesStay, TypeInv, EdgesAreOwn, NamesAreKept, Kept, OneAtATime
<1> QED
  BY <1>1, <1>2, <1>3, <1>4, <1>5, <1>6, <1>7, <1>8

\* The block holds the number of the thread that is created, or still 0.
LEMMA RecordCreateStep ==
    ASSUME NEW p \in Threads, IInv(p), RecordCreate(p)
    PROVE  IInv(p)'
<1> USE DEF IInv, RecordCreate, Goto, In, progress, memory, history
<1>0. NamesStay
  BY NamesStep
<1>1. TypeInv'
  BY DEF TypeInv, Numbered, OneAtATime, Making
<1>2. Numbered'
  BY DEF Numbered
<1>3. OneAtATime(p)'
  BY <1>0 DEF NamesStay, OneAtATime, Making, Starting, TypeInv
<1>4. HandlesAreOwn'
  BY DEF HandlesAreOwn, Begun
<1>5. CreatorHasHandle(p)'
  BY DEF CreatorHasHandle
<1>6. EntriesAreOwn(p)'
  BY <1>0 DEF NamesStay, EntriesAreOwn, NotedBy, TypeInv, Numbered, OneAtATime, HandlesAreOwn, Begun
<1>7. EdgesAreOwn(p)'
  BY <1>0 DEF NamesStay, TypeInv, OneAtATime, EdgesAreOwn, Named, Numbered, Making
<1>8. NamesAreKept(p)'
  BY <1>0 DEF NamesStay, TypeInv, EdgesAreOwn, NamesAreKept, Kept, OneAtATime
<1> QED
  BY <1>1, <1>2, <1>3, <1>4, <1>5, <1>6, <1>7, <1>8

\* What is noted is for the handle of the thread that is created, or of no thread.
LEMMA NoteCreateStep ==
    ASSUME NEW p \in Threads, IInv(p), NoteCreate(p)
    PROVE  IInv(p)'
<1> USE DEF IInv, NoteCreate, Goto, In, progress, memory, history
<1>0. NamesStay
  BY NamesStep
<1>1. TypeInv'
  BY DEF TypeInv, OneAtATime, Making
<1>2. Numbered'
  BY DEF Numbered
<1>3. OneAtATime(p)'
  BY <1>0 DEF NamesStay, OneAtATime, Making, Starting, TypeInv
<1>4. HandlesAreOwn'
  BY DEF HandlesAreOwn, Begun
<1>5. CreatorHasHandle(p)'
  BY DEF CreatorHasHandle
<1>6. EntriesAreOwn(p)'
  <2>1. CASE life[on[p]] # "new"
    BY <1>0, <2>1, CreatedIs DEF NamesStay, TypeInv, OneAtATime, Making, HandlesAreOwn,
       CreatorHasHandle, EntriesAreOwn, NotedBy
  <2>2. CASE life[on[p]] = "new"
    <3>1. /\ failed /\ gid[on[p]] = -1 /\ mem[block[on[p]]].id \in Nat /\ var[p] \in Handles
          /\ on[p] \in Threads
      BY <2>2 DEF TypeInv, Numbered, OneAtATime, Making, CreatorHasHandle
    <3>2. \A t : mem[block[on[p]]].id \in Names(t)
      BY <3>1, NamesAre DEF OneAtATime, Making
    <3>3. handle[on[p]] = None
      BY <2>2, <3>1 DEF HandlesAreOwn, Begun
    <3> QED
      BY <1>0, <3>1, <3>2, <3>3, CreatedIs DEF NamesStay, TypeInv, EntriesAreOwn, NotedBy
  <2> QED
    BY <2>1, <2>2
<1>7. EdgesAreOwn(p)'
  BY <1>0 DEF NamesStay, EdgesAreOwn, Named, TypeInv, Numbered, OneAtATime, Making
<1>8. NamesAreKept(p)'
  BY <1>0 DEF NamesStay, TypeInv, OneAtATime, HandlesAreOwn, CreatorHasHandle, EdgesAreOwn, NamesAreKept,
     Kept
<1> QED
  BY <1>1, <1>2, <1>3, <1>4, <1>5, <1>6, <1>7, <1>8

\* Whoever the block is given to, nobody reads it before it is filled.
LEMMA FreeStep ==
    ASSUME NEW p \in Threads, IInv(p), Free(p)
    PROVE  IInv(p)'
<1> USE DEF IInv, Free, Goto, In, progress, history
<1>0. NamesStay
  BY NamesStep
<1>1. TypeInv'
  BY DEF TypeInv, OneAtATime
<1>2. Numbered'
  BY DEF Numbered
<1>3. OneAtATime(p)'
  BY <1>0 DEF NamesStay, OneAtATime, Making, Starting, TypeInv
<1>4. HandlesAreOwn'
  BY DEF HandlesAreOwn, Begun
<1>5. CreatorHasHandle(p)'
  BY DEF CreatorHasHandle
<1>6. EntriesAreOwn(p)'
  BY <1>0 DEF NamesStay, EntriesAreOwn, NotedBy, TypeInv, Numbered, OneAtATime, HandlesAreOwn, Begun
<1>7. EdgesAreOwn(p)'
  BY <1>0 DEF NamesStay, EdgesAreOwn, Named, TypeInv, Numbered, OneAtATime, Making
<1>8. NamesAreKept(p)'
  BY <1>0 DEF NamesStay, NamesAreKept, Kept, TypeInv, OneAtATime, EdgesAreOwn
<1> QED
  BY <1>1, <1>2, <1>3, <1>4, <1>5, <1>6, <1>7, <1>8

\* What the thread launches is not said by the invariant.
LEMMA ReadArgsStep ==
    ASSUME NEW p \in Threads, IInv(p), NEW t \in Threads, ReadArgs(t)
    PROVE  IInv(p)'
<1> USE DEF IInv, ReadArgs, memory
<1>0. NamesStay
  BY NamesStep
<1>1. TypeInv'
  BY DEF TypeInv, Lives, Making
<1>2. Numbered'
  BY DEF Numbered
<1>3. OneAtATime(p)'
  BY <1>0 DEF NamesStay, OneAtATime, Making, Starting, TypeInv
<1>4. HandlesAreOwn'
  BY DEF HandlesAreOwn, Begun
<1>5. CreatorHasHandle(p)'
  BY DEF CreatorHasHandle
<1>6. EntriesAreOwn(p)'
  BY <1>0 DEF NamesStay, EntriesAreOwn, NotedBy, TypeInv, Numbered, OneAtATime, HandlesAreOwn, Begun
<1>7. EdgesAreOwn(p)'
  BY <1>0 DEF NamesStay, EdgesAreOwn, Named, TypeInv, Numbered, OneAtATime, Making
<1>8. NamesAreKept(p)'
  BY <1>0 DEF NamesStay, NamesAreKept, Kept, TypeInv, OneAtATime, EdgesAreOwn
<1> QED
  BY <1>1, <1>2, <1>3, <1>4, <1>5, <1>6, <1>7, <1>8

\* Its number was nobody's: what is named by 0 is not named yet.
LEMMA NewThreadGidStep ==
    ASSUME NEW p \in Threads, IInv(p), NEW t \in Threads, NewThreadGid(t)
    PROVE  IInv(p)'
<1> USE DEF IInv, NewThreadGid, memory, history
<1>0. NamesStay
  <2>1. \A u \in late : u \in Threads /\ creator[u] # None
    BY DEF TypeInv, OneAtATime
  <2>2. \A u \in Threads : gid'[u] = gid[u] \/ gid[u] = -1
    BY DEF TypeInv, Numbered
  <2> QED
    BY <2>1, <2>2, NamesKeep
<1>1. TypeInv'
  BY DEF TypeInv, Lives, Making
<1>2. Numbered'
  BY DEF TypeInv, Numbered
<1>3. OneAtATime(p)'
  BY <1>0 DEF NamesStay, TypeInv, Numbered, OneAtATime, Starting, Making
<1>4. HandlesAreOwn'
  BY DEF HandlesAreOwn, Begun
<1>5. CreatorHasHandle(p)'
  BY DEF CreatorHasHandle
<1>6. EntriesAreOwn(p)'
  BY <1>0 DEF NamesStay, TypeInv, Numbered, EntriesAreOwn, NotedBy, OneAtATime, HandlesAreOwn, Begun
<1>7. EdgesAreOwn(p)'
  BY <1>0 DEF NamesStay, TypeInv, Numbered, EdgesAreOwn, Named, OneAtATime, Making
<1>8. NamesAreKept(p)'
  BY <1>0 DEF NamesStay, NamesAreKept, Kept, TypeInv, OneAtATime, EdgesAreOwn
<1> QED
  BY <1>1, <1>2, <1>3, <1>4, <1>5, <1>6, <1>7, <1>8

\* The block it writes to is that of the creation that goes on.
LEMMA TellCreatorStep ==
    ASSUME NEW p \in Threads, IInv(p), NEW t \in Threads, TellCreator(t)
    PROVE  IInv(p)'
<1> USE DEF IInv, TellCreator, history
<1>0. NamesStay
  BY NamesStep
<1>1. TypeInv'
  <2>1. block[t] \in Blocks /\ gid[t] \in Nat
    <3>2. block[t] \in Blocks
      BY DEF OneAtATime, Starting
    <3>3. gid[t] \in 0..(nextGid - 1) /\ nextGid \in Nat
      BY DEF Numbered, TypeInv
    <3> QED
      BY <3>2, <3>3
  <2>2. mem' \in [Blocks -> [routine : Threads \cup {None}, id : Nat]]
    BY <2>1 DEF TypeInv
  <2>3. life' \in [Threads -> Lives]
    BY DEF TypeInv, Lives
  <2> QED
    BY <2>2, <2>3 DEF TypeInv
<1>2. Numbered'
  BY DEF Numbered
<1>3. OneAtATime(p)'
  <2>1. pc[p] \in Making /\ block[t] = block[on[p]] => gid[t] \in Names(on[p])
    BY NamesAre DEF OneAtATime, Starting
  <2>2. pc[p] \in Making => mem'[block[on[p]]].id \in Names(on[p]) /\ mem'[block[on[p]]].id \in Nat
    BY <1>1, <2>1 DEF TypeInv, OneAtATime
  <2>3. pc[p] \in Making => mem'[block[on[p]]].id \in Names(on[p])'
    BY <1>0, <2>2 DEF NamesStay, OneAtATime, Making
  <2> QED
    BY <2>3 DEF TypeInv, OneAtATime, Making, Starting
<1>4. HandlesAreOwn'
  BY DEF HandlesAreOwn, Begun
<1>5. CreatorHasHandle(p)'
  BY DEF CreatorHasHandle
<1>6. EntriesAreOwn(p)'
  BY <1>0, CreatedIs DEF NamesStay, TypeInv, EntriesAreOwn, NotedBy
<1>7. EdgesAreOwn(p)'
  BY <1>0 DEF NamesStay, EdgesAreOwn, Named, TypeInv, Numbered, OneAtATime, Making
<1>8. NamesAreKept(p)'
  <2>1. SUFFICES ASSUME ~failed, NEW c \in edges, c.kind = "create", c.to # 0,
                        Strangers(c.about)' = {}
                 PROVE  Kept(p, c.about, c.to)'
    BY DEF NamesAreKept
  <2>2. Strangers(c.about) = {} /\ Kept(p, c.about, c.to)
    BY <1>0, <2>1, CreatedIs DEF NamesStay, NamesAreKept
  <2>3. pc[p] = "note" /\ on[p] = c.about => mem'[block[c.about]].id = c.to
    <3>1. SUFFICES ASSUME pc[p] = "note", on[p] = c.about, block[t] = block[c.about]
                   PROVE  gid[t] = c.to
      BY <2>2 DEF Kept, TypeInv
    <3>2. t = c.about
      BY <2>2, <3>1 DEF OneAtATime, Starting, Strangers
    <3>3. mem[block[c.about]].id = c.to /\ c.to \in Names(c.about)
      BY <2>2, <3>1 DEF Kept, OneAtATime, Making
    <3> QED
      BY <2>1, <2>2, <3>2, <3>3, NamesAre
  <2> QED
    BY <2>2, <2>3 DEF Kept
<1> QED
  BY <1>1, <1>2, <1>3, <1>4, <1>5, <1>6, <1>7, <1>8

\* A thread that ended keeps its handle.
LEMMA EndStep ==
    ASSUME NEW p \in Threads, IInv(p), NEW t \in Threads, End(t)
    PROVE  IInv(p)'
<1> USE DEF IInv, End, In, memory, history
<1>0. NamesStay
  BY NamesStep
<1>1. TypeInv'
  BY DEF TypeInv, Lives, Making
<1>2. Numbered'
  BY DEF Numbered
<1>3. OneAtATime(p)'
  BY <1>0 DEF NamesStay, OneAtATime, Making, Starting, TypeInv
<1>4. HandlesAreOwn'
  BY DEF HandlesAreOwn, Begun
<1>5. CreatorHasHandle(p)'
  BY DEF CreatorHasHandle
<1>6. EntriesAreOwn(p)'
  BY <1>0 DEF NamesStay, EntriesAreOwn, NotedBy, TypeInv, Numbered, OneAtATime, HandlesAreOwn, Begun
<1>7. EdgesAreOwn(p)'
  BY <1>0 DEF NamesStay, EdgesAreOwn, Named, TypeInv, Numbered, OneAtATime, Making
<1>8. NamesAreKept(p)'
  BY <1>0 DEF NamesStay, NamesAreKept, Kept, TypeInv, OneAtATime, EdgesAreOwn
<1> QED
  BY <1>1, <1>2, <1>3, <1>4, <1>5, <1>6, <1>7, <1>8

\* The handle of the joined thread is free, and what was noted for it is looked up next.
LEMMA JoinStep ==
    ASSUME NEW p \in Threads, IInv(p), NEW t \in Threads, Join(p, t)
    PROVE  IInv(p)'
<1> USE DEF IInv, Join, Goto, In, memory, history
<1>0. NamesStay
  BY NamesStep
<1>1. TypeInv'
  BY DEF TypeInv, Lives, Making
<1>2. Numbered'
  BY DEF Numbered
<1>3. OneAtATime(p)'
  BY <1>0 DEF NamesStay, TypeInv, OneAtATime, Making, Starting
<1>4. HandlesAreOwn'
  BY DEF TypeInv, HandlesAreOwn, Begun
<1>5. CreatorHasHandle(p)'
  BY DEF CreatorHasHandle
<1>6. EntriesAreOwn(p)'
  BY <1>0, CreatedIs DEF NamesStay, TypeInv, Numbered, HandlesAreOwn, Begun, EntriesAreOwn, NotedBy
<1>7. EdgesAreOwn(p)'
  BY <1>0 DEF NamesStay, EdgesAreOwn, Named, TypeInv, Numbered, OneAtATime, Making
<1>8. NamesAreKept(p)'
  BY <1>0 DEF NamesStay, TypeInv, Numbered, HandlesAreOwn, Begun, NamesAreKept, Kept, OneAtATime,
     EdgesAreOwn
<1> QED
  BY <1>1, <1>2, <1>3, <1>4, <1>5, <1>6, <1>7, <1>8

\* The map holds what the creation of the thread named.
LEMMA RecordJoinStep ==
    ASSUME NEW p \in Threads, IInv(p), RecordJoin(p)
    PROVE  IInv(p)'
<1> USE DEF IInv, RecordJoin, Goto, In, progress, memory, history
<1>0. NamesStay
  BY NamesStep
<1>1. TypeInv'
  BY DEF TypeInv, Numbered, OneAtATime, EntriesAreOwn
<1>2. Numbered'
  BY DEF Numbered
<1>3. OneAtATime(p)'
  BY <1>0 DEF NamesStay, OneAtATime, Making, Starting, TypeInv
<1>4. HandlesAreOwn'
  BY DEF HandlesAreOwn, Begun
<1>5. CreatorHasHandle(p)'
  BY DEF CreatorHasHandle
<1>6. EntriesAreOwn(p)'
  BY <1>0 DEF NamesStay, EntriesAreOwn, NotedBy, TypeInv, Numbered, OneAtATime, HandlesAreOwn, Begun
<1>7. EdgesAreOwn(p)'
  <2>1. (IF entry[var[p]] = None THEN 0 ELSE entry[var[p]]) \in Names(on[p])'
    BY <1>0, CreatedIs, NamesAreThen DEF NamesStay, TypeInv, EntriesAreOwn
  <2> QED
    BY <1>0, <2>1, CreatedIs DEF NamesStay, TypeInv, EntriesAreOwn, EdgesAreOwn, Named
<1>8. NamesAreKept(p)'
  BY <1>0, CreateAssumption DEF NamesStay, TypeInv, NamesAreKept, Kept, OneAtATime, EdgesAreOwn
<1> QED
  BY <1>1, <1>2, <1>3, <1>4, <1>5, <1>6, <1>7, <1>8

-----------------------------------------------------------------------------
(* The whole program                                                         *)

\* Nothing is created, numbered or recorded at first.
LEMMA InitIInv == ASSUME NEW p \in Threads, Init PROVE IInv(p)
<1>1. TypeInv
  <2>1. 0 \in Nat /\ 1 \in Nat /\ -1 \in Int
    OBVIOUS
  <2>2. mem \in [Blocks -> [routine : Threads \cup {None}, id : Nat]]
    BY <2>1 DEF Init
  <2>3. life \in [Threads -> Lives] /\ pc \in [Threads -> Making \cup {"run", "joined"}]
    BY DEF Init, Lives, Making
  <2>4. gid \in [Threads -> Int] /\ nextGid \in Nat
    BY <2>1 DEF Init
  <2>5. failed \in BOOLEAN /\ edges = {} /\ inUse = {} /\ late = {}
    BY DEF Init
  <2>6. /\ block \in [Threads -> Blocks \cup {None}] /\ handle \in [Threads -> Handles \cup {None}]
        /\ entry \in [Handles -> Nat \cup {None}] /\ on \in [Threads -> Threads \cup {None}]
        /\ var \in [Threads -> Handles \cup {None}] /\ creator \in [Threads -> Threads \cup {None}]
    BY DEF Init
  <2> QED
    BY <2>2, <2>3, <2>4, <2>5, <2>6 DEF TypeInv
<1>2. Numbered
  BY CreateAssumption DEF Init, Numbered
<1>3. OneAtATime(p) /\ HandlesAreOwn /\ CreatorHasHandle(p)
  BY DEF Init, OneAtATime, Making, Starting, HandlesAreOwn, Begun, CreatorHasHandle
<1>4. EntriesAreOwn(p) /\ EdgesAreOwn(p) /\ NamesAreKept(p)
  BY DEF Init, EntriesAreOwn, EdgesAreOwn, NamesAreKept
<1> QED
  BY <1>1, <1>2, <1>3, <1>4 DEF IInv

\* A step that changes nothing.
LEMMA IdleStep == ASSUME NEW p \in Threads, IInv(p), UNCHANGED vars PROVE IInv(p)'
<1> USE DEF vars, progress, memory, history
<1>1. TypeInv' /\ Numbered' /\ OneAtATime(p)'
  BY DEF IInv, TypeInv, Numbered, OneAtATime, Names, Strangers
<1>2. HandlesAreOwn' /\ CreatorHasHandle(p)' /\ EntriesAreOwn(p)'
  BY DEF IInv, HandlesAreOwn, CreatorHasHandle, EntriesAreOwn, NotedBy,
     Names, Strangers
<1>3. EdgesAreOwn(p)' /\ NamesAreKept(p)'
  BY DEF IInv, EdgesAreOwn, NamesAreKept, Kept, Names, Strangers
<1> QED
  BY <1>1, <1>2, <1>3 DEF IInv

\* Every step keeps the invariant, if p alone creates: what is done in a wrapper is done
\* by p.
LEMMA StepIInv ==
    ASSUME NEW p \in Threads, Creators = {p}, IInv(p), [Next]_vars
    PROVE  IInv(p)'
<1>1. ASSUME NEW t \in Threads, Step(t) PROVE IInv(p)'
  <2>1. CASE RealCreate(t) \/ RecordCreate(t) \/ NoteCreate(t) \/ Free(t) \/ RecordJoin(t)
    <3>1. t = p
      BY <2>1 DEF IInv, OneAtATime, RealCreate, RecordCreate, NoteCreate, Free, RecordJoin, In
    <3> QED
      BY <2>1, <3>1, RealCreateStep, RecordCreateStep, NoteCreateStep, FreeStep, RecordJoinStep
  <2>2. CASE ReadArgs(t) \/ NewThreadGid(t) \/ TellCreator(t) \/ End(t)
    BY <2>2, ReadArgsStep, NewThreadGidStep, TellCreatorStep, EndStep
  <2>3. ASSUME NEW u \in Threads, Join(t, u) PROVE IInv(p)'
    <3>1. t = p
      BY <2>3 DEF Join
    <3> QED
      BY <2>3, <3>1, JoinStep
  <2>4. ASSUME NEW u \in Threads, NEW b \in Blocks, Create(t, u, b) PROVE IInv(p)'
    <3>1. t = p
      BY <2>4 DEF Create
    <3> QED
      BY <2>4, <3>1, CreateStep
  <2> QED
    BY <1>1, <2>1, <2>2, <2>3, <2>4 DEF Step
<1>2. CASE UNCHANGED vars
  BY <1>2, IdleStep
<1> QED
  BY <1>1, <1>2 DEF Next, Terminated

\* The thread that an edge says was created or joined is that thread, or 0 when its number
\* was not known yet, or a thread that wrote its number late, into the block the creator had
\* freed (232-233) and used again, as long as one thread creates the others.
THEOREM EdgesNameNoStranger ==
    ASSUME NEW p \in Threads, Creators = {p}
    PROVE  Spec => []NoEdgeNamesStranger
<1>1. Init => IInv(p)
  BY InitIInv
<1>2. IInv(p) /\ [Next]_vars => IInv(p)'
  BY StepIInv
<1>3. IInv(p) => NoEdgeNamesStranger
  BY DEF IInv, EdgesAreOwn, Named, Names, NoEdgeNamesStranger
<1> QED
  BY <1>1, <1>2, <1>3, PTL DEF Spec

\* The number that the edge of a creation names is the one that the edge of its join names
\* (231 and 252 go through the same map), if one thread creates the others, no creation
\* failed and no late thread wrote into the block of this one.
THEOREM JoinsMatchCreations ==
    ASSUME NEW p \in Threads, Creators = {p}
    PROVE  Spec => []JoinNamesWhatCreateNamed
<1>1. Init => IInv(p)
  BY InitIInv
<1>2. IInv(p) /\ [Next]_vars => IInv(p)'
  BY StepIInv
<1>3. IInv(p) => JoinNamesWhatCreateNamed
  BY DEF IInv, OneAtATime, Making, EdgesAreOwn, NamesAreKept, Kept, JoinNamesWhatCreateNamed
<1> QED
  BY <1>1, <1>2, <1>3, PTL DEF Spec
-----------------------------------------------------------------------------
(* Numbers, whoever creates whom                                             *)

\* A thread is created once, by its creator; it has not started before that.
CreatedOnce ==
    \A q \in Threads : pc[q] = "create" =>
        /\ on[q] \in Threads \ {Main} /\ life[on[q]] = "new" /\ creator[on[q]] = q

\* What the numbers need.
GidInv == /\ life \in [Threads -> Lives] /\ gid \in [Threads -> Int] /\ nextGid \in Nat
          /\ pc \in [Threads -> Making \cup {"run", "joined"}]
          /\ on \in [Threads -> Threads \cup {None}]
          /\ creator \in [Threads -> Threads \cup {None}]
          /\ Numbered /\ CreatedOnce

\* Every step keeps it: of two creators that are about to create, neither has the thread
\* of the other.
LEMMA GidStep == ASSUME GidInv, [Next]_vars PROVE GidInv'
<1> USE CreateAssumption DEF GidInv, Lives, Making
<1>1. ASSUME NEW p \in Threads, NEW t \in Threads, NEW b \in Blocks, Create(p, t, b)
      PROVE  GidInv'
  BY <1>1 DEF Create, Goto, progress, Numbered, CreatedOnce
<1>2. ASSUME NEW p \in Threads, RealCreate(p) PROVE GidInv'
  BY <1>2 DEF RealCreate, Goto, In, Numbered, CreatedOnce
<1>3. ASSUME NEW p \in Threads, RecordCreate(p) \/ NoteCreate(p) \/ Free(p) \/ RecordJoin(p)
      PROVE  GidInv'
  BY <1>3 DEF RecordCreate, NoteCreate, Free, RecordJoin, Goto, progress, history, Numbered,
     CreatedOnce
<1>4. ASSUME NEW t \in Threads, ReadArgs(t) \/ TellCreator(t) \/ End(t) PROVE GidInv'
  BY <1>4 DEF ReadArgs, TellCreator, End, In, history, Numbered, CreatedOnce
<1>5. ASSUME NEW t \in Threads, NewThreadGid(t) PROVE GidInv'
  BY <1>5 DEF NewThreadGid, history, Numbered, CreatedOnce
<1>6. ASSUME NEW p \in Threads, NEW t \in Threads, Join(p, t) PROVE GidInv'
  BY <1>6 DEF Join, Goto, history, Numbered, CreatedOnce
<1>7. CASE UNCHANGED vars
  BY <1>7 DEF vars, progress, history, Numbered, CreatedOnce
<1> QED
  BY <1>1, <1>2, <1>3, <1>4, <1>5, <1>6, <1>7 DEF Next, Step, Terminated

\* Two threads never have one number (176: the counter is read and moved in one step),
\* whichever threads create others and whatever becomes of the blocks.
THEOREM NumbersAreUnique == Spec => []GidsAreUnique
<1>1. Init => GidInv
  BY CreateAssumption DEF Init, GidInv, Lives, Numbered, CreatedOnce
<1>2. GidInv /\ [Next]_vars => GidInv'
  BY GidStep
<1>3. GidInv => GidsAreUnique
  BY DEF GidInv, Numbered, GidsAreUnique
<1> QED
  BY <1>1, <1>2, <1>3, PTL DEF Spec
===============================================================================
