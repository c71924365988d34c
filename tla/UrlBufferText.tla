--------------------------- MODULE UrlBufferText ---------------------------
(***************************************************************************)
(* The other steps of UrlBuffer preserve what the arrays hold, and the     *)
(* results: the texts a modifier must read, and those it must leave alone. *)
(***************************************************************************)
EXTENDS UrlBufferMoves

LEMMA InitTexts == Init => Texts
BY BufferAssumption DEF Init, Texts, Terminated, Arguments, Unread, Unchanged, CopyHoldsSource

------------------------------------------------------------------------------
(* Between calls only the terminators matter. *)
LEMMA IdleTexts ==
  ASSUME step' = "idle", Terminated'
  PROVE  Texts'
BY DEF Texts, Arguments, Unread, Unchanged, CopyHoldsSource

LEMMA TakeTexts ==
  ASSUME Owned, Texts, NEW x \in Urls, NEW y \in Urls, Take(x, y), mem' = mem
  PROVE  Terminated'
BY DEF Owned, TypeOK, Texts, Terminated, Take

LEMMA DestroyTexts ==
  ASSUME Owned, Texts, NEW x \in Urls, Destroy(x)
  PROVE  Terminated'
BY DEF Owned, TypeOK, Texts, Terminated, Destroy

LEMMA SwapTexts ==
  ASSUME Owned, Texts, NEW x \in Urls, NEW y \in Urls, Swap(x, y)
  PROVE  Terminated'
BY DEF Owned, TypeOK, Texts, Terminated, Swap, Exchanged, heap

LEMMA ClearTexts ==
  ASSUME Owned, Texts, NEW x \in Urls, Clear(x)
  PROVE  Terminated'
<1>1. 0 \in Cells
  BY BufferAssumption DEF Cells
<1> QED
  BY <1>1 DEF Owned, TypeOK, OwnedOnce, Texts, Terminated, Clear, cleared

LEMMA CleanupTexts ==
  ASSUME Texts, Cleanup
  PROVE  Texts'
<1>1. Terminated'
  BY DEF Texts, Terminated, Cleanup, url
<1> QED
  BY <1>1, IdleTexts DEF Cleanup

------------------------------------------------------------------------------
LEMMA BeginTexts ==
  ASSUME Owned, Texts, NEW x \in Urls, NEW a \in Cells, NEW b \in Cells, NEW n \in Sizes,
         NEW d \in Cells \union {Null}, NEW w, NEW t, NEW o, NEW start \in {"keep", "duplicate"},
         Begin(x, a, b, n, d, w, t, o, start)
  PROVE  Texts'
<1>1. Terminated'
  BY DEF Texts, Terminated, Begin, url, heap
<1>2. Unchanged'
  BY DEF Unchanged, Begin, UrlText, url, heap
<1> QED
  BY <1>1, <1>2 DEF Texts, Arguments, Unread, CopyHoldsSource, Begin

(* An argument that is passed lies in an allocated array. *)
LEMMA PassedLive ==
  ASSUME Owned, NEW t \in Passed
  PROVE  t.buf \in live /\ 0 <= t.pos /\ t.len \in Sizes /\ t.pos \in Cells
BY BufferAssumption DEF Passed, Slice, Cells, Owned, OwnedOnce, TypeOK

(* An argument from the url's own array lies in its text. *)
LEMMA PassedOwn ==
  ASSUME Owned, NEW t \in Passed, NEW x \in Urls, t.buf = s_[x]
  PROVE  t.pos + t.len <= size[x]
<1>1. Literal \in Buffers /\ s_[x] # Literal
  BY BufferAssumption DEF Owned, OwnedOnce
<1>2. PICK y \in Urls : t.buf = s_[y] /\ t.pos + t.len <= size[y]
  BY <1>1 DEF Passed
<1>3. x = y
  <2>1. s_[x] # Null /\ s_[y] = s_[x]
    BY <1>2, BufferAssumption DEF Passed, Slice
  <2> QED
    BY <2>1, Zenon DEF Owned, OwnedOnce
<1> QED
  BY <1>2, <1>3, Zenon

LEMMA ReplaceTexts ==
  ASSUME Owned, Texts, NEW x \in Urls, NEW a \in Cells, NEW b \in Cells, NEW n \in Sizes,
         NEW t \in [Args -> Passed], NEW o \in SUBSET Args, Replace(x, a, b, n, t, o)
  PROVE  Texts'
<1>1. Terminated'
  BY DEF Texts, Terminated, Replace, Begin, url, heap
<1>2. Unchanged'
  BY DEF Unchanged, Replace, Begin, UrlText, url, heap
<1>3. ASSUME NEW k \in Args
      PROVE  Holds(k)'
  <2>1. t[k] \in Passed /\ OutOfTheWay(x, a, b, n, Null, k, t, o)
    BY DEF Replace
  <2>2. /\ arg' = t /\ told' = o /\ given'[k] = Text(mem[t[k].buf], t[k].pos, t[k].len) /\ mem' = mem /\ live' = live
        /\ step' = "resize" /\ who' = x /\ first' = a /\ last' = b /\ room' = n /\ dot' = Null
        /\ UNCHANGED <<s_, cap_, size>>
    BY DEF Replace, Begin, url, heap
  <2>3. OutOfTheWay(who, first, last, room, Null, k, arg, told)'
    BY <2>1, <2>2 DEF OutOfTheWay, NewSize
  <2> QED
    BY <2>1, <2>2, <2>3, PassedLive, PassedOwn DEF Holds, Own, Text
<1> QED
  BY <1>1, <1>2, <1>3 DEF Texts, Arguments, CopyHoldsSource, Replace, Begin

LEMMA SetSchemeTexts ==
  ASSUME Owned, Texts, NEW x \in Urls, NEW b \in Cells, NEW n \in Sizes, NEW d \in Cells,
         NEW t \in [Args -> Passed], SetScheme(x, b, n, d, t)
  PROVE  Texts'
<1>1. Terminated'
  BY DEF Texts, Terminated, SetScheme, Begin, url, heap
<1>2. Unchanged'
  BY DEF Unchanged, SetScheme, Begin, UrlText, url, heap
<1>3. ASSUME NEW k \in Args
      PROVE  Holds(k)'
  <2>1. t[k] \in Passed /\ OutOfTheWay(x, 0, b, n, d, k, t, Args)
    BY DEF SetScheme
  <2>2. /\ arg' = t /\ told' = Args /\ given'[k] = Text(mem[t[k].buf], t[k].pos, t[k].len) /\ mem' = mem /\ live' = live
        /\ step' = "ahead" /\ who' = x /\ first' = 0 /\ last' = b /\ room' = n /\ dot' = d
        /\ UNCHANGED <<s_, cap_, size>>
    BY DEF SetScheme, Begin, url, heap
  <2>3. OutOfTheWay(who, first, last, room, dot, k, arg, told)'
    BY <2>1, <2>2 DEF OutOfTheWay, NewSize, AheadSize
  <2> QED
    BY <2>1, <2>2, <2>3, PassedLive, PassedOwn DEF Holds, Own, Text
<1> QED
  BY <1>1, <1>2, <1>3 DEF Texts, Arguments, CopyHoldsSource, SetScheme, Begin

------------------------------------------------------------------------------
(* Reserving changes no text: the arguments keep theirs, those in the url's*)
(* own array because op_t keeps that array until the end.                  *)
LEMMA SameArray ==
  ASSUME Owned, Texts, DoReserve, Fits(Asked), step' = AfterReserve[step]
  PROVE  Texts'
<1> USE BufferAssumption
<1>0. step' \in {"drop", "move", "end", "copy"} /\ (step' = "drop" => step = "ahead") /\ (step' = "move" => step = "resize")
  BY DEF DoReserve, AfterReserve
<1>1. Terminated'
  BY DEF Texts, Terminated, Fits, url, heap
<1>2. ASSUME NEW k \in Args, step' \in Unread
      PROVE  Holds(k)'
  <2>1. step \in Unread /\ Holds(k)
    BY <1>0, <1>2 DEF Unread, Texts, Arguments
  <2>2. UNCHANGED <<s_, cap_, size, mem, live, who, first, last, room, dot, arg, told, given>>
    BY DEF Fits, DoReserve, url, heap, call
  <2>3. Asked <= cap_[who]
    BY DEF Fits
  <2>4. arg[k] \in [buf : Buffers, pos : Int, len : Sizes] /\ who \in Urls /\ first \in Cells
        /\ last \in Cells /\ room \in Sizes /\ size[who] \in Sizes /\ cap_[who] \in Sizes
    BY DEF Owned, TypeOK
  <2>5. step' = "drop" /\ Own(arg[k]) => AsideDot(k)
    <3> SUFFICES ASSUME step' = "drop", Own(arg[k]) PROVE AsideDot(k)
      OBVIOUS
    <3>1. step = "ahead" /\ dot # Null /\ first = 0 /\ AheadSize(who, room) <= cap_[who]
      BY <1>0, <2>3 DEF Asked, Owned, Planned, Cells
    <3>2. OutOfTheWay(who, first, last, room, dot, k, arg, told)
      BY <2>1, <3>1 DEF Holds
    <3> QED
      BY <2>4, <3>1, <3>2 DEF OutOfTheWay, AsideDot, AheadSize, Own, Cells, Sizes
  <2>6. step' = "move" /\ Own(arg[k]) => Aside(k)
    <3> SUFFICES ASSUME step' = "move", Own(arg[k]) PROVE Aside(k)
      OBVIOUS
    <3>1. step = "resize" /\ NewSize(who, first, last, room) <= cap_[who]
      BY <1>0, <2>3 DEF Asked
    <3>2. CASE dot # Null
      BY <2>1, <3>1, <3>2 DEF Holds
    <3>3. CASE dot = Null
      <4>1. OutOfTheWay(who, first, last, room, Null, k, arg, told)
        BY <2>1, <3>1, <3>3 DEF Holds
      <4> QED
        BY <2>4, <3>1, <4>1 DEF OutOfTheWay, Aside, NewSize, Own, Cells, Sizes
    <3> QED
      BY <3>2, <3>3
  <2>7. step # "write"
    BY DEF DoReserve, AfterReserve
  <2> QED
    BY <1>0, <2>1, <2>2, <2>5, <2>6, <2>7, ZenonT(60) DEF Holds, Own, Aside, AsideDot, Text
<1> QED
  BY <1>0, <1>1, <1>2 DEF Texts, Arguments, Unchanged, CopyHoldsSource

LEMMA ThrowTexts ==
  ASSUME Owned, Texts, DoReserve, Throw(Asked)
  PROVE  Texts'
<1> USE BufferAssumption
<1>1. Terminated'
  BY DEF Texts, Terminated, Throw, url, heap
<1>2. before = UrlText(who)
  <2>1. ~(step = "resize" /\ dot # Null)
    BY DEF Throw, Asked, Owned, Planned, NewSize, TypeOK, Cells, Sizes
  <2> QED
    BY <2>1 DEF DoReserve, AfterReserve, Texts, Unchanged
<1>3. Unchanged'
  BY <1>2 DEF Unchanged, Throw, DoReserve, UrlText, url, heap, call
<1> QED
  BY <1>1, <1>3 DEF Texts, Arguments, Unread, CopyHoldsSource, Throw

LEMMA NewArray ==
  ASSUME Owned, Texts, DoReserve, step' = AfterReserve[step], NEW b \in Buffers \ live,
         FirstAllocation(b, Asked) \/ Reallocation(b, Asked)
  PROVE  Texts'
<1>0. step' \in {"drop", "move", "end", "copy"} /\ (step' = "drop" => step = "ahead") /\ (step' = "move" => step = "resize")
  BY DEF DoReserve, AfterReserve
<1>1. /\ s_' = [s_ EXCEPT ![who] = b] /\ live' = live \union {b}
      /\ size' = size /\ who' = who /\ arg' = arg /\ given' = given
  BY DEF FirstAllocation, Reallocation, Allocate, DoReserve, call
<1>2. \A c \in Buffers : c # b => mem'[c] = mem[c]
  BY ModifierTypes DEF FirstAllocation, Reallocation
<1>3. mem'[b][size[who]] = Nul
  <2>1. CASE FirstAllocation(b, Asked)
    <3>1. size[who] = 0 /\ 0 \in Cells
      BY <2>1, BufferAssumption, ModifierTypes DEF FirstAllocation, Owned, Fitting, Cells, Sizes
    <3> QED
      BY <2>1, <3>1, ModifierTypes DEF FirstAllocation
  <2>2. CASE Reallocation(b, Asked)
    <3>1. mem'[b] = memmove(mem[b], 0, mem[s_[who]], 0, size[who] + 1)
      BY <2>2, ModifierTypes DEF Reallocation
    <3>2. mem[s_[who]][size[who]] = Nul /\ size[who] \in Sizes
      BY <2>2, ModifierTypes DEF Reallocation, Texts, Terminated
    <3> QED
      BY <3>1, <3>2, BufferAssumption DEF memmove, Cells, Sizes
  <2> QED
    BY <2>1, <2>2
<1>4. Terminated'
  <2>1. \A x \in Urls : s_[x] # Null => s_[x] \in live
    BY DEF Owned, OwnedOnce
  <2> QED
    <3>1. ASSUME NEW x \in Urls, x # who, s_'[x] # Null
          PROVE  mem'[s_'[x]][size'[x]] = Nul
      <4>1. s_'[x] = s_[x] /\ s_[x] \in Buffers /\ size'[x] = size[x]
        BY <1>1, <3>1, ModifierTypes
      <4>2. mem'[s_[x]] = mem[s_[x]]
        BY <1>2, <2>1, <3>1, <4>1, Zenon
      <4> QED
        BY <3>1, <4>1, <4>2, Zenon DEF Texts, Terminated
    <3>2. s_'[who] = b
      BY <1>1, ModifierTypes
    <3> QED
      BY <1>1, <1>3, <3>1, <3>2, Zenon DEF Terminated
<1>5. ASSUME NEW k \in Args, step' \in Unread
      PROVE  Holds(k)'
  <2>1. step \in Unread /\ Holds(k)
    BY <1>0, <1>5 DEF Unread, Texts, Arguments
  <2>2. arg[k].buf \in live /\ arg[k].buf # b /\ arg[k].buf \in Buffers
    BY <2>1 DEF Holds, Owned, TypeOK
  <2>3. s_'[who] = b
    BY <1>1, ModifierTypes
  <2>4. ~Own(arg[k])'
    <3>1. who' = who /\ arg' = arg
      BY <1>1
    <3>2. arg'[k].buf # s_'[who']
      BY <2>2, <2>3, <3>1, Zenon
    <3> QED
      BY <3>2, Zenon DEF Own
  <2>5. given'[k] = Text(mem[arg[k].buf], arg[k].pos, arg[k].len)' /\ arg'[k].buf \in live' /\ 0 <= arg'[k].pos
    BY <1>1, <1>2, <2>1, <2>2, ZenonT(60) DEF Holds, Text
  <2> QED
    BY <1>0, <2>4, <2>5 DEF Holds
<1> QED
  BY <1>0, <1>4, <1>5 DEF Texts, Arguments, Unchanged, CopyHoldsSource

LEMMA DoReserveTexts ==
  ASSUME Owned, Texts, DoReserve
  PROVE  Texts'
BY SameArray, NewArray, ThrowTexts DEF DoReserve, reserve_impl

------------------------------------------------------------------------------
LEMMA WriteTexts ==
  ASSUME Owned, Texts, NEW c \in Chars, Write(c)
  PROVE  Texts'
<1>1. \A x \in Urls : s_[x] # Null => mem'[s_[x]][size[x]] = mem[s_[x]][size[x]]
  <2>1. first + room <= size[who] /\ size[who] \in Sizes /\ first \in Cells /\ room \in Sizes /\ who \in Urls
    BY DEF Write, Owned, Planned, TypeOK
  <2>2. ASSUME NEW x \in Urls, s_[x] # Null
        PROVE  mem'[s_[x]][size[x]] = mem[s_[x]][size[x]]
    <3>1. CASE s_[x] = s_[who]
      <4>1. x = who
        BY <2>1, <2>2, <3>1 DEF Owned, OwnedOnce
      <4>2. mem'[s_[x]] = fill(mem[s_[x]], first, first + room, c)
        BY <2>2, <4>1 DEF Write, Owned, TypeOK
      <4> QED
        BY <2>1, <4>1, <4>2 DEF fill, Cells, Sizes
    <3>2. CASE s_[x] # s_[who]
      BY <2>2, <3>2 DEF Write, Owned, TypeOK
    <3> QED
      BY <3>1, <3>2
  <2> QED
    BY <2>2
<1>2. Terminated'
  BY <1>1, ZenonT(40) DEF Texts, Terminated, Write, url
<1> QED
  BY <1>2, Zenon DEF Texts, Arguments, Unread, Unchanged, CopyHoldsSource, Write

LEMMA CopyTextTexts ==
  ASSUME Owned, Texts, CopyText
  PROVE  Texts'
<1> USE BufferAssumption
<1> DEFINE o == Owner(source)
<1>1. /\ o \in Urls /\ room > 0 /\ room = size[o] /\ room = OwnSize(source) /\ room <= cap_[who]
      /\ room \in Sizes /\ who \in Urls /\ cap_[who] \in Sizes
  BY ZenonT(40) DEF CopyText, Owned, Planned, TypeOK, LiveSize
<1>2. s_[who] \in Buffers /\ cs_[o] = s_[o] /\ s_[o] \in Buffers
  <2> HIDE DEF o
  <2>1. ASSUME NEW x \in Urls, room <= cap_[x] PROVE s_[x] \in Buffers /\ cs_[x] = s_[x]
    BY <1>1, <2>1 DEF Owned, TypeOK, Fitting, PointersAtHome, Sizes
  <2>2. room <= cap_[o]
    BY <1>1, ZenonT(40) DEF Owned, Fitting
  <2> QED
    BY <1>1, <2>1, <2>2
<1>3. UNCHANGED <<s_, cs_, source, vpi, room, who>> /\ size' = [size EXCEPT ![who] = room]
  BY <1>1 DEF CopyText, call, views
<1>4. \A b \in Buffers : b # s_[who] => mem'[b] = mem[b]
  BY DEF CopyText, Owned, TypeOK
<1>5. mem'[s_[who]] = [memmove(mem[s_[who]], 0, mem[s_[o]], 0, room) EXCEPT ![room] = Nul]
  <2>1. mem'[s_[who]] = [memmove(mem[s_[who]], 0, mem[cs_[o]], 0, room) EXCEPT ![OwnSize(source)] = Nul]
    BY <1>2 DEF CopyText, Owned, TypeOK
  <2> QED
    BY <1>1, <1>2, <2>1, Zenon
<1>6. /\ \A i \in Cells : i < room => mem'[s_[who]][i] = mem[s_[o]][i]
      /\ mem'[s_[who]][room] = Nul
  <2> DEFINE moved == memmove(mem[s_[who]], 0, mem[s_[o]], 0, room)
  <2>1. room \in Int /\ room \in Cells
    BY <1>1 DEF Cells, Sizes
  <2>2. /\ DOMAIN moved = Cells
        /\ \A i \in Cells : i < room => moved[i] = mem[s_[o]][i]
    BY <2>1 DEF memmove, Cells
  <2>3. mem'[s_[who]] = [moved EXCEPT ![room] = Nul]
    BY <1>5
  <2> HIDE DEF moved
  <2>4. mem'[s_[who]][room] = Nul
    <3>1. [moved EXCEPT ![room] = Nul][room] = Nul
      BY <2>1, <2>2, Zenon
    <3> QED
      BY <2>3, <3>1, Zenon
  <2>5. ASSUME NEW i \in Cells, i < room
        PROVE  mem'[s_[who]][i] = mem[s_[o]][i]
    <3>1. i # room
      BY <2>1, <2>5 DEF Cells
    <3>2. [moved EXCEPT ![room] = Nul][i] = moved[i]
      BY <2>2, <3>1, Zenon
    <3>3. moved[i] = mem[s_[o]][i]
      BY <2>2, <2>5, Zenon
    <3> QED
      BY <2>3, <3>2, <3>3, Zenon
  <2> QED
    BY <2>4, <2>5, Zenon
<1>7. Terminated'
  <2>1. \A x \in Urls : x # who /\ s_[x] # Null => s_[x] # s_[who] /\ s_[x] \in Buffers
    BY <1>1 DEF Owned, OwnedOnce, TypeOK
  <2>2. ASSUME NEW x \in Urls, s_[x] # Null
        PROVE  mem'[s_[x]][size'[x]] = Nul
    <3>1. size \in [Urls -> Sizes] /\ mem[s_[x]][size[x]] = Nul
      BY <2>2 DEF Owned, TypeOK, Texts, Terminated
    <3>2. size'[x] = IF x = who THEN room ELSE size[x]
      BY <1>3, <3>1, Zenon
    <3>3. CASE x = who
      BY <1>6, <3>2, <3>3, Zenon
    <3>4. CASE x # who
      <4>1. mem'[s_[x]] = mem[s_[x]]
        BY <1>4, <2>1, <2>2, <3>4, Zenon
      <4> QED
        BY <3>1, <3>2, <3>4, <4>1, Zenon
    <3> QED
      BY <3>3, <3>4, Zenon
  <2>3. s_' = s_
    BY <1>3, Zenon
  <2> QED
    BY <2>2, <2>3, Zenon DEF Terminated
<1>8. CopyHoldsSource'
  <2>1. (size[who] = room)'
    BY <1>1, <1>3 DEF Owned, TypeOK
  <2>2. o' = o /\ cs_'[o] = s_[o]
    BY <1>2, <1>3 DEF Owner
  <2>3. ASSUME NEW i \in 0 .. room - 1
        PROVE  mem'[s_[who]][i] = mem'[s_[o]][i]
    <3>1. i \in Cells /\ i < room
      BY <1>1 DEF Cells, Sizes
    <3>2. CASE s_[o] = s_[who]
      BY <3>2
    <3>3. CASE s_[o] # s_[who]
      BY <1>2, <1>4, <1>6, <3>1, <3>3
    <3> QED
      BY <3>2, <3>3
  <2>4. Text(mem'[s_[who]], 0, room) = Text(mem'[s_[o]], 0, room)
    <3>1. \A i \in 0 .. room - 1 : 0 + i = i
      OBVIOUS
    <3> QED
      BY <2>3, <3>1 DEF Text
  <2> QED
    BY <1>3, <2>1, <2>2, <2>4 DEF CopyHoldsSource
<1> QED
  BY <1>7, <1>8 DEF Texts, Arguments, Unread, Unchanged, CopyText

LEMMA NextTexts ==
  ASSUME ~StaleViews, Owned, Texts, [Next]_vars
  PROVE  Texts'
<1>1. CASE Calls
  <2>0. step = "idle" /\ 0 \in Cells
    BY <1>1, BufferAssumption DEF Calls, Cells
  <2>1. ASSUME NEW x \in Urls, NEW y \in Urls,
               MoveAssign(x, y) \/ MoveConstruct(x, y) \/ Swap(x, y)
        PROVE  Texts'
    <3>1. step' = "idle"
      BY <2>1 DEF MoveAssign, MoveConstruct, Swap
    <3> QED
      BY <2>1, <3>1, TakeTexts, SwapTexts, IdleTexts DEF MoveAssign, MoveConstruct
  <2>2. ASSUME NEW x \in Urls, Destroy(x) \/ Clear(x)
        PROVE  Texts'
    <3>1. step' = "idle"
      BY <2>2 DEF Destroy, Clear
    <3> QED
      BY <2>2, <3>1, DestroyTexts, ClearTexts, IdleTexts
  <2>3. ASSUME NEW v \in Views, NEW x \in Urls, ViewOf(v, x) \/ ViewAssign(v, x)
        PROVE  Texts'
    <3>1. step' = "idle" /\ Terminated'
      BY <2>3 DEF ViewOf, ViewAssign, Texts, Terminated, url, heap
    <3> QED
      BY <3>1, IdleTexts
  <2>4. ASSUME NEW x \in Urls, NEW n \in Sizes, Reserve(x, n)
        PROVE  Texts'
    BY <2>0, <2>4, BeginTexts DEF Reserve
  <2>5. ASSUME NEW x \in Urls, NEW w \in Urls \union Views, Copy(x, w)
        PROVE  Texts'
    <3>1. LiveSize(w) \in Sizes
      BY BufferAssumption DEF LiveSize, Owner, Owned, TypeOK, Sizes
    <3> QED
      BY <2>0, <2>5, <3>1, BeginTexts DEF Copy
  <2>6. ASSUME NEW x \in Urls, NEW w \in Urls \union Views, CopyEmpty(x, w)
        PROVE  Texts'
    BY <2>2, <2>6 DEF CopyEmpty
  <2> QED
    BY <1>1, <2>1, <2>2, <2>3, <2>4, <2>5, <2>6, ReplaceTexts, SetSchemeTexts DEF Calls
<1>2. CASE UNCHANGED vars
  <2> USE <1>2 DEF vars, url, views, heap, call
  <2>1. Terminated' /\ Unchanged'
    BY DEF Texts, Terminated, Unchanged, UrlText
  <2>2. CopyHoldsSource'
    BY DEF Texts, CopyHoldsSource, Owner, Text
  <2>3. ASSUME NEW k \in Args, Holds(k) PROVE Holds(k)'
    BY <2>3, Zenon DEF Holds, Own, Aside, AsideDot, OutOfTheWay, NewSize, AheadSize, Text
  <2> QED
    BY <2>1, <2>2, <2>3 DEF Texts, Arguments
<1> QED
  BY <1>1, <1>2, DoReserveTexts, DropDotTexts, MoveTexts, WriteTexts, CopyTextTexts,
     CleanupTexts DEF Next

LEMMA TextsAlways ==
  ASSUME ~StaleViews
  PROVE  Spec => [](Owned /\ Texts)
<1>1. Init => Owned /\ Texts
  BY InitOwned, InitTexts
<1>2. (Owned /\ Texts) /\ [Next]_vars => (Owned /\ Texts)'
  BY NextOwned, NextTexts
<1> QED
  BY <1>1, <1>2, PTL DEF Spec

(***************************************************************************)
(* The results.                                                            *)
(***************************************************************************)
(* At every step of every modifier the text fits the capacity and ends     *)
(* with Nul.                                                               *)
THEOREM EndsInItsBufferHolds ==
  ASSUME ~StaleViews
  PROVE  Spec => []EndsInItsBuffer
<1>1. Owned /\ Texts => EndsInItsBuffer
  BY DEF Owned, Fitting, Texts, Terminated, EndsInItsBuffer
<1> QED
  BY <1>1, TextsAlways, PTL

(* A modifier reads what was passed, although its own text moved or got a  *)
(* new array, for every argument that is out of the way of the moves.      *)
THEOREM ArgumentsIntactHolds ==
  ASSUME ~StaleViews
  PROVE  Spec => []ArgumentsIntact
<1>1. Owned /\ Texts => ArgumentsIntact
  BY Zenon DEF Texts, Arguments, Unread, Holds, ArgumentsIntact
<1> QED
  BY <1>1, TextsAlways, PTL

(* A modifier that throws has changed nothing, set_scheme included, which  *)
(* changes the path before it resizes the scheme.                          *)
THEOREM StrongGuaranteeHolds ==
  ASSUME ~StaleViews
  PROVE  Spec => []StrongGuarantee
<1>1. Owned /\ Texts => StrongGuarantee
  BY DEF Texts, Unchanged, StrongGuarantee
<1> QED
  BY <1>1, TextsAlways, PTL

(* A copy equals its source, the url's own text through a view included,   *)
(* when the view is up to date.                                            *)
THEOREM CopyHoldsSourceHolds ==
  ASSUME ~StaleViews
  PROVE  Spec => []CopyHoldsSource
<1>1. Owned /\ Texts => CopyHoldsSource
  BY DEF Texts
<1> QED
  BY <1>1, TextsAlways, PTL

(* A modifier changes the text of no other url.                            *)
THEOREM OthersUntouchedHolds ==
  ASSUME ~StaleViews
  PROVE  Spec => OthersUntouched
<1> DEFINE A == step # "idle" => \A x \in Urls : x # who => UrlText(x)' = UrlText(x)
<1>1. Owned /\ [Next]_vars => [A]_vars
  <2> SUFFICES ASSUME Owned, Next, step # "idle", NEW x \in Urls, x # who
               PROVE  UrlText(x)' = UrlText(x)
    BY DEF vars
  <2>1. DoReserve \/ DropDot \/ Move \/ (\E c \in Chars \ {Nul} : Write(c)) \/ CopyText \/ Cleanup
    BY DEF Next, Calls
  <2>2. s_[x] # Null => s_[x] \in live /\ s_[x] # s_[who] /\ s_[x] \in Buffers
    BY DEF Owned, OwnedOnce, TypeOK
  <2>3. CASE DoReserve
    <3>1. \/ UNCHANGED <<url, heap>>
          \/ \E b \in Buffers \ live : FirstAllocation(b, Asked) \/ Reallocation(b, Asked)
      BY <2>3, Zenon DEF DoReserve, reserve_impl, Fits, Throw
    <3>2. s_'[x] = s_[x] /\ size'[x] = size[x]
      BY <3>1, ModifierTypes DEF FirstAllocation, Reallocation, Allocate, url
    <3>3. s_[x] # Null => mem'[s_[x]] = mem[s_[x]]
      BY <2>2, <3>1, ModifierTypes DEF FirstAllocation, Reallocation, heap
    <3> QED
      BY <3>2, <3>3, Zenon DEF UrlText
  <2>4. CASE DropDot \/ Move \/ CopyText
    <3>1. s_'[x] = s_[x] /\ size'[x] = size[x]
      BY <2>4, ModifierTypes DEF DropDot, Move, CopyText, op_move
    <3>2. s_[x] # Null => mem'[s_[x]] = mem[s_[x]]
      BY <2>2, <2>4, ModifierTypes DEF DropDot, Move, CopyText, op_move
    <3> QED
      BY <3>1, <3>2, Zenon DEF UrlText
  <2>5. CASE (\E c \in Chars \ {Nul} : Write(c)) \/ Cleanup
    <3>1. s_'[x] = s_[x] /\ size'[x] = size[x]
      BY <2>5 DEF Write, Cleanup, url
    <3>2. s_[x] # Null => mem'[s_[x]] = mem[s_[x]]
      BY <2>2, <2>5, ModifierTypes DEF Write, Cleanup
    <3> QED
      BY <3>1, <3>2, Zenon DEF UrlText
  <2> QED
    BY <2>1, <2>3, <2>4, <2>5
<1> QED
  BY <1>1, OwnedAlways, PTL DEF OthersUntouched, Spec

=============================================================================
