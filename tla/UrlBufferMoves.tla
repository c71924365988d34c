--------------------------- MODULE UrlBufferMoves ---------------------------
(***************************************************************************)
(* The results on ownership and bounds of UrlBuffer; then what the arrays  *)
(* hold (terminators, arguments, copies), and the two steps of a modifier  *)
(* that move the url's own text: an argument from that text moves along.   *)
(***************************************************************************)
EXTENDS UrlBufferProofs

LEMMA WriteOwned ==
  ASSUME Owned, NEW c \in Chars, Write(c)
  PROVE  Owned'
<1>1. mem' \in [Buffers -> [Cells -> Chars]]
  BY ModifierTypes, Zenon DEF Write, fill
<1>2. TypeOK'
  BY <1>1 DEF Write, Owned, TypeOK, url, views, call, Steps
<1>3. OwnedOnce' /\ PointersAtHome' /\ Fitting'
  <2>1. OwnedOnce /\ PointersAtHome /\ Fitting
    BY DEF Owned
  <2>2. UNCHANGED <<s_, cap_, cs_, pi_, size, live, old>>
    BY DEF Write, url
  <2> QED
    <3>1. OwnedOnce'
      BY <2>1, <2>2 DEF OwnedOnce
    <3>2. PointersAtHome' /\ Fitting'
      BY <2>1, <2>2 DEF PointersAtHome, Fitting
    <3> QED
      BY <3>1, <3>2
<1>4. OldOnce'
  BY DEF Write, OldOnce
<1>5. Planned'
  BY DEF Write, Planned
<1> QED
  BY <1>2, <1>3, <1>4, <1>5 DEF Owned

LEMMA CopyTextOwned ==
  ASSUME Owned, CopyText
  PROVE  Owned'
<1>1. /\ source \in Urls \union Views /\ Owner(source) \in Urls
      /\ room > 0 /\ room = LiveSize(source) /\ room = OwnSize(source) /\ room <= cap_[who]
  BY ZenonT(40) DEF CopyText, Owned, Planned
<1>2. room \in Sizes /\ who \in Urls /\ cap_[who] \in Sizes
  BY ModifierTypes
<1>0. Fitting /\ PointersAtHome /\ MaxSize \in Nat /\ Null \notin Urls
  BY BufferAssumption DEF Owned
<1>3. s_[who] \in Buffers
  BY <1>0, <1>1, <1>2, ModifierTypes DEF Fitting, Sizes
<1>4. cs_[Owner(source)] \in Buffers
  <2>1. size[Owner(source)] > 0
    BY <1>0, <1>1 DEF LiveSize
  <2>2. s_[Owner(source)] # Null
    BY <1>0, <1>1, <2>1, ModifierTypes DEF Fitting, Sizes
  <2> QED
    BY <1>0, <1>1, <2>2, ModifierTypes DEF PointersAtHome
<1>5. mem' \in [Buffers -> [Cells -> Chars]]
  <2>1. memmove(mem[s_[who]], 0, mem[cs_[Owner(source)]], 0, room) \in [Cells -> Chars]
    BY <1>0, <1>2, <1>3, <1>4, ModifierTypes DEF memmove, Cells, Sizes
  <2>2. Nul \in Chars
    BY BufferAssumption
  <2>3. mem' = [mem EXCEPT ![s_[who]] =
                  [memmove(mem[s_[who]], 0, mem[cs_[Owner(source)]], 0, room) EXCEPT ![room] = Nul]]
    BY <1>1 DEF CopyText
  <2> QED
    BY <1>2, <2>1, <2>2, <2>3, ModifierTypes
<1>6. size' = [size EXCEPT ![who] = room]
  BY <1>1, ZenonT(40) DEF CopyText
<1>7. UNCHANGED <<s_, cap_, cs_, pi_, views, live, call, old, arg>> /\ step' = "copied"
  BY DEF CopyText
<1>8. TypeOK'
  <2>1. size' \in [Urls -> Sizes]
    BY <1>2, <1>6, ModifierTypes
  <2> QED
    BY <1>5, <1>7, <2>1 DEF Owned, TypeOK, views, call, Steps
<1>9. Fitting'
  BY <1>0, <1>1, <1>2, <1>6, <1>7, ModifierTypes DEF Fitting
<1>10. OwnedOnce'
  BY <1>7 DEF Owned, OwnedOnce
<1>11. PointersAtHome' /\ OldOnce' /\ Planned'
  BY <1>0, <1>7 DEF PointersAtHome, OldOnce, Planned
<1> QED
  BY <1>8, <1>9, <1>10, <1>11 DEF Owned

LEMMA CleanupOwned ==
  ASSUME Owned, Cleanup
  PROVE  Owned'
<1> USE BufferAssumption
<1>1. TypeOK'
  <2>1. NoArgs \in [Args -> [buf : Buffers, pos : Int, len : Sizes]]
    BY NoArgsType DEF Slice, Cells
  <2> QED
    <3>1. live' \subseteq Buffers /\ 0 \in Cells /\ 0 \in Sizes
      BY DEF Cleanup, deallocate, Owned, TypeOK, Cells, Sizes
    <3> QED
      BY <2>1, <3>1 DEF Cleanup, Owned, TypeOK, url, views, Steps
<1>2. OwnedOnce'
  <2>1. OwnedOnce /\ old' = Null /\ UNCHANGED s_ /\ live' = live \ {old}
    BY DEF Cleanup, deallocate, Owned, url
  <2> QED
    BY <2>1 DEF OwnedOnce
<1>3. PointersAtHome' /\ Fitting'
  BY DEF Cleanup, Owned, PointersAtHome, Fitting, url
<1>4. OldOnce' /\ Planned'
  BY DEF Cleanup, OldOnce, Planned
<1> QED
  BY <1>1, <1>2, <1>3, <1>4 DEF Owned

LEMMA NextOwned ==
  ASSUME ~StaleViews, Owned, [Next]_vars
  PROVE  Owned'
<1>1. CASE Calls
  <2>1. ASSUME NEW x \in Urls, NEW y \in Urls,
               MoveAssign(x, y) \/ MoveConstruct(x, y) \/ Swap(x, y)
        PROVE  Owned'
    BY <2>1, MoveOwned, SwapOwned
  <2>2. ASSUME NEW x \in Urls, Destroy(x) \/ Clear(x)
        PROVE  Owned'
    BY <2>2, DestroyOwned, ClearOwned
  <2>3. ASSUME NEW x \in Urls, NEW w \in Urls \union Views, Copy(x, w) \/ CopyEmpty(x, w)
        PROVE  Owned'
    BY <2>3, CopyOwned, ClearOwned DEF CopyEmpty
  <2> QED
    BY <1>1, <2>1, <2>2, <2>3, ViewOwned, ReplaceOwned, SetSchemeOwned, ReserveOwned DEF Calls
<1>2. CASE UNCHANGED vars
  <2> USE <1>2 DEF vars, url, views, heap, call
  <2>1. TypeOK' /\ OwnedOnce'
    BY DEF Owned, TypeOK, OwnedOnce
  <2>2. PointersAtHome' /\ OldOnce' /\ Fitting'
    BY Zenon DEF Owned, PointersAtHome, OldOnce, Fitting
  <2>3. Planned'
    BY DEF Owned, Planned, AheadSize, NewSize, Owner, OwnSize, LiveSize
  <2> QED
    BY <2>1, <2>2, <2>3 DEF Owned
<1> QED
  BY <1>1, <1>2, DoReserveOwned, DropDotOwned, MoveStepOwned, WriteOwned, CopyTextOwned,
     CleanupOwned DEF Next

LEMMA OwnedAlways ==
  ASSUME ~StaleViews
  PROVE  Spec => []Owned
<1>1. Init => Owned
  BY InitOwned
<1>2. Owned /\ [Next]_vars => Owned'
  BY NextOwned
<1> QED
  BY <1>1, <1>2, PTL DEF Spec

(***************************************************************************)
(* The results.                                                            *)
(***************************************************************************)
(* Every variable of the urls, the views and the modifier has its type: no *)
(* size or capacity exceeds max_size().                                    *)
THEOREM TypeOKHolds ==
  ASSUME ~StaleViews
  PROVE  Spec => []TypeOK
<1>1. Owned => TypeOK
  BY DEF Owned
<1> QED
  BY <1>1, OwnedAlways, PTL

(* No array is leaked, freed twice, shared or used after delete[], whatever*)
(* is moved, swapped, copied, reserved or replaced, and also when an       *)
(* allocation fails.                                                       *)
THEOREM OwnedOnceHolds ==
  ASSUME ~StaleViews
  PROVE  Spec => []OwnedOnce
<1>1. Owned => OwnedOnce
  BY DEF Owned
<1> QED
  BY <1>1, OwnedAlways, PTL

(* impl_.cs_ and pi_ of a url always refer to the url itself. *)
THEOREM PointersAtHomeHolds ==
  ASSUME ~StaleViews
  PROVE  Spec => []PointersAtHome
<1>1. Owned => PointersAtHome
  BY DEF Owned
<1> QED
  BY <1>1, OwnedAlways, PTL

(***************************************************************************)
(* What the arrays hold.                                                   *)
(***************************************************************************)

Terminated == \A x \in Urls : s_[x] # Null => mem[s_[x]][size[x]] = Nul

(* The steps at which the arguments have not been read yet. *)
Unread == {"ahead", "drop", "resize", "move", "write"}

(* The argument k is out of the way of the move of the tail; dot is where  *)
(* "./" is still to be dropped.                                            *)
Aside(k) ==
  \/ arg[k].pos + arg[k].len <= first
  \/ first <= arg[k].pos /\ arg[k].pos + arg[k].len <= last /\ arg[k].pos + arg[k].len <= first + room
  \/ last <= arg[k].pos /\ k \in told

AsideDot(k) ==
  \/ arg[k].pos + arg[k].len <= first
  \/ first <= arg[k].pos /\ arg[k].pos + arg[k].len <= last /\ arg[k].pos + arg[k].len <= first + room
  \/ last <= arg[k].pos /\ k \in told /\ (arg[k].pos + arg[k].len <= dot \/ dot + 2 <= arg[k].pos)

(* An argument that is not empty and lies in the url's own array. *)
Own(t) == t.buf = s_[who] /\ t.len > 0

(* An argument still holds what was passed, and what the modifier has yet  *)
(* to move leaves it so.                                                   *)
Holds(k) ==
  /\ arg[k].buf \in live
  /\ 0 <= arg[k].pos
  /\ given[k] = Text(mem[arg[k].buf], arg[k].pos, arg[k].len)
  /\ step # "write" /\ Own(arg[k]) => arg[k].pos + arg[k].len <= size[who]
  /\ step = "ahead" => OutOfTheWay(who, first, last, room, dot, k, arg, told)
  /\ step = "drop" /\ Own(arg[k]) => AsideDot(k)
  /\ step = "resize" /\ dot = Null => OutOfTheWay(who, first, last, room, Null, k, arg, told)
  /\ step = "resize" /\ dot # Null /\ Own(arg[k]) => Aside(k)
  /\ step = "move" /\ Own(arg[k]) => Aside(k)

Arguments == step \in Unread => \A k \in Args : Holds(k)

(* Nothing has changed while an exception can still be thrown. *)
Unchanged ==
  step \in {"ahead", "keep", "duplicate", "thrown"} \/ (step = "resize" /\ dot = Null)
    => before = UrlText(who)

Texts == Terminated /\ Arguments /\ Unchanged /\ CopyHoldsSource

------------------------------------------------------------------------------
(* What op_t::move does to the cells, and to the arguments.                *)
LEMMA MovedCells ==
  ASSUME Owned, s_[who] # Null, NEW dest \in Int, NEW src \in Int,
         0 <= dest, 0 <= src, src <= size[who], size[who] + dest - src <= MaxSize,
         op_move(dest, src)
  PROVE  /\ \A b \in Buffers : b # s_[who] => mem'[b] = mem[b]
         /\ \A i \in Cells : i < dest => mem'[s_[who]][i] = mem[s_[who]][i]
         /\ \A i \in src .. size[who] :
              mem'[s_[who]][i + dest - src] = mem[s_[who]][i]
<1> USE BufferAssumption
<1>1. s_[who] \in Buffers /\ size[who] \in Sizes
  BY DEF Owned, TypeOK
<1>2. mem'[s_[who]] = memmove(mem[s_[who]], dest, mem[s_[who]], src, size[who] + 1 - src)
  BY <1>1 DEF op_move, Owned, TypeOK
<1>3. \A b \in Buffers : b # s_[who] => mem'[b] = mem[b]
  BY DEF op_move, Owned, TypeOK
<1>4. \A i \in Cells : i < dest => mem'[s_[who]][i] = mem[s_[who]][i]
  BY <1>2 DEF memmove, Cells
<1>5. ASSUME NEW i \in src .. size[who]
      PROVE  mem'[s_[who]][i + dest - src] = mem[s_[who]][i]
  <2>1. i + dest - src \in Cells /\ dest <= i + dest - src /\ i + dest - src < dest + (size[who] + 1 - src)
    BY <1>1 DEF Cells, Sizes
  <2>2. (i + dest - src) - dest + src = i
    BY <1>1 DEF Sizes
  <2> QED
    BY <1>2, <2>1, <2>2 DEF memmove
<1> QED
  BY <1>3, <1>4, <1>5

LEMMA MovedTerminated ==
  ASSUME Owned, Texts, s_[who] # Null, NEW dest \in Int, NEW src \in Int,
         0 <= dest, 0 <= src, src <= size[who], size[who] + dest - src <= MaxSize,
         op_move(dest, src), UNCHANGED s_
  PROVE  Terminated'
<1>1. size[who] \in Sizes /\ who \in Urls
  BY DEF Owned, TypeOK
<1>2. mem'[s_[who]][size[who] + dest - src] = Nul
  BY <1>1, MovedCells DEF Texts, Terminated, Sizes
<1>3. \A x \in Urls : x # who /\ s_[x] # Null => s_[x] # s_[who] /\ s_[x] \in Buffers
  BY <1>1 DEF Owned, OwnedOnce, TypeOK
<1>4. \A x \in Urls : size'[x] = IF x = who THEN size[who] + dest - src ELSE size[x]
  BY DEF op_move, Owned, TypeOK
<1>5. \A b \in Buffers : b # s_[who] => mem'[b] = mem[b]
  BY MovedCells, Zenon
<1>6. ASSUME NEW x \in Urls, s_'[x] # Null
      PROVE  mem'[s_'[x]][size'[x]] = Nul
  <2>1. CASE x = who
    BY <1>1, <1>2, <1>4, <2>1
  <2>2. CASE x # who
    <3>1. mem[s_[x]][size[x]] = Nul
      BY <1>6 DEF Texts, Terminated
    <3> QED
      BY <1>3, <1>4, <1>5, <1>6, <2>2, <3>1
  <2> QED
    BY <2>1, <2>2
<1> QED
  BY <1>6 DEF Terminated

SameCells(m, p, n, q, l) == \A i \in 0 .. l - 1 : m[p + i] = n[q + i]

(* The same cells, maybe at another place, are the same text.              *)
LEMMA SameText ==
  ASSUME NEW m, NEW n, NEW p, NEW q, NEW l, SameCells(m, p, n, q, l)
  PROVE  Text(m, p, l) = Text(n, q, l)
BY DEF Text, SameCells

LEMMA Behind ==
  ASSUME NEW p \in Int, NEW l \in Int, NEW z \in Int, NEW src \in Int,
         NEW i \in 0 .. l - 1, src <= p, p + l <= z
  PROVE  p + i \in src .. z
OBVIOUS

LEMMA InFront ==
  ASSUME NEW p \in Int, NEW l \in Int, NEW z \in Int, NEW dest \in Int,
         NEW i \in 0 .. l - 1, 0 <= p, p + l <= dest, p + l <= z, z <= MaxSize
  PROVE  p + i \in Cells /\ p + i < dest
BY BufferAssumption DEF Cells

(* There is room for the cells from src on to move to dest. *)
Movable(dest, src) ==
    /\ s_[who] # Null
    /\ 0 <= dest /\ 0 <= src /\ src <= size[who] /\ size[who] + dest - src <= MaxSize

(* The argument reads what it was given, on one side of what moves. *)
OnOneSide(k, dest, src) ==
    /\ arg[k].buf \in live /\ 0 <= arg[k].pos
    /\ given[k] = Text(mem[arg[k].buf], arg[k].pos, arg[k].len)
    /\ Own(arg[k]) => /\ arg[k].pos + arg[k].len <= size[who]
                      /\ \/ arg[k].pos + arg[k].len <= dest /\ arg[k].pos + arg[k].len <= src
                         \/ src <= arg[k].pos /\ k \in told

(* The argument still reads what it was given, maybe at another place. *)
MovedAlong(k, dest, src) ==
    /\ arg'[k].buf \in live' /\ 0 <= arg'[k].pos
    /\ given'[k] = Text(mem'[arg'[k].buf], arg'[k].pos, arg'[k].len)
    /\ arg'[k].len = arg[k].len /\ arg'[k].buf = arg[k].buf
    /\ Own(arg[k]) => arg'[k].pos = IF src <= arg[k].pos THEN arg[k].pos + dest - src ELSE arg[k].pos

(* An argument in front of what moves stays; one behind moves along.       *)
LEMMA MovedArgument ==
  ASSUME Owned, NEW dest \in Int, NEW src \in Int, Movable(dest, src),
         op_move(dest, src), UNCHANGED <<s_, live, who, given>>,
         NEW k \in Args, OnOneSide(k, dest, src)
  PROVE  MovedAlong(k, dest, src)
<1> DEFINE t == arg[k]
<1>1. /\ t.buf \in Buffers /\ t.pos \in Int /\ t.len \in Int /\ 0 <= t.len
      /\ size[who] \in Int /\ size[who] <= MaxSize /\ MaxSize \in Int
  <2>1. t \in [buf : Buffers, pos : Int, len : Sizes] /\ size[who] \in Sizes
    BY DEF Owned, TypeOK
  <2> QED
    BY <2>1, BufferAssumption DEF Sizes
<1>2. arg'[k] = IF k \in told /\ is_overlapping(t, src) THEN [t EXCEPT !.pos = @ + dest - src] ELSE t
  BY DEF Owned, TypeOK, op_move
<1>3. t.buf \in live /\ 0 <= t.pos /\ given[k] = Text(mem[t.buf], t.pos, t.len)
  BY Zenon DEF OnOneSide
<1>4. Own(t) => /\ t.pos + t.len <= size[who]
                /\ \/ t.pos + t.len <= dest /\ t.pos + t.len <= src
                   \/ src <= t.pos /\ k \in told
  BY Zenon DEF OnOneSide
<1>5. s_[who] # Null /\ 0 <= dest /\ 0 <= src /\ src <= size[who] /\ size[who] + dest - src <= MaxSize
  BY Zenon DEF Movable
<1>6. /\ \A b \in Buffers : b # s_[who] => mem'[b] = mem[b]
      /\ \A i \in Cells : i < dest => mem'[s_[who]][i] = mem[s_[who]][i]
      /\ \A i \in src .. size[who] :
           mem'[s_[who]][i + dest - src] = mem[s_[who]][i]
  BY <1>5, MovedCells
<1>7. SUFFICES /\ arg'[k].buf = t.buf /\ arg'[k].len = t.len /\ 0 <= arg'[k].pos
               /\ Text(mem'[t.buf], arg'[k].pos, t.len) = Text(mem[t.buf], t.pos, t.len)
               /\ Own(t) => arg'[k].pos = IF src <= t.pos THEN t.pos + dest - src ELSE t.pos
  <2>1. live' = live /\ given' = given
    OBVIOUS
  <2> QED
    BY <1>3, <1>7, <2>1, Zenon DEF MovedAlong
<1>8. ASSUME arg'[k] = t, SameCells(mem'[t.buf], t.pos, mem[t.buf], t.pos, t.len),
             Own(t) => ~(src <= t.pos)
      PROVE  /\ arg'[k].buf = t.buf /\ arg'[k].len = t.len /\ 0 <= arg'[k].pos
             /\ Text(mem'[t.buf], arg'[k].pos, t.len) = Text(mem[t.buf], t.pos, t.len)
             /\ Own(t) => arg'[k].pos = IF src <= t.pos THEN t.pos + dest - src ELSE t.pos
  <2>1. Text(mem'[t.buf], t.pos, t.len) = Text(mem[t.buf], t.pos, t.len)
    BY <1>8, SameText
  <2> QED
    BY <1>3, <1>8, <2>1, Zenon
<1>9. CASE t.buf # s_[who]
  <2>1. ~Own(t) /\ ~is_overlapping(t, src)
    BY <1>9, Zenon DEF Own, is_overlapping
  <2>2. SameCells(mem'[t.buf], t.pos, mem[t.buf], t.pos, t.len)
    <3>1. mem'[t.buf] = mem[t.buf]
      BY <1>1, <1>6, <1>9, Zenon
    <3> QED
      BY <3>1, Zenon DEF SameCells
  <2> QED
    BY <1>2, <1>8, <2>1, <2>2, Zenon
<1>10. CASE t.len = 0
  <2>1. arg'[k].len = 0 /\ arg'[k].buf = t.buf
    BY <1>1, <1>2, <1>10 DEF Owned, TypeOK
  <2>2. 0 <= arg'[k].pos
    BY <1>1, <1>2, <1>3, <1>5, <1>10 DEF Owned, TypeOK, is_overlapping
  <2>3. Text(mem'[t.buf], arg'[k].pos, 0) = Text(mem[t.buf], t.pos, 0)
    BY SameText DEF SameCells
  <2>4. ~Own(t)
    BY <1>10 DEF Own
  <2> QED
    BY <1>10, <2>1, <2>2, <2>3, <2>4, Zenon
<1>11. CASE t.buf = s_[who] /\ t.len # 0
  <2>0. Own(t)
    BY <1>1, <1>11 DEF Own
  <2>00. t.pos + t.len <= size[who]
    BY <1>4, <2>0, Zenon
  <2>1. CASE src <= t.pos
    <3>1. k \in told
      <4>1. ~(t.pos + t.len <= src)
        <5> HIDE DEF t
        <5> QED
          BY <1>1, <1>11, <2>1
      <4> QED
        BY <1>4, <2>0, <4>1, Zenon
    <3>2. src < t.pos + t.len /\ t.pos <= size[who]
      <4> HIDE DEF t
      <4> QED
        BY <1>1, <1>11, <2>00, <2>1
    <3>3. arg'[k] = [t EXCEPT !.pos = @ + dest - src]
      BY <1>2, <1>11, <3>1, <3>2, Zenon DEF is_overlapping
    <3>4. arg'[k].pos = t.pos + dest - src /\ arg'[k].len = t.len /\ arg'[k].buf = t.buf
      BY <3>3 DEF Owned, TypeOK
    <3>5. ASSUME NEW i \in 0 .. t.len - 1
          PROVE  mem'[t.buf][(t.pos + dest - src) + i] = mem[t.buf][t.pos + i]
      <4> HIDE DEF t
      <4>1. t.pos + i \in src .. size[who]
        BY <1>1, <2>00, <2>1, Behind, Zenon
      <4>2. (t.pos + i) + dest - src = (t.pos + dest - src) + i
        BY <1>1
      <4>3. mem'[s_[who]][(t.pos + i) + dest - src] = mem[s_[who]][t.pos + i]
        BY <1>6, <4>1, Zenon
      <4> QED
        BY <1>11, <4>2, <4>3, Zenon
    <3>6. SameCells(mem'[t.buf], arg'[k].pos, mem[t.buf], t.pos, t.len)
      BY <3>4, <3>5, ZenonT(40) DEF SameCells
    <3>7. Text(mem'[t.buf], arg'[k].pos, t.len) = Text(mem[t.buf], t.pos, t.len)
      BY <3>6, SameText
    <3>8. 0 <= t.pos + dest - src
      <4> HIDE DEF t
      <4> QED
        BY <1>1, <1>5, <2>1
    <3> QED
      BY <2>1, <3>4, <3>7, <3>8, Zenon
  <2>2. CASE ~(src <= t.pos)
    <3>1. t.pos + t.len <= dest /\ t.pos + t.len <= src
      BY <1>4, <2>0, <2>2, Zenon
    <3>2. ~(src < t.pos + t.len)
      <4> HIDE DEF t
      <4> QED
        BY <1>1, <3>1
    <3>3. arg'[k] = t
      BY <1>2, <3>2, Zenon DEF is_overlapping
    <3>4. ASSUME NEW i \in 0 .. t.len - 1
          PROVE  mem'[t.buf][t.pos + i] = mem[t.buf][t.pos + i]
      <4>1. t.pos + i \in Cells /\ t.pos + i < dest
        BY <1>1, <1>3, <2>00, <3>1, InFront, Zenon
      <4> QED
        BY <1>6, <1>11, <4>1, Zenon
    <3>5. SameCells(mem'[t.buf], t.pos, mem[t.buf], t.pos, t.len)
      BY <3>4, Zenon DEF SameCells
    <3> QED
      BY <1>8, <2>2, <3>3, <3>5, Zenon
  <2> QED
    BY <2>1, <2>2, Zenon
<1> QED
  BY <1>9, <1>10, <1>11, Zenon

LEMMA DropDotTexts ==
  ASSUME Owned, Texts, DropDot
  PROVE  Texts'
<1> USE BufferAssumption
<1>1. /\ dot \in Int /\ last <= dot /\ dot + 2 <= size[who] /\ first = 0 /\ 0 <= dot
      /\ size[who] \in Sizes /\ cap_[who] \in Sizes /\ last \in Cells /\ room \in Sizes
  BY DEF DropDot, Owned, Planned, TypeOK, Cells
<1>2. s_[who] # Null
  BY <1>1 DEF Owned, Fitting, TypeOK, Sizes
<1>3. 0 <= dot + 2 /\ dot + 2 \in Int /\ size[who] + dot - (dot + 2) <= MaxSize
  BY <1>1 DEF Sizes
<1>4. Terminated'
  BY <1>1, <1>2, <1>3, MovedTerminated DEF DropDot
<1>5. UNCHANGED <<s_, live, who, given, told, first, last, room, dot>> /\ size'[who] = size[who] - 2
  BY <1>1 DEF DropDot, call, op_move, Owned, TypeOK, Sizes
<1>6. ASSUME NEW k \in Args
      PROVE  Holds(k)'
  <2>1. Holds(k) /\ arg[k] \in [buf : Buffers, pos : Int, len : Sizes]
    BY DEF DropDot, Texts, Arguments, Unread, Owned, TypeOK
  <2>2. Own(arg[k]) => AsideDot(k) /\ arg[k].pos + arg[k].len <= size[who]
    BY <2>1 DEF Holds, DropDot
  <2>3. Own(arg[k]) => \/ arg[k].pos + arg[k].len <= dot /\ arg[k].pos + arg[k].len <= dot + 2
                       \/ dot + 2 <= arg[k].pos /\ k \in told
    BY <1>1, <2>1, <2>2 DEF AsideDot, Cells, Sizes
  <2>4. /\ arg'[k].buf \in live' /\ 0 <= arg'[k].pos
        /\ given'[k] = Text(mem'[arg'[k].buf], arg'[k].pos, arg'[k].len)
        /\ arg'[k].len = arg[k].len /\ arg'[k].buf = arg[k].buf
        /\ Own(arg[k]) => arg'[k].pos = IF dot + 2 <= arg[k].pos THEN arg[k].pos + dot - (dot + 2) ELSE arg[k].pos
    <3>0. PICK dest \in Int, src \in Int : dest = dot /\ src = dot + 2
      BY <1>1 DEF Sizes
    <3>1. op_move(dest, src)
      BY <3>0 DEF DropDot
    <3>2. Movable(dest, src)
      BY <1>1, <1>2, <1>3, <3>0 DEF Movable, Sizes
    <3>3. OnOneSide(k, dest, src)
      BY <2>1, <2>2, <2>3, <3>0, ZenonT(40) DEF Holds, OnOneSide
    <3>4. MovedAlong(k, dest, src)
      BY <1>5, <3>1, <3>2, <3>3, MovedArgument
    <3> QED
      BY <3>0, <3>4 DEF MovedAlong
  <2>5. Own(arg[k])' <=> Own(arg[k])
    BY <1>5, <2>4 DEF Own
  <2>6. Own(arg[k]) => arg'[k].pos + arg'[k].len <= size'[who]
    BY <1>1, <1>5, <2>1, <2>2, <2>3, <2>4 DEF Cells, Sizes
  <2>7. Own(arg[k]) => Aside(k)'
    BY <1>1, <1>5, <2>1, <2>2, <2>4 DEF Aside, AsideDot, Cells, Sizes
  <2>8. dot' # Null /\ step' = "resize" /\ who' = who
    <3>1. dot \in 0 .. MaxSize
      BY <1>1 DEF Sizes
    <3> QED
      BY <1>5, <3>1 DEF DropDot
  <2> QED
    BY <2>4, <2>5, <2>6, <2>7, <2>8, ZenonT(40) DEF Holds
<1>7. dot' # Null /\ step' = "resize"
  <2>1. dot \in 0 .. MaxSize
    BY <1>1 DEF Sizes
  <2> QED
    BY <1>5, <2>1 DEF DropDot
<1> QED
  BY <1>4, <1>6, <1>7 DEF Texts, Arguments, Unchanged, CopyHoldsSource

LEMMA MoveTexts ==
  ASSUME Owned, Texts, Move
  PROVE  Texts'
<1> USE BufferAssumption
<1>1. /\ first <= last /\ last <= size[who] /\ (room > 0 \/ first < last)
      /\ NewSize(who, first, last, room) <= cap_[who]
      /\ size[who] \in Sizes /\ cap_[who] \in Sizes /\ first \in Cells /\ last \in Cells /\ room \in Sizes
  BY DEF Move, Owned, Planned, TypeOK
<1>2. s_[who] # Null
  BY <1>1 DEF Owned, Fitting, TypeOK, NewSize, Cells, Sizes
<1>3. /\ first + room \in Int /\ 0 <= first + room /\ last \in Int /\ 0 <= last
      /\ size[who] + (first + room) - last <= MaxSize
  BY <1>1 DEF NewSize, Cells, Sizes
<1>4. Terminated'
  BY <1>1, <1>2, <1>3, MovedTerminated DEF Move
<1>5. UNCHANGED <<s_, live, who, given>>
  BY DEF Move, call
<1>6. ASSUME NEW k \in Args
      PROVE  Holds(k)'
  <2>1. Holds(k) /\ arg[k] \in [buf : Buffers, pos : Int, len : Sizes]
    BY DEF Move, Texts, Arguments, Unread, Owned, TypeOK
  <2>2. Own(arg[k]) => Aside(k) /\ arg[k].pos + arg[k].len <= size[who]
    BY <2>1, ZenonT(40) DEF Holds, Move
  <2>3. Own(arg[k]) => \/ arg[k].pos + arg[k].len <= first + room /\ arg[k].pos + arg[k].len <= last
                       \/ last <= arg[k].pos /\ k \in told
    BY <1>1, <2>1, <2>2 DEF Aside, Cells, Sizes
  <2>4. /\ arg'[k].buf \in live' /\ 0 <= arg'[k].pos
        /\ given'[k] = Text(mem'[arg'[k].buf], arg'[k].pos, arg'[k].len)
    <3>0. PICK dest \in Int : dest = first + room
      BY <1>3
    <3>1. op_move(dest, last)
      BY <3>0 DEF Move
    <3>2. Movable(dest, last)
      BY <1>1, <1>2, <1>3, <3>0 DEF Movable
    <3>3. OnOneSide(k, dest, last)
      BY <2>1, <2>2, <2>3, <3>0, ZenonT(40) DEF Holds, OnOneSide
    <3>4. MovedAlong(k, dest, last)
      BY <1>3, <1>5, <3>1, <3>2, <3>3, MovedArgument, ZenonT(40)
    <3> QED
      BY <3>4 DEF MovedAlong
  <2> QED
    BY <2>4, ZenonT(40) DEF Holds, Move
<1> QED
  BY <1>4, <1>6 DEF Texts, Arguments, Unchanged, CopyHoldsSource, Move

=============================================================================
