---------------------------- MODULE MCUrlBuffer ----------------------------
EXTENDS UrlBuffer, TLC

CONSTANTS u1, u2, b0, b1, b2, v1

(* One literal, with two characters that differ. *)
Letters == [i \in 0 .. MaxSize |-> IF i % 2 = 0 THEN "x" ELSE "y"]

(* Urls are alike, and so are arrays. *)
Alike == Permutations(Urls) \union Permutations(Buffers \ {Literal})

(* States differ only in what can still be read: a view's impl_ when it is *)
(* up to date (StaleViews = FALSE), and between calls the texts.  During a *)
(* call, empty arguments and those of a literal, which nothing writes to,  *)
(* are all alike; and whether op_t was told of an argument matters while it*)
(* may move it.                                                            *)
Fresh == [v \in Views |-> vsize[v] = LiveSize(v)]

Moving(t) == step \in {"ahead", "drop", "resize", "move"} /\ t.buf = s_[who]

Read(k) ==
  IF arg[k].buf = Literal \/ arg[k].len = 0 THEN <<>>
  ELSE <<arg[k], given[k], Moving(arg[k]) /\ k \in told>>

Readable ==
  IF step # "idle"
  THEN <<url, vpi, Fresh, [b \in live |-> mem[b]], step, who, old,
         first, last, room, dot, before, source, [k \in Args |-> Read(k)]>>
  ELSE <<url, vpi, Fresh, [x \in Urls |-> UrlText(x)], live>>
=============================================================================
