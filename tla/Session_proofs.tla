--------------------------- MODULE Session_proofs ---------------------------
(* What holds of one headless command for every bound on its tape, its output  *)
(* and its deadline.                                                            *)
(*                                                                              *)
(* The driver is depth first, so what the session will still do is in agenda,   *)
(* and the arguments are about what it holds: any number of commands that       *)
(* change nothing and, among them, at most one that does (Carries). The plan's  *)
(* deferred apply is the one change that is owed without being in the agenda.   *)
EXTENDS Session, SequenceTheorems, TLAPS

-----------------------------------------------------------------------------
(* Agendas *)

\* One command c among others, all of S.
Carries(S, c, s) == \E u, v \in Seq(S) : s = u \o (<<c>> \o v)

\* Commands of S are put before others of S.
LEMMA Joined ==
    ASSUME NEW S, NEW s \in Seq(S), NEW t \in Seq(S)
    PROVE  s \o t \in Seq(S)
BY ConcatProperties

\* The sequence that carries c, and c, are of any set that has S and c.
LEMMA CarriedTyped ==
    ASSUME NEW S, NEW c, NEW s, Carries(S, c, s), NEW T, S \subseteq T, c \in T
    PROVE  s \in Seq(T)
<1>1. PICK u \in Seq(S), v \in Seq(S) : s = u \o (<<c>> \o v)
  BY DEF Carries
<1>2. u \in Seq(T) /\ v \in Seq(T) /\ <<c>> \in Seq(T)
  <2>1. u \in Seq(T)
    BY SeqMonotonic
  <2>2. v \in Seq(T)
    BY SeqMonotonic
  <2>3. <<c>> \in Seq(T)
    OBVIOUS
  <2>4. QED
    BY <2>1, <2>2, <2>3
<1>3. <<c>> \o v \in Seq(T)
  BY <1>2, Joined
<1>4. QED
  BY <1>1, <1>2, <1>3, Joined

\* The head of the first is the head of the whole.
LEMMA JoinedOpens ==
    ASSUME NEW S, NEW s \in Seq(S), NEW t \in Seq(S), s # <<>>
    PROVE  /\ s \o t # <<>>
           /\ Head(s \o t) = Head(s)
           /\ Tail(s \o t) = Tail(s) \o t
<1>1. Len(s) \in Nat \ {0} /\ Len(t) \in Nat
  BY EmptySeq, LenProperties
<1>2. /\ s \o t \in Seq(S)
      /\ Len(s \o t) = Len(s) + Len(t)
      /\ \A k \in 1..(Len(s) + Len(t)) : (s \o t)[k] = IF k <= Len(s) THEN s[k] ELSE t[k - Len(s)]
  BY ConcatProperties
<1>3. s \o t # <<>>
  BY <1>1, <1>2, EmptySeq
<1>4. /\ Tail(s) \in Seq(S) /\ Len(Tail(s)) = Len(s) - 1
      /\ \A k \in 1..Len(Tail(s)) : Tail(s)[k] = s[k + 1]
  BY HeadTailProperties
<1>5. /\ Tail(s \o t) \in Seq(S) /\ Len(Tail(s \o t)) = Len(s) + Len(t) - 1
      /\ \A k \in 1..Len(Tail(s \o t)) : Tail(s \o t)[k] = (s \o t)[k + 1]
  <2>1. /\ Tail(s \o t) \in Seq(S) /\ Len(Tail(s \o t)) = Len(s \o t) - 1
        /\ \A k \in 1..Len(Tail(s \o t)) : Tail(s \o t)[k] = (s \o t)[k + 1]
    BY <1>2, <1>3, HeadTailProperties
  <2>2. QED
    BY <1>2, <2>1
<1>6. /\ Tail(s) \o t \in Seq(S)
      /\ Len(Tail(s) \o t) = Len(s) - 1 + Len(t)
      /\ \A k \in 1..(Len(s) - 1 + Len(t)) :
            (Tail(s) \o t)[k] = IF k <= Len(s) - 1 THEN Tail(s)[k] ELSE t[k - (Len(s) - 1)]
  <2>1. /\ Tail(s) \o t \in Seq(S)
        /\ Len(Tail(s) \o t) = Len(Tail(s)) + Len(t)
        /\ \A k \in 1..(Len(Tail(s)) + Len(t)) :
              (Tail(s) \o t)[k] = IF k <= Len(Tail(s)) THEN Tail(s)[k] ELSE t[k - Len(Tail(s))]
    BY <1>4, ConcatProperties
  <2>2. QED
    BY <1>4, <2>1
<1>7. Tail(s \o t) = Tail(s) \o t
  <2> DEFINE a == Tail(s \o t)
             b == Tail(s) \o t
             n == Len(s) - 1 + Len(t)
  <2>1. a \in Seq(S) /\ b \in Seq(S) /\ Len(a) = n /\ Len(b) = n
    BY <1>1, <1>5, <1>6
  <2>2. \A k \in 1..n : a[k] = b[k]
    <3> SUFFICES ASSUME NEW k \in 1..n PROVE a[k] = b[k]
      OBVIOUS
    <3>1. a[k] = (s \o t)[k + 1]
      BY <1>1, <1>5
    <3>2. (s \o t)[k + 1] = IF k + 1 <= Len(s) THEN s[k + 1] ELSE t[k + 1 - Len(s)]
      BY <1>1, <1>2
    <3>3. b[k] = IF k <= Len(s) - 1 THEN Tail(s)[k] ELSE t[k - (Len(s) - 1)]
      BY <1>1, <1>6
    <3>4. k <= Len(s) - 1 => Tail(s)[k] = s[k + 1]
      BY <1>1, <1>4
    <3>5. k + 1 - Len(s) = k - (Len(s) - 1) /\ (k + 1 <= Len(s) <=> k <= Len(s) - 1)
      BY <1>1
    <3>6. QED
      BY <3>1, <3>2, <3>3, <3>4, <3>5
  <2> HIDE DEF a, b, n
  <2>3. a = b
    BY <2>1, <2>2, SeqEqual
  <2>4. QED
    BY <2>3 DEF a, b
<1>8. QED
  BY <1>1, <1>2, <1>3, <1>7

\* Commands of S before one that carries c, or after it, change nothing of that.
LEMMA CarriedBehind ==
    ASSUME NEW S, NEW c, NEW s, Carries(S, c, s), NEW t \in Seq(S)
    PROVE  Carries(S, c, t \o s)
<1>1. PICK u \in Seq(S), v \in Seq(S) : s = u \o (<<c>> \o v)
  BY DEF Carries
<1> DEFINE T == S \cup {c}
           x == <<c>> \o v
<1>2. u \in Seq(T) /\ v \in Seq(T) /\ t \in Seq(T) /\ <<c>> \in Seq(T)
  <2>1. S \subseteq T /\ c \in T
    OBVIOUS
  <2> HIDE DEF T
  <2>2. u \in Seq(T)
    BY <2>1, SeqMonotonic
  <2>3. v \in Seq(T)
    BY <2>1, SeqMonotonic
  <2>4. t \in Seq(T)
    BY <2>1, SeqMonotonic
  <2>5. <<c>> \in Seq(T)
    BY <2>1
  <2>6. QED
    BY <2>2, <2>3, <2>4, <2>5
<1>3. x \in Seq(T)
  BY <1>2, Joined
<1> HIDE DEF T, x
<1>4. (t \o u) \o x = t \o (u \o x)
  BY <1>2, <1>3, ConcatAssociative
<1>5. t \o u \in Seq(S)
  BY Joined
<1>6. t \o s = (t \o u) \o (<<c>> \o v)
  BY <1>1, <1>4 DEF x
<1>7. QED
  BY <1>5, <1>6 DEF Carries

(* Four lists joined from the left or from the right are the same.  Cat is \o,   *)
(* of which nothing but what is said here is used.                              *)
Cat(x, y)  == x \o y
Rejoins(S) == \A q, r, s, t \in S : Cat(Cat(q, Cat(r, s)), t) = Cat(q, Cat(r, Cat(s, t)))

\* However lists are joined.
LEMMA Rejoined == \A S : Rejoins(Seq(S))
<1> SUFFICES ASSUME NEW S PROVE Rejoins(Seq(S))
  OBVIOUS
<1>1. \A x, y, z \in Seq(S) : Cat(Cat(x, y), z) = Cat(x, Cat(y, z))
  BY ConcatAssociative DEF Cat
<1>2. \A x, y \in Seq(S) : Cat(x, y) \in Seq(S)
  BY ConcatProperties DEF Cat
<1>3. ASSUME NEW q \in Seq(S), NEW r \in Seq(S), NEW s \in Seq(S), NEW t \in Seq(S)
      PROVE  Cat(Cat(q, Cat(r, s)), t) = Cat(q, Cat(r, Cat(s, t)))
  <2>1. Cat(Cat(q, Cat(r, s)), t) = Cat(q, Cat(Cat(r, s), t))
    BY <1>1, <1>2
  <2>2. Cat(Cat(r, s), t) = Cat(r, Cat(s, t))
    BY <1>1
  <2>3. QED
    BY <2>1, <2>2
<1>4. QED
  BY <1>3 DEF Rejoins

\* A list that carries a command still carries it with harmless commands behind it.
LEMMA CarriedBefore ==
    ASSUME NEW S, NEW c, NEW s, Carries(S, c, s), NEW t \in Seq(S)
    PROVE  Carries(S, c, s \o t)
<1>1. PICK u \in Seq(S), v \in Seq(S) : s = u \o (<<c>> \o v)
  BY DEF Carries
<1> DEFINE T == S \cup {c}
           one == <<c>>
<1>2. u \in Seq(T) /\ v \in Seq(T) /\ t \in Seq(T) /\ one \in Seq(T)
  <2>1. S \subseteq T /\ c \in T
    OBVIOUS
  <2> HIDE DEF T
  <2>2. u \in Seq(T)
    BY <2>1, SeqMonotonic
  <2>3. v \in Seq(T)
    BY <2>1, SeqMonotonic
  <2>4. t \in Seq(T)
    BY <2>1, SeqMonotonic
  <2>5. one \in Seq(T)
    BY <2>1
  <2>6. QED
    BY <2>2, <2>3, <2>4, <2>5
<1> HIDE DEF T, one
<1>3. Cat(s, t) = Cat(u, Cat(one, Cat(v, t)))
  <2>1. Rejoins(Seq(T))
    BY Rejoined
  <2>2. Cat(Cat(u, Cat(one, v)), t) = Cat(u, Cat(one, Cat(v, t)))
    BY <1>2, <2>1 DEF Rejoins
  <2>3. s = Cat(u, Cat(one, v))
    BY <1>1 DEF Cat, one
  <2>4. QED
    BY <2>2, <2>3
<1>4. v \o t \in Seq(S)
  BY Joined
<1>5. s \o t = u \o (<<c>> \o (v \o t))
  BY <1>3 DEF Cat, one
<1>6. QED
  BY <1>4, <1>5 DEF Carries

\* What is run when the head of such an agenda is, and what it leaves.
LEMMA CarriedOpens ==
    ASSUME NEW S, NEW c, NEW s, Carries(S, c, s)
    PROVE  /\ s # <<>>
           /\ \/ Head(s) = c /\ Tail(s) \in Seq(S)
              \/ Head(s) \in S /\ Carries(S, c, Tail(s))
<1>1. PICK u \in Seq(S), v \in Seq(S) : s = u \o (<<c>> \o v)
  BY DEF Carries
<1> DEFINE T == S \cup {c}
           one == <<c>>
<1>2. u \in Seq(T) /\ v \in Seq(T) /\ one \in Seq(T)
  <2>1. S \subseteq T /\ c \in T
    OBVIOUS
  <2> HIDE DEF T
  <2>2. u \in Seq(T)
    BY <2>1, SeqMonotonic
  <2>3. v \in Seq(T)
    BY <2>1, SeqMonotonic
  <2>5. one \in Seq(T)
    BY <2>1
  <2>6. QED
    BY <2>2, <2>3, <2>5
<1>3. one # <<>> /\ Head(one) = c /\ Tail(one) = <<>>
  OBVIOUS
<1> HIDE DEF T, one
<1>4. one \o v \in Seq(T)
  BY <1>2, Joined
<1>5. one \o v # <<>> /\ Head(one \o v) = c /\ Tail(one \o v) = v
  <2>1. one \o v # <<>> /\ Head(one \o v) = Head(one) /\ Tail(one \o v) = Tail(one) \o v
    BY <1>2, <1>3, JoinedOpens
  <2>2. <<>> \o v = v
    BY <1>2, ConcatEmptySeq
  <2>3. QED
    BY <1>3, <2>1, <2>2
<1>6. CASE u = <<>>
  <2>1. s = one \o v
    <3>1. <<>> \o (one \o v) = one \o v
      BY <1>4, ConcatEmptySeq
    <3>2. QED
      BY <1>1, <1>6, <3>1 DEF one
  <2>2. QED
    BY <1>5, <2>1
<1>7. CASE u # <<>>
  <2>1. s # <<>> /\ Head(s) = Head(u) /\ Tail(s) = Tail(u) \o (<<c>> \o v)
    <3>1. /\ u \o (one \o v) # <<>> /\ Head(u \o (one \o v)) = Head(u)
          /\ Tail(u \o (one \o v)) = Tail(u) \o (one \o v)
      BY <1>2, <1>4, <1>7, JoinedOpens
    <3>2. QED
      BY <1>1, <3>1 DEF one
  <2>2. Head(u) \in S /\ Tail(u) \in Seq(S)
    BY <1>7, HeadTailProperties
  <2>3. Carries(S, c, Tail(s))
    BY <2>1, <2>2 DEF Carries
  <2>4. QED
    BY <2>1, <2>2, <2>3
<1>8. QED
  BY <1>6, <1>7

\* A sequence with the elements of two others, in order, is the two joined.
LEMMA JoinIs ==
    ASSUME NEW S, NEW s \in Seq(S), NEW t \in Seq(S), NEW r \in Seq(S),
           Len(r) = Len(s) + Len(t),
           \A k \in 1..Len(r) : r[k] = IF k <= Len(s) THEN s[k] ELSE t[k - Len(s)]
    PROVE  s \o t = r
<1> DEFINE x == s \o t
<1>1. /\ x \in Seq(S) /\ Len(x) = Len(r)
      /\ \A k \in 1..Len(r) : x[k] = IF k <= Len(s) THEN s[k] ELSE t[k - Len(s)]
  BY ConcatProperties
<1> HIDE DEF x
<1>2. x = r
  <2>1. \A k \in 1..Len(x) : x[k] = r[k]
    BY <1>1
  <2>2. QED
    BY <1>1, <2>1, SeqEqual
<1>3. QED
  BY <1>2 DEF x

\* The short agendas, put together.
LEMMA JoinShort ==
    ASSUME NEW c, NEW a, NEW b
    PROVE  /\ <<c>> \o <<a>> = <<c, a>>
           /\ <<c>> \o <<a, b>> = <<c, a, b>>
           /\ <<c, a>> \o <<b>> = <<c, a, b>>
<1> DEFINE T == {c, a, b}
<1>0. /\ <<c>> \in Seq(T) /\ <<a>> \in Seq(T) /\ <<b>> \in Seq(T) /\ <<a, b>> \in Seq(T)
      /\ <<c, a>> \in Seq(T) /\ <<c, a, b>> \in Seq(T)
  OBVIOUS
<1>1. <<c>> \o <<a>> = <<c, a>>
  <2>1. /\ Len(<<c, a>>) = Len(<<c>>) + Len(<<a>>)
        /\ \A k \in 1..Len(<<c, a>>) :
              <<c, a>>[k] = IF k <= Len(<<c>>) THEN <<c>>[k] ELSE <<a>>[k - Len(<<c>>)]
    OBVIOUS
  <2>2. QED
    BY <1>0, <2>1, JoinIs
<1>2. <<c>> \o <<a, b>> = <<c, a, b>>
  <2>1. /\ Len(<<c, a, b>>) = Len(<<c>>) + Len(<<a, b>>)
        /\ \A k \in 1..Len(<<c, a, b>>) :
              <<c, a, b>>[k] = IF k <= Len(<<c>>) THEN <<c>>[k] ELSE <<a, b>>[k - Len(<<c>>)]
    OBVIOUS
  <2>2. QED
    BY <1>0, <2>1, JoinIs
<1>3. <<c, a>> \o <<b>> = <<c, a, b>>
  <2>1. /\ Len(<<c, a, b>>) = Len(<<c, a>>) + Len(<<b>>)
        /\ \A k \in 1..Len(<<c, a, b>>) :
              <<c, a, b>>[k] = IF k <= Len(<<c, a>>) THEN <<c, a>>[k] ELSE <<b>>[k - Len(<<c, a>>)]
    OBVIOUS
  <2>2. QED
    BY <1>0, <2>1, JoinIs
<1>4. QED
  BY <1>1, <1>2, <1>3

\* The agendas the handlers write.
LEMMA Written ==
    ASSUME NEW S
    PROVE  /\ <<>> \in Seq(S)
           /\ \A a \in S : <<a>> \in Seq(S)
           /\ \A a, b \in S : <<a, b>> \in Seq(S)
           /\ \A a, b, d \in S : <<a, b, d>> \in Seq(S)
           /\ \A c : Carries(S, c, <<c>>)
           /\ \A c : \A a \in S : Carries(S, c, <<c, a>>)
           /\ \A c : \A a, b \in S : Carries(S, c, <<c, a, b>>)
           /\ \A c : \A a \in S : Carries(S, c, <<a, c>>)
           /\ \A c : \A a, b \in S : Carries(S, c, <<a, b, c>>)
<1>1. /\ <<>> \in Seq(S)
      /\ \A a \in S : <<a>> \in Seq(S)
      /\ \A a, b \in S : <<a, b>> \in Seq(S)
      /\ \A a, b, d \in S : <<a, b, d>> \in Seq(S)
  OBVIOUS
<1>0. \A c : <<c>> \o <<>> = <<c>>
  OBVIOUS
<1>2. ASSUME NEW c, NEW v \in Seq(S) PROVE Carries(S, c, <<c>> \o v)
  <2>1. v \in Seq(S \cup {c}) /\ <<c>> \in Seq(S \cup {c})
    BY SeqMonotonic
  <2>2. <<c>> \o v \in Seq(S \cup {c})
    BY <2>1, Joined
  <2>3. <<>> \o (<<c>> \o v) = <<c>> \o v
    BY <2>2, ConcatEmptySeq
  <2>4. QED
    BY <1>1, <2>3 DEF Carries
<1>3. ASSUME NEW c PROVE Carries(S, c, <<c>>)
  <2>1. Carries(S, c, <<c>> \o <<>>)
    BY <1>1, <1>2
  <2>2. QED
    BY <1>0, <2>1
<1>4. ASSUME NEW c, NEW a \in S PROVE Carries(S, c, <<c, a>>)
  <2>1. Carries(S, c, <<c>> \o <<a>>)
    BY <1>1, <1>2
  <2>2. QED
    BY <2>1, JoinShort
<1>5. ASSUME NEW c, NEW a \in S, NEW b \in S PROVE Carries(S, c, <<c, a, b>>)
  <2>1. Carries(S, c, <<c>> \o <<a, b>>)
    BY <1>1, <1>2
  <2>2. QED
    BY <2>1, JoinShort
<1>6. ASSUME NEW c, NEW a \in S PROVE Carries(S, c, <<a, c>>)
  <2>1. Carries(S, c, <<a>> \o <<c>>)
    BY <1>1, <1>3, CarriedBehind
  <2>2. QED
    BY <2>1, JoinShort
<1>7. ASSUME NEW c, NEW a \in S, NEW b \in S PROVE Carries(S, c, <<a, b, c>>)
  <2>1. Carries(S, c, <<a, b>> \o <<c>>)
    BY <1>1, <1>3, CarriedBehind
  <2>2. QED
    BY <2>1, JoinShort
<1>8. QED
  BY <1>1, <1>3, <1>4, <1>5, <1>6, <1>7

\* What is run when the head of commands of S is.
LEMMA HeadOfSeq ==
    ASSUME NEW S, NEW s \in Seq(S), s # <<>>
    PROVE  Head(s) \in S /\ Tail(s) \in Seq(S)
BY HeadTailProperties

\* A carrier of commands of S carries among those of any set that has them.
LEMMA CarriedWider ==
    ASSUME NEW S, NEW T, S \subseteq T, NEW c, NEW s, Carries(S, c, s)
    PROVE  Carries(T, c, s)
<1>1. PICK u \in Seq(S), v \in Seq(S) : s = u \o (<<c>> \o v)
  BY DEF Carries
<1>2. u \in Seq(T)
  BY SeqMonotonic
<1>3. v \in Seq(T)
  BY SeqMonotonic
<1>4. QED
  BY <1>1, <1>2, <1>3 DEF Carries

-----------------------------------------------------------------------------
(* Commands *)

\* Commands that ask for no change and lead to none.
Harmless == {"lines", "tick", "event", "stale", "deactivate", "requestApply", "workspace",
             "refused", "plan", "preview", "read"} \cup Prompts \cup Runners

\* The others: the start, and the commands whose run is a change, or leads to one.
Weighty == {"startup", "submit", "init", "autoApply", "apply"} \cup Mutations

\* The changes such a command leads to, a mutation going through n addresses.
Owes(c, n) ==
    CASE c \in Mutations             -> Repeat(c, n)
      [] c \in {"apply", "autoApply"} -> <<"apply">>
      [] c \in {"submit", "init"}     -> <<"init">>
      [] OTHER -> <<>>

\* What a live command has beside the one it is for: nothing here changes its
\* plugin, for an event of a plan out of date is sent only by verbs that ignore it.
Waits == {"lines", "tick"}
Minor(i) == Waits \cup {"event", "workspace"}
                  \cup (IF i.verb \in Runners \cup {"apply"} THEN {"stale"} ELSE {})

\* The command the start of a plugin leads to.
First(i) ==
    CASE i.verb = "plan"  -> {"plan"}
      [] i.verb = "apply" -> IF i.auto THEN {"apply"} ELSE {"preview"}
      [] i.verb = "init"  -> IF i.flags THEN {"submit"} ELSE {}
      [] i.verb \in StateCLI -> IF Refuses(i) THEN {"refused"} ELSE {"mutate"}
      [] i.verb \in Runners  -> {"mutate"}
      [] OTHER -> {"read"}

\* The commands that only wait, those that do no harm and those that can change something are
\* apart, and an operation is a plan, a read, an apply, an init or a mutation.
LEMMA CommandsApart ==
    /\ Waits \subseteq Harmless /\ \A i : Waits \subseteq Minor(i) /\ Minor(i) \subseteq Harmless
    /\ Harmless \cap Weighty = {}
    /\ Operations \subseteq {"plan", "preview", "read", "apply", "init"} \cup Mutations
    /\ Mutations = {"mutate", "edit"}
BY DEF Waits, Harmless, Weighty, Minor, Prompts, Runners, Mutations, Operations

-----------------------------------------------------------------------------
(* The plugins' handlers *)

Data    == {"none", "garbled", "clean", "changes", "listed", "rows", "valid", "invalid"}
Plugins == [status : Statuses, timer : BOOLEAN, data : Data,
            front : {"none", "list", "stream", "form", "result", "home"},
            channel : BOOLEAN, stale : BOOLEAN, pending : Applies \cup {"none"}]
Replies == (Data \ {"none"}) \cup {"failed"}

\* r is what a handler makes of q when nothing is deferred and nothing read.
Kept(q, r) == r \in Plugins /\ r.pending = q.pending /\ r.data = q.data

\* What is left of the plugin when a handler starts or stops its timer.
LEMMA PluginChanged ==
    ASSUME NEW q \in Plugins, NEW st \in Statuses
    PROVE  /\ Kept(q, Started(q, st)) /\ Started(q, st).status = st
           /\ Kept(q, Stopped(q, st)) /\ Stopped(q, st).status = st
           /\ Stopped(q, st).front = q.front
BY DEF Plugins, Started, Stopped, Kept

\* And when an answer is kept with it.
LEMMA PluginAnswered ==
    ASSUME NEW q \in Plugins, NEW st \in Statuses, NEW d \in Data
    PROVE  /\ Answered(q, st, d) \in Plugins
           /\ Answered(q, st, d).status = st /\ Answered(q, st, d).data = d
           /\ Answered(q, st, d).front = q.front /\ Answered(q, st, d).pending = q.pending
BY DEF Plugins, Stopped, Answered

\* A handler may change the frame, or the status alone.
LEMMA PluginMoved ==
    ASSUME NEW q \in Plugins
    PROVE  /\ \A f \in {"none", "list", "stream", "form", "result", "home"} :
                 Kept(q, [q EXCEPT !.front = f]) /\ [q EXCEPT !.front = f].front = f
                 /\ [q EXCEPT !.front = f].status = q.status
           /\ \A st \in Statuses :
                 Kept(q, [q EXCEPT !.status = st]) /\ [q EXCEPT !.status = st].status = st
BY DEF Plugins, Kept

\* A new plugin is a plugin.
LEMMA NewPluginTyped ==
    /\ NewPlugin \in Plugins /\ NewPlugin.data = "none" /\ NewPlugin.pending = "none"
    /\ NewPlugin.status = "Idle"
BY DEF NewPlugin, Plugins, Statuses, Data, Applies

\* The statuses and data the handlers name.
LEMMA Named ==
    /\ "Idle" \in Statuses /\ "Loading" \in Statuses /\ "Planning" \in Statuses
    /\ "Confirming" \in Statuses /\ "Done" \in Statuses /\ "Error" \in Statuses
    /\ "none" \in Data /\ "garbled" \in Data /\ "clean" \in Data /\ "changes" \in Data
BY DEF Statuses, Data

\* What the start of a plan or of an apply leaves of the plugin.
LEMMA RunTyped ==
    ASSUME NEW i, NEW q \in Plugins
    PROVE  /\ Kept(q, RunPlan(i, q)) /\ RunPlan(i, q).status = q.status
           /\ Kept(q, RunApply(q)) /\ RunApply(q).status = "Loading"
           /\ Kept(q, [Started(q, "Planning") EXCEPT !.front = "stream", !.channel = TRUE])
           /\ [Started(q, "Planning") EXCEPT !.front = "stream", !.channel = TRUE].status = "Planning"
<1>1. Kept(q, RunPlan(i, q)) /\ RunPlan(i, q).status = q.status
  BY DEF RunPlan, Plugins, Kept
<1>2. Kept(q, RunApply(q)) /\ RunApply(q).status = "Loading"
  BY DEF RunApply, Started, Plugins, Statuses, Kept
<1>3. /\ Kept(q, [Started(q, "Planning") EXCEPT !.front = "stream", !.channel = TRUE])
      /\ [Started(q, "Planning") EXCEPT !.front = "stream", !.channel = TRUE].status = "Planning"
  BY DEF Started, Plugins, Statuses, Kept
<1>4. QED
  BY <1>1, <1>2, <1>3

\* The parts of the command line the handlers look at.
LEMMA VerbTyped == \A i \in Inputs : /\ i.verb \in Verbs /\ i.json \in BOOLEAN /\ i.auto \in BOOLEAN
                                     /\ i.flags \in BOOLEAN /\ i.args \in 0..2
BY DEF Inputs, Flag

\* What was kept twice is kept.
LEMMA KeptAgain ==
    ASSUME NEW q, NEW r, NEW s, Kept(q, r), Kept(r, s)
    PROVE  Kept(q, s)
BY DEF Kept

\* The agendas of a start.
LEMMA Starts ==
    /\ \A c : /\ Carries(Waits, c, <<c>>) /\ Carries(Waits, c, <<c, "tick">>)
              /\ Carries(Waits, c, <<c, "lines", "tick">>)
              /\ Carries(Waits, c, <<c, "tick", "lines">>)
BY Written DEF Waits

\* The start of a plugin asks for at most one thing, the one its verb is for.
\* Only a refused "state <verb>" starts in error.
LEMMA ActivatedBy ==
    ASSUME NEW i, i.verb \in Verbs, i.auto \in BOOLEAN, i.flags \in BOOLEAN, NEW q \in Plugins,
           NEW s, s = Activated(i, q)
    PROVE  /\ Kept(q, s.p)
           /\ \/ First(i) = {} /\ s.then = <<>>
              \/ \E c \in First(i) : Carries(Waits, c, s.then)
<1>0. /\ Kept(q, Started(q, "Loading")) /\ Started(q, "Loading") \in Plugins
      /\ Kept(q, [q EXCEPT !.status = "Loading"]) /\ Kept(q, [q EXCEPT !.status = "Error"])
      /\ Kept(q, [q EXCEPT !.front = "form"]) /\ Kept(q, RunApply(q))
      /\ Kept(q, [Started(q, "Planning") EXCEPT !.front = "stream", !.channel = TRUE])
  <2>1. Kept(q, Started(q, "Loading")) /\ Started(q, "Loading") \in Plugins
    BY Named, PluginChanged DEF Kept
  <2>2. Kept(q, [q EXCEPT !.status = "Loading"]) /\ Kept(q, [q EXCEPT !.status = "Error"])
    BY Named, PluginMoved
  <2>3. Kept(q, [q EXCEPT !.front = "form"])
    BY PluginMoved
  <2>4. QED
    BY <2>1, <2>2, <2>3, RunTyped
<1>1. CASE i.verb = "plan"
  <2>1. s = PlanActivated(i, q)
    BY <1>1 DEF Activated, Runners, StateCLI
  <2>3. s.p = RunPlan(i, Started(q, "Loading"))
    BY <2>1 DEF PlanActivated, Then
  <2>4. s.then = <<"plan", "tick">> \/ s.then = <<"plan", "lines", "tick">>
    BY <2>1 DEF PlanActivated, Then
  <2>5. Carries(Waits, "plan", s.then)
    BY <2>4, Starts, Zenon
  <2>6. "plan" \in First(i)
    BY <1>1 DEF First, Runners, StateCLI
  <2>7. Kept(q, s.p)
    BY <1>0, <2>3, RunTyped, KeptAgain
  <2>8. QED
    BY <2>5, <2>6, <2>7
<1>2. CASE i.verb = "apply"
  <2>1. s = ApplyActivated(i, q)
    BY <1>2 DEF Activated, Runners, StateCLI
  <2>2. CASE i.auto
    <3>3. s.p = RunApply(q)
      BY <2>1, <2>2 DEF ApplyActivated, Then
    <3>4. s.then = <<"apply", "lines", "tick">>
      BY <2>1, <2>2 DEF ApplyActivated, Then
    <3>5. Carries(Waits, "apply", s.then)
      BY <3>4, Starts, Zenon
    <3>6. "apply" \in First(i)
      BY <1>2, <2>2 DEF First, Runners, StateCLI
    <3>7. Kept(q, s.p)
      BY <1>0, <3>3
    <3>8. QED
      BY <3>5, <3>6, <3>7
  <2>3. CASE ~i.auto
    <3>3. s.p = [Started(q, "Planning") EXCEPT !.front = "stream", !.channel = TRUE]
      BY <2>1, <2>3 DEF ApplyActivated, Then
    <3>4. s.then = <<"preview", "lines", "tick">>
      BY <2>1, <2>3 DEF ApplyActivated, Then
    <3>5. Carries(Waits, "preview", s.then)
      BY <3>4, Starts, Zenon
    <3>6. "preview" \in First(i)
      BY <1>2, <2>3 DEF First, Runners, StateCLI
    <3>7. Kept(q, s.p)
      BY <1>0, <3>3
    <3>8. QED
      BY <3>5, <3>6, <3>7
  <2>4. QED
    BY <2>2, <2>3
<1>3. CASE i.verb \in Runners
  <2>1. s = RunnerActivated(q)
    BY <1>3 DEF Activated, Runners, StateCLI
  <2>3. s.p = Started(q, "Loading")
    BY <2>1 DEF RunnerActivated, Then
  <2>4. s.then = <<"mutate", "tick">>
    BY <2>1 DEF RunnerActivated, Then
  <2>5. Carries(Waits, "mutate", s.then)
    BY <2>4, Starts, Zenon
  <2>6. "mutate" \in First(i)
    BY <1>3 DEF First, Runners, StateCLI
  <2>7. Kept(q, s.p)
    BY <1>0, <2>3
  <2>8. QED
    BY <2>5, <2>6, <2>7
<1>4. CASE i.verb = "init"
  <2>1. s = InitActivated(i, q)
    BY <1>4 DEF Activated, Runners, StateCLI
  <2>2. CASE i.flags
    <3>3. s.p = [q EXCEPT !.front = "form"]
      BY <2>1, <2>2 DEF InitActivated, Then
    <3>4. s.then = <<"submit">>
      BY <2>1, <2>2 DEF InitActivated, Then
    <3>5. Carries(Waits, "submit", s.then)
      BY <3>4, Starts, Zenon
    <3>6. "submit" \in First(i)
      BY <1>4, <2>2 DEF First, Runners, StateCLI
    <3>7. Kept(q, s.p)
      BY <1>0, <3>3
    <3>8. QED
      BY <3>5, <3>6, <3>7
  <2>3. CASE ~i.flags
    <3>3. s.p = [q EXCEPT !.front = "form"]
      BY <2>1, <2>3 DEF InitActivated, Then
    <3>4. s.then = <<>>
      BY <2>1, <2>3 DEF InitActivated, Then
    <3>5. First(i) = {}
      BY <1>4, <2>3 DEF First, Runners, StateCLI
    <3>7. Kept(q, s.p)
      BY <1>0, <3>3
    <3>8. QED
      BY <3>4, <3>5, <3>7
  <2>4. QED
    BY <2>2, <2>3
<1>5. CASE i.verb = "state"
  <2>1. s = StateActivated(i, q)
    BY <1>5 DEF Activated, Runners, StateCLI
  <2>3. s.p = Started(q, "Loading")
    BY <1>5, <2>1 DEF StateActivated, Then, Refuses, StateCLI
  <2>4. s.then = <<"read", "tick">>
    BY <1>5, <2>1 DEF StateActivated, Then, Refuses, StateCLI
  <2>5. Carries(Waits, "read", s.then)
    BY <2>4, Starts, Zenon
  <2>6. "read" \in First(i)
    BY <1>5 DEF First, Runners, StateCLI
  <2>7. Kept(q, s.p)
    BY <1>0, <2>3
  <2>8. QED
    BY <2>5, <2>6, <2>7
<1>6. CASE i.verb \in StateCLI
  <2>1. s = StateActivated(i, q) /\ i.verb # "state"
    BY <1>6 DEF Activated, Runners, StateCLI
  <2>2. CASE Refuses(i)
    <3>3. s.p = [q EXCEPT !.status = "Error"]
      BY <2>1, <2>2 DEF StateActivated, Then
    <3>4. s.then = <<"refused">>
      BY <2>1, <2>2 DEF StateActivated, Then
    <3>5. Carries(Waits, "refused", s.then)
      BY <3>4, Starts, Zenon
    <3>6. "refused" \in First(i)
      BY <1>6, <2>2 DEF First, Runners, StateCLI
    <3>7. Kept(q, s.p)
      BY <1>0, <3>3
    <3>8. QED
      BY <3>5, <3>6, <3>7
  <2>3. CASE ~Refuses(i)
    <3>3. s.p = [q EXCEPT !.status = "Loading"]
      BY <2>1, <2>3 DEF StateActivated, Then
    <3>4. s.then = <<"mutate">>
      BY <2>1, <2>3 DEF StateActivated, Then
    <3>5. Carries(Waits, "mutate", s.then)
      BY <3>4, Starts, Zenon
    <3>6. "mutate" \in First(i)
      BY <1>6, <2>3 DEF First, Runners, StateCLI
    <3>7. Kept(q, s.p)
      BY <1>0, <3>3
    <3>8. QED
      BY <3>5, <3>6, <3>7
  <2>4. QED
    BY <2>2, <2>3
<1>7. CASE i.verb \in {"validate", "output", "version"}
  <2>1. s = ReaderActivated(i, q)
    BY <1>7 DEF Activated, Runners, StateCLI
  <2>3. s.p = [q EXCEPT !.status = "Loading"] \/ s.p = Started(q, "Loading")
    BY <2>1 DEF ReaderActivated, Then
  <2>4. s.then = <<"read">> \/ s.then = <<"read", "tick">>
    BY <2>1 DEF ReaderActivated, Then
  <2>5. Carries(Waits, "read", s.then)
    BY <2>4, Starts, Zenon
  <2>6. "read" \in First(i)
    BY <1>7 DEF First, Runners, StateCLI
  <2>7. Kept(q, s.p)
    BY <1>0, <2>3
  <2>8. QED
    BY <2>5, <2>6, <2>7
<1>8. QED
  BY <1>1, <1>2, <1>3, <1>4, <1>5, <1>6, <1>7 DEF Verbs

\* What an answer of terraform, or of the service that records, leads to: no
\* change but the deferred apply, which a replan with changes fires; of a live
\* command, nothing that moves its plugin. A failure leaves what was read before,
\* and only a plan that cannot be read fails otherwise.
LEMMA AnsweredBy ==
    ASSUME NEW i, i.verb \in Verbs, NEW q \in Plugins,
           NEW op \in Operations, NEW answer \in Replies,
           op = "preview" => answer \in {"failed", "clean", "changes"},
           NEW s, s = Answer(i, q, op, answer)
    PROVE  /\ s.p \in Plugins
           /\ op # "plan" => s.p.pending = q.pending
           /\ op = "plan" => s.p.pending = "none"
           /\ s.p.data = "changes" => q.data = "changes" \/ answer = "changes"
           /\ op = "plan" /\ q.pending = "autoApply" /\ answer = "changes" /\ ~i.json =>
                 s.then = <<"event", "event", "autoApply">>
           /\ ~(op = "plan" /\ q.pending = "autoApply") => s.then \in Seq(Harmless)
           /\ op # "edit" /\ q.pending = "none" /\ (op = "apply" => i.verb = "apply") =>
                 s.then \in Seq(Minor(i))
           /\ answer = "failed" => s.p.status = "Error" /\ s.p.data = q.data
           /\ op = "plan" /\ answer = "garbled" => s.p.status = "Error"
           /\ op = "plan" /\ answer \notin {"failed", "garbled"} =>
                 s.p.status = "Done" /\ s.p.data = answer
           /\ op \notin {"plan", "preview", "edit"} /\ answer # "failed" => s.p.status = "Done"
           /\ op = "init" => s.p.front = q.front
<1>h. /\ <<>> \in Seq(Harmless) /\ <<"event">> \in Seq(Harmless)
      /\ <<"event", "event">> \in Seq(Harmless) /\ <<"event", "event", "requestApply">> \in Seq(Harmless)
      /\ <<"stale">> \in Seq(Harmless) /\ <<"stale", "event">> \in Seq(Harmless)
      /\ <<"event", "stale">> \in Seq(Harmless) /\ <<"read", "tick">> \in Seq(Harmless)
  <2>1. {"event", "requestApply", "stale", "read", "tick"} \subseteq Harmless
    BY DEF Harmless
  <2>2. QED
    BY <2>1, Written
<1>m. /\ <<>> \in Seq(Minor(i)) /\ <<"event">> \in Seq(Minor(i))
      /\ <<"event", "event">> \in Seq(Minor(i))
      /\ i.verb \in Runners \cup {"apply"} =>
            /\ <<"stale">> \in Seq(Minor(i)) /\ <<"stale", "event">> \in Seq(Minor(i))
            /\ <<"event", "stale">> \in Seq(Minor(i))
  <2>1. "event" \in Minor(i) /\ (i.verb \in Runners \cup {"apply"} => "stale" \in Minor(i))
    BY DEF Minor
  <2>2. QED
    BY <2>1, Written
<1>d. answer # "failed" => answer \in Data
  BY DEF Replies
<1>1. CASE op = "plan"
  <2> DEFINE r == [q EXCEPT !.front = "list", !.pending = "none"]
  <2>1. s = PlanAnswered(i, q, answer)
    BY <1>1 DEF Answer
  <2>r. r \in Plugins
    BY DEF Plugins, Applies
  <2>2. r \in Plugins /\ r.data = q.data /\ r.pending = "none"
    BY DEF Plugins, Applies
  <2>3. CASE answer = "failed"
    <3>1. s.p = Stopped(r, "Error") /\ s.then = <<"event">>
      BY <2>1, <2>3 DEF PlanAnswered, Then
    <3> HIDE DEF r
    <3>2. Kept(r, Stopped(r, "Error")) /\ Stopped(r, "Error").status = "Error"
      BY <2>2, Named, PluginChanged
    <3>3. s.p \in Plugins /\ s.p.status = "Error" /\ s.p.data = q.data /\ s.p.pending = "none"
      BY <2>2, <3>1, <3>2 DEF Kept
    <3>4. QED
      BY <1>1, <1>h, <1>m, <2>3, <3>1, <3>3
  <2>4. CASE answer = "garbled"
    <3>1. s.p = Answered(r, "Error", "garbled") /\ s.then = <<>>
      BY <2>1, <2>4 DEF PlanAnswered, Then
    <3> HIDE DEF r
    <3>a. /\ Answered(r, "Error", "garbled") \in Plugins
          /\ Answered(r, "Error", "garbled").status = "Error"
          /\ Answered(r, "Error", "garbled").data = "garbled"
          /\ Answered(r, "Error", "garbled").pending = r.pending
      BY <2>r, Named, PluginAnswered
    <3>2. /\ s.p \in Plugins /\ s.p.status = "Error" /\ s.p.data = "garbled"
          /\ s.p.pending = "none"
      BY <2>2, <3>1, <3>a
    <3>3. QED
      BY <1>1, <1>h, <1>m, <2>4, <3>1, <3>2
  <2>5. CASE answer \notin {"failed", "garbled"}
    <3>1. /\ s.p = Answered(r, "Done", answer)
          /\ s.then = IF i.json THEN <<>>
                      ELSE IF q.pending # "none" /\ answer = "changes"
                           THEN <<"event", "event", q.pending>>
                           ELSE <<"event", "event">>
      BY <2>1, <2>5 DEF PlanAnswered, Then
    <3> HIDE DEF r
    <3>a. /\ Answered(r, "Done", answer) \in Plugins
          /\ Answered(r, "Done", answer).status = "Done"
          /\ Answered(r, "Done", answer).data = answer
          /\ Answered(r, "Done", answer).pending = r.pending
      BY <1>d, <2>5, <2>r, Named, PluginAnswered
    <3>2. s.p \in Plugins /\ s.p.status = "Done" /\ s.p.data = answer /\ s.p.pending = "none"
      BY <2>2, <3>1, <3>a
    <3>3. q.pending \in {"none", "requestApply", "autoApply"}
      BY DEF Plugins, Applies
    <3>4. q.pending # "autoApply" => s.then \in Seq(Harmless)
      BY <1>h, <3>1, <3>3
    <3>5. q.pending = "none" => s.then \in Seq(Minor(i))
      BY <1>m, <3>1
    <3>6. q.pending = "autoApply" /\ answer = "changes" /\ ~i.json =>
             s.then = <<"event", "event", "autoApply">>
      BY <3>1
    <3>7. QED
      BY <1>1, <2>5, <3>2, <3>4, <3>5, <3>6
  <2>6. QED
    BY <2>3, <2>4, <2>5
<1>2. CASE op = "preview"
  <2> DEFINE r == [q EXCEPT !.front = "none"]
  <2>1. s = PreviewAnswered(q, answer)
    BY <1>2 DEF Answer
  <2>2. r \in Plugins /\ r.data = q.data /\ r.pending = q.pending
    BY DEF Plugins
  <2>3. /\ \/ answer = "failed" /\ s.p = Stopped(r, "Error")
           \/ answer = "clean" /\ s.p = Answered(r, "Done", "clean")
           \/ answer = "changes" /\ s.p = Answered(r, "Confirming", "changes")
        /\ s.then = <<>>
    BY <1>2, <2>1 DEF PreviewAnswered, Then
  <2> HIDE DEF r
  <2>4. Kept(r, Stopped(r, "Error")) /\ Stopped(r, "Error").status = "Error"
    BY <2>2, Named, PluginChanged
  <2>5. /\ Answered(r, "Done", "clean") \in Plugins
        /\ Answered(r, "Done", "clean").data = "clean"
        /\ Answered(r, "Done", "clean").pending = r.pending
    BY <2>2, Named, PluginAnswered
  <2>6. /\ Answered(r, "Confirming", "changes") \in Plugins
        /\ Answered(r, "Confirming", "changes").pending = r.pending
    BY <2>2, Named, PluginAnswered
  <2>7. /\ s.p \in Plugins /\ s.p.pending = q.pending
        /\ s.p.data = "changes" => q.data = "changes" \/ answer = "changes"
        /\ answer = "failed" => s.p.status = "Error" /\ s.p.data = q.data
    BY <2>2, <2>3, <2>4, <2>5, <2>6 DEF Kept
  <2>8. QED
    BY <1>2, <1>h, <1>m, <2>3, <2>7
<1>3. CASE op = "apply"
  <2> DEFINE r == [q EXCEPT !.front = "none"]
  <2>1. s = ApplyAnswered(q, answer)
    BY <1>3 DEF Answer
  <2>2. r \in Plugins /\ r.data = q.data /\ r.pending = q.pending
    BY DEF Plugins
  <2>3. \/ answer = "failed" /\ s.p = Stopped(r, "Error") /\ s.then = <<"event">>
        \/ answer # "failed" /\ s.p = Stopped(r, "Done") /\ s.then = <<"stale", "event">>
    BY <2>1 DEF ApplyAnswered, Then
  <2> HIDE DEF r
  <2>4. /\ Kept(r, Stopped(r, "Error")) /\ Stopped(r, "Error").status = "Error"
        /\ Kept(r, Stopped(r, "Done")) /\ Stopped(r, "Done").status = "Done"
    BY <2>2, Named, PluginChanged
  <2>5. /\ s.p \in Plugins /\ s.p.pending = q.pending /\ s.p.data = q.data
        /\ answer = "failed" => s.p.status = "Error"
        /\ answer # "failed" => s.p.status = "Done"
    BY <2>2, <2>3, <2>4 DEF Kept
  <2>6. s.then \in Seq(Harmless) /\ (i.verb = "apply" => s.then \in Seq(Minor(i)))
    BY <1>h, <1>m, <2>3
  <2>7. QED
    BY <1>3, <2>5, <2>6
<1>4. CASE op \in {"init", "read", "mutate", "edit"}
  <2>1. \/ op # "edit" /\ s = InitAnswered(q, answer)
        \/ op = "mutate" /\ i.verb \in Runners /\ s = RunnerAnswered(i, q, answer)
        \/ op = "mutate" /\ s = CLIDone(q, answer)
        \/ op # "init" /\ s = StateListed(q, answer)
        \/ op = "edit" /\ answer # "failed" /\ s = StateRefreshed(q)
        \/ op = "read" /\ s = ReaderAnswered(q, answer)
    BY <1>4 DEF Answer, Runners, StateCLI, StateEdited
  <2>2. \/ /\ answer = "failed" /\ s.p = Stopped(q, "Error") /\ s.then = <<>>
        \/ /\ answer # "failed"
           /\ s.p = Stopped(q, "Done") \/ (op # "init" /\ s.p = Answered(q, "Done", answer))
           /\ \/ s.then \in {<<>>, <<"event">>}
              \/ i.verb \in Runners /\ s.then \in {<<"stale">>, <<"event", "stale">>}
        \/ /\ answer # "failed" /\ op = "edit" /\ s.then = <<"read", "tick">>
           /\ s.p = [Started(q, "Loading") EXCEPT !.data = "none"]
    BY <2>1 DEF InitAnswered, RunnerAnswered, CLIDone, StateListed, StateRefreshed, ReaderAnswered, Then
  <2>3. /\ Kept(q, Stopped(q, "Error")) /\ Stopped(q, "Error").status = "Error"
        /\ Stopped(q, "Error").front = q.front
        /\ Kept(q, Stopped(q, "Done")) /\ Stopped(q, "Done").status = "Done"
        /\ Stopped(q, "Done").front = q.front
        /\ Kept(q, Started(q, "Loading"))
    BY Named, PluginChanged
  <2>4. /\ [Started(q, "Loading") EXCEPT !.data = "none"] \in Plugins
        /\ [Started(q, "Loading") EXCEPT !.data = "none"].data = "none"
        /\ [Started(q, "Loading") EXCEPT !.data = "none"].pending = q.pending
    BY DEF Started, Plugins, Statuses, Data
  <2>5. answer # "failed" =>
           /\ Answered(q, "Done", answer) \in Plugins
           /\ Answered(q, "Done", answer).status = "Done"
           /\ Answered(q, "Done", answer).data = answer
           /\ Answered(q, "Done", answer).front = q.front
           /\ Answered(q, "Done", answer).pending = q.pending
    BY <1>d, Named, PluginAnswered
  <2>6. CASE answer = "failed"
    <3>1. s.p = Stopped(q, "Error") /\ s.then = <<>>
      BY <2>2, <2>6
    <3>2. QED
      BY <1>4, <1>h, <1>m, <2>3, <2>6, <3>1 DEF Kept
  <2>7. CASE answer # "failed" /\ s.p = [Started(q, "Loading") EXCEPT !.data = "none"]
             /\ op = "edit" /\ s.then = <<"read", "tick">>
    BY <1>h, <2>4, <2>7
  <2>8. CASE /\ answer # "failed"
             /\ s.p = Stopped(q, "Done") \/ (op # "init" /\ s.p = Answered(q, "Done", answer))
             /\ \/ s.then \in {<<>>, <<"event">>}
                \/ i.verb \in Runners /\ s.then \in {<<"stale">>, <<"event", "stale">>}
    <3>1. s.then \in Seq(Harmless) /\ s.then \in Seq(Minor(i))
      BY <1>h, <1>m, <2>8
    <3>2. /\ s.p \in Plugins /\ s.p.pending = q.pending /\ s.p.status = "Done"
          /\ s.p.data = "changes" => q.data = "changes" \/ answer = "changes"
          /\ s.p.front = q.front
      BY <2>3, <2>5, <2>8 DEF Kept
    <3>3. QED
      BY <1>4, <2>8, <3>1, <3>2
  <2>9. QED
    BY <2>2, <2>6, <2>7, <2>8
<1>5. QED
  BY <1>1, <1>2, <1>3, <1>4 DEF Operations

\* The init form's submission.
LEMMA SubmittedBy ==
    ASSUME NEW q \in Plugins
    PROVE  /\ Kept(q, InitSubmitted(q).p) /\ Carries(Waits, "init", InitSubmitted(q).then)
           /\ InitSubmitted(q).p.front = "result"
<1>1. InitSubmitted(q).then = <<"init", "tick", "lines">>
  BY DEF InitSubmitted, Then
<1>2. Carries(Waits, "init", InitSubmitted(q).then)
  BY <1>1, Starts, Zenon
<1>3. Kept(q, InitSubmitted(q).p) /\ InitSubmitted(q).p.front = "result"
  BY DEF InitSubmitted, Then, Started, Plugins, Statuses, Kept
<1>4. QED
  BY <1>2, <1>3

\* The end of a "state <verb>" that was refused shows the error and asks for
\* nothing.
LEMMA RefusedBy ==
    ASSUME NEW q \in Plugins
    PROVE  /\ Kept(q, CLIDone(q, "failed").p) /\ CLIDone(q, "failed").then = <<>>
           /\ CLIDone(q, "failed").p.status = "Error"
<1>1. CLIDone(q, "failed").p = Stopped(q, "Error") /\ CLIDone(q, "failed").then = <<>>
  BY DEF CLIDone, Then
<1>2. QED
  BY <1>1, Named, PluginChanged

\* An event a tape, or a plugin, emits resets the lists and may drop what is
\* deferred; it never defers, and reads nothing. The other verbs ignore it.
LEMMA EmittedBy ==
    ASSUME NEW i, NEW q \in Plugins, NEW event, NEW r, r = Emitted(i, q, event)
    PROVE  /\ r \in Plugins
           /\ r.pending \in {q.pending, "none"}
           /\ r.data \in {q.data, "none"}
           /\ i.verb \in Runners \cup {"apply"} => r = q
<1>1. /\ PlanReset(i, q) \in Plugins /\ PlanReset(i, q).pending = "none" /\ PlanReset(i, q).data = "none"
      /\ StateReset(q) \in Plugins /\ StateReset(q).pending = q.pending /\ StateReset(q).data = "none"
      /\ [q EXCEPT !.stale = TRUE] \in Plugins /\ [q EXCEPT !.stale = TRUE].pending = q.pending
      /\ [q EXCEPT !.stale = TRUE].data = q.data
  <2>1. PlanReset(i, q) \in Plugins /\ PlanReset(i, q).pending = "none" /\ PlanReset(i, q).data = "none"
    <3> DEFINE f == IF i.json THEN "list" ELSE "stream"
    <3>1. f \in {"none", "list", "stream", "form", "result", "home"}
      OBVIOUS
    <3>2. PlanReset(i, q) = [q EXCEPT !.status = "Idle", !.data = "none", !.channel = FALSE,
                                      !.stale = FALSE, !.pending = "none", !.front = f]
      BY DEF PlanReset
    <3> HIDE DEF f
    <3>3. QED
      BY <3>1, <3>2, Named DEF Plugins
  <2>2. StateReset(q) \in Plugins /\ StateReset(q).pending = q.pending /\ StateReset(q).data = "none"
    BY DEF StateReset, Plugins, Statuses, Data, Applies
  <2>3. /\ [q EXCEPT !.stale = TRUE] \in Plugins /\ [q EXCEPT !.stale = TRUE].pending = q.pending
        /\ [q EXCEPT !.stale = TRUE].data = q.data
    BY DEF Plugins
  <2>4. QED
    BY <2>1, <2>2, <2>3
<1>2. r \in {PlanReset(i, q), StateReset(q), [q EXCEPT !.stale = TRUE], q}
  BY DEF Emitted, PlanInvalidated, StateCLI
<1>3. i.verb \in Runners \cup {"apply"} => r = q
  BY DEF Emitted, Runners, StateCLI
<1>4. QED
  BY <1>1, <1>2, <1>3

\* A list activated again asks for no change.
LEMMA ReactivatedBy ==
    ASSUME NEW i, NEW q \in Plugins, NEW s, s = Reactivated(i, q)
    PROVE  Kept(q, s.p) /\ s.then \in Seq(Harmless)
<1>1. /\ <<>> \in Seq(Harmless) /\ <<"read", "tick">> \in Seq(Harmless)
      /\ <<"plan", "tick">> \in Seq(Harmless) /\ <<"plan", "lines", "tick">> \in Seq(Harmless)
  <2>1. {"read", "tick", "plan", "lines"} \subseteq Harmless
    BY DEF Harmless
  <2>2. QED
    BY <2>1, Written
<1> DEFINE r == [q EXCEPT !.stale = FALSE]
<1>2. r \in Plugins /\ Kept(q, r) /\ Kept(q, q)
  BY DEF Plugins, Kept
<1>3. /\ \/ s.p = q
         \/ s.p = Started(q, "Loading")
         \/ s.p = RunPlan(i, Started(r, "Loading"))
      /\ s.then \in {<<>>, <<"read", "tick">>, <<"plan", "tick">>, <<"plan", "lines", "tick">>}
  BY DEF Reactivated, PlanReactivated, StateReactivated, PlanActivated, Then
<1> HIDE DEF r
<1>4. Kept(q, Started(q, "Loading")) /\ Kept(r, Started(r, "Loading")) /\ Started(r, "Loading") \in Plugins
  BY <1>2, Named, PluginChanged DEF Kept
<1>5. Kept(Started(r, "Loading"), RunPlan(i, Started(r, "Loading")))
  BY <1>4, RunTyped
<1>6. Kept(q, RunPlan(i, Started(r, "Loading")))
  BY <1>2, <1>4, <1>5, KeptAgain
<1>7. Kept(q, s.p)
  BY <1>2, <1>3, <1>4, <1>6
<1>8. QED
  BY <1>1, <1>3, <1>7

\* A plugin pushed over a list is new; only AutoApply's runs at once.
LEMMA PushedBy ==
    /\ ApplyPushed("autoApply").p \in Plugins
    /\ Carries(Waits, "apply", ApplyPushed("autoApply").then)
    /\ ApplyPushed("requestApply").p \in Plugins /\ ApplyPushed("requestApply").then = <<>>
    /\ \A verb : RunnerPushed(verb).p \in Plugins /\ RunnerPushed(verb).then \in Seq(Harmless)
<1>1. /\ ApplyPushed("autoApply").p = RunApply(NewPlugin)
      /\ ApplyPushed("autoApply").then = <<"apply", "lines", "tick">>
      /\ ApplyPushed("requestApply").p = [NewPlugin EXCEPT !.status = "Confirming"]
      /\ ApplyPushed("requestApply").then = <<>>
  BY DEF ApplyPushed, Then
<1>2. RunApply(NewPlugin) \in Plugins
  BY NewPluginTyped, RunTyped DEF Kept
<1>3. [NewPlugin EXCEPT !.status = "Confirming"] \in Plugins
  BY NewPluginTyped, Named, PluginMoved DEF Kept
<1>4. Carries(Waits, "apply", ApplyPushed("autoApply").then)
  BY <1>1, Starts, Zenon
<1>5. ASSUME NEW verb
      PROVE  RunnerPushed(verb).p \in Plugins /\ RunnerPushed(verb).then \in Seq(Harmless)
  <2>1. "address" \in Harmless /\ "confirm" \in Harmless
    BY DEF Harmless, Prompts
  <2>2. <<"address">> \in Seq(Harmless) /\ <<"confirm">> \in Seq(Harmless)
    BY <2>1, Written
  <2>3. /\ RunnerPushed(verb).p = NewPlugin
        /\ RunnerPushed(verb).then \in {<<"address">>, <<"confirm">>}
    BY DEF RunnerPushed, Then
  <2>4. QED
    BY <2>2, <2>3, NewPluginTyped
<1>6. QED
  BY <1>1, <1>2, <1>3, <1>4, <1>5
\* The ways a key of the tape can go: nothing is asked for; a change is, and the
\* command that leads to it comes first; or an apply is, of a plan out of date.
Mild(i, q, key, n, s) ==
    /\ s.then \in Seq(Harmless) /\ Asks(i, q, key, n) = <<>>
    /\ q.pending # "autoApply" => s.p.pending # "autoApply"
Grave(i, q, key, n, s) ==
    \E c \in Weighty \ {"startup"} :
        /\ Carries(Harmless, c, s.then) /\ Head(s.then) = c
        /\ Asks(i, q, key, n) = Owes(c, n) /\ s.p.pending = q.pending
Delayed(i, q, key, n, s) ==
    /\ s.then = <<"plan", "lines", "tick">> /\ s.p.pending = "autoApply"
    /\ Asks(i, q, key, n) = <<"apply">> /\ ~i.json /\ q.data = "changes"

\* The agendas of keys.
LEMMA KeyAgendas ==
    /\ <<>> \in Seq(Harmless)
    /\ \A c \in Harmless : <<c>> \in Seq(Harmless)
    /\ <<"read", "tick">> \in Seq(Harmless) /\ <<"plan", "lines", "tick">> \in Seq(Harmless)
    /\ Carries(Harmless, "apply", <<"apply", "lines", "tick">>)
    /\ Carries(Harmless, "mutate", <<"mutate", "tick">>)
    /\ Carries(Harmless, "submit", <<"submit">>) /\ Carries(Harmless, "autoApply", <<"autoApply">>)
<1>1. "read" \in Harmless /\ "tick" \in Harmless /\ "plan" \in Harmless /\ "lines" \in Harmless
  BY DEF Harmless
<1>2. QED
  BY <1>1, Written

\* And what their commands owe.
LEMMA KeyDebts ==
    ASSUME NEW n
    PROVE  /\ Owes("apply", n) = <<"apply">> /\ Owes("autoApply", n) = <<"apply">>
           /\ Owes("init", n) = <<"init">> /\ Owes("submit", n) = <<"init">>
           /\ Owes("mutate", n) = [k \in 1..n |-> "mutate"]
           /\ Owes("edit", n) = [k \in 1..n |-> "edit"]
           /\ Owes("startup", n) = <<>>
           /\ {"apply", "autoApply", "init", "submit", "mutate", "edit"} = Weighty \ {"startup"}
BY DEF Owes, Mutations, Repeat, Weighty

\* A key in the plan's list.
LEMMA PlanKeyBy ==
    ASSUME NEW i, i.verb = "plan", NEW q \in Plugins, NEW key, NEW n, NEW s, s = PlanKey(i, q, key)
    PROVE  /\ s.p \in Plugins /\ s.p.data \in {q.data, "none"}
           /\ Mild(i, q, key, n, s) \/ Grave(i, q, key, n, s) \/ Delayed(i, q, key, n, s)
<1> DEFINE A == key = "A" /\ q.front = "list" /\ PlanRows(i, q)
<1>1. Asks(i, q, key, n) = IF A THEN <<"apply">> ELSE <<>>
  BY DEF Asks, Runners
<1>2. ASSUME NEW d \in Applies \cup {"none"}, NEW r, r = Replanned(i, q, d)
      PROVE  /\ r.p \in Plugins /\ r.p.data \in {q.data, "none"} /\ r.p.pending = d
             /\ r.then = <<"plan", "lines", "tick">>
  <2> DEFINE t == [q EXCEPT !.data = IF i.json THEN @ ELSE "none", !.pending = d]
  <2>1. r.p = RunPlan(i, Started(t, "Loading")) /\ r.then = <<"plan", "lines", "tick">>
    BY <1>2 DEF Replanned, Then
  <2>2. t \in Plugins /\ t.data \in {q.data, "none"} /\ t.pending = d
    BY <1>2 DEF Plugins, Data
  <2> HIDE DEF t
  <2>3. Kept(t, Started(t, "Loading")) /\ Started(t, "Loading") \in Plugins
    <3>1. Kept(t, Started(t, "Loading"))
      BY <2>2, Named, PluginChanged
    <3>2. QED
      BY <3>1 DEF Kept
  <2>4. Kept(t, RunPlan(i, Started(t, "Loading")))
    BY <2>3, RunTyped, KeptAgain
  <2>5. QED
    BY <2>1, <2>2, <2>4 DEF Kept
<1>3. CASE s = Replanned(i, q, "none") /\ key # "A"
  <2>1. s.p \in Plugins /\ s.p.data \in {q.data, "none"} /\ s.p.pending = "none"
        /\ s.then = <<"plan", "lines", "tick">>
    BY <1>2, <1>3
  <2>2. Mild(i, q, key, n, s)
    BY <1>1, <1>3, <2>1, KeyAgendas DEF Mild
  <2>3. QED
    BY <2>1, <2>2
<1>4. CASE s = Replanned(i, q, "requestApply") /\ key # "A"
  <2>1. s.p \in Plugins /\ s.p.data \in {q.data, "none"} /\ s.p.pending = "requestApply"
        /\ s.then = <<"plan", "lines", "tick">>
    BY <1>2, <1>4 DEF Applies
  <2>2. Mild(i, q, key, n, s)
    BY <1>1, <1>4, <2>1, KeyAgendas DEF Mild
  <2>3. QED
    BY <2>1, <2>2
<1>5. CASE s = Replanned(i, q, "autoApply") /\ A
  <2>1. s.p \in Plugins /\ s.p.data \in {q.data, "none"} /\ s.p.pending = "autoApply"
        /\ s.then = <<"plan", "lines", "tick">>
    BY <1>2, <1>5 DEF Applies
  <2>2. ~i.json /\ q.data = "changes"
    BY <1>5 DEF PlanRows
  <2>3. Delayed(i, q, key, n, s)
    BY <1>1, <1>5, <2>1, <2>2 DEF Delayed
  <2>4. QED
    BY <2>1, <2>3
<1>6. CASE s.p = q /\ s.then = <<"autoApply">> /\ A
  <2>1. Asks(i, q, key, n) = Owes("autoApply", n) /\ "autoApply" \in Weighty \ {"startup"}
    BY <1>1, <1>6, KeyDebts
  <2>2. Carries(Harmless, "autoApply", s.then) /\ Head(s.then) = "autoApply"
    BY <1>6, KeyAgendas
  <2>3. Grave(i, q, key, n, s)
    BY <1>6, <2>1, <2>2 DEF Grave
  <2>4. QED
    BY <1>6, <2>3
<1>7. CASE /\ s.p = q /\ ~A
           /\ s.then \in {<<>>, <<"deactivate">>, <<"requestApply">>, <<"taint">>, <<"untaint">>}
  <2>1. s.then \in Seq(Harmless)
    <3>1. "deactivate" \in Harmless /\ "requestApply" \in Harmless /\ "taint" \in Harmless
          /\ "untaint" \in Harmless
      BY DEF Harmless, Runners
    <3>2. QED
      BY <1>7, <3>1, KeyAgendas
  <2>2. Mild(i, q, key, n, s)
    BY <1>1, <1>7, <2>1 DEF Mild
  <2>3. QED
    BY <1>7, <2>2
<1>8. QED
  <2>1. CASE A
    <3>1. s = ApplyOrReplan(i, q, "autoApply")
      BY <2>1 DEF PlanKey
    <3>2. \/ s = Replanned(i, q, "autoApply")
          \/ s.p = q /\ s.then = <<"autoApply">>
      BY <3>1 DEF ApplyOrReplan, Then
    <3>3. QED
      BY <1>5, <1>6, <2>1, <3>2
  <2>2. CASE ~A
    <3> DEFINE Rest == /\ s.p = q
                       /\ s.then \in {<<>>, <<"deactivate">>, <<"requestApply">>,
                                       <<"taint">>, <<"untaint">>}
    <3>1. CASE q.front # "list"
      <4>1. s = Then(q, <<>>)
        BY <3>1 DEF PlanKey
      <4>2. Rest
        BY <4>1 DEF Then
      <4>3. QED
        BY <1>7, <2>2, <4>2
    <3>2. CASE q.front = "list" /\ key = "ctrl+r" /\ q.status \in {"Done", "Error"}
      <4>1. s = Replanned(i, q, "none") /\ key # "A"
        BY <3>2 DEF PlanKey, PlanRefreshed
      <4>2. QED
        BY <1>3, <4>1
    <3>3. CASE q.front = "list" /\ key = "a" /\ PlanRows(i, q)
      <4>1. s = ApplyOrReplan(i, q, "requestApply") /\ key # "A"
        BY <3>3 DEF PlanKey
      <4>2. s = Replanned(i, q, "requestApply") \/ Rest
        BY <4>1 DEF ApplyOrReplan, Then
      <4>3. QED
        BY <1>4, <1>7, <2>2, <4>1, <4>2
    <3>4. CASE /\ q.front = "list" /\ ~(key = "ctrl+r" /\ q.status \in {"Done", "Error"})
               /\ ~(key = "a" /\ PlanRows(i, q))
      <4>1. s \in {Then(q, <<>>), Then(q, <<"deactivate">>), Then(q, <<"taint">>),
                   Then(q, <<"untaint">>)}
        <5>1. ~(key = "A" /\ PlanRows(i, q))
          BY <2>2, <3>4
        <5>2. CASE key = "esc"
          BY <3>4, <5>2 DEF PlanKey
        <5>3. CASE key = "t" /\ PlanRows(i, q)
          BY <3>4, <5>3 DEF PlanKey
        <5>4. CASE key = "T" /\ PlanRows(i, q)
          BY <3>4, <5>4 DEF PlanKey
        <5>5. CASE key # "esc" /\ ~(key \in {"t", "T"} /\ PlanRows(i, q))
          <6>1. s = Then(q, <<>>)
            BY <3>4, <5>1, <5>5 DEF PlanKey
          <6>2. QED
            BY <6>1
        <5>6. QED
          BY <5>2, <5>3, <5>4, <5>5
      <4>2. Rest
        BY <4>1 DEF Then
      <4>3. QED
        BY <1>7, <2>2, <4>2
    <3>5. QED
      BY <3>1, <3>2, <3>3, <3>4
  <2>3. QED
    BY <2>1, <2>2
\* A key in apply, in a runner, in init's form.
LEMMA ActionKeyBy ==
    ASSUME NEW i, i.verb \in Runners \cup {"apply", "init"}, NEW q \in Plugins, NEW key, NEW n,
           NEW s, s = Pressed(i, q, key)
    PROVE  /\ Kept(q, s.p)
           /\ Mild(i, q, key, n, s) \/ Grave(i, q, key, n, s)
<1>0. /\ Kept(q, q) /\ Kept(q, RunApply(q)) /\ Kept(q, Started(q, "Loading"))
      /\ Kept(q, [q EXCEPT !.status = "Confirming"]) /\ Kept(q, [q EXCEPT !.status = "Idle"])
      /\ Kept(q, [q EXCEPT !.front = "home"]) /\ Kept(q, [q EXCEPT !.front = "form"])
  <2>1. Kept(q, q)
    BY DEF Kept
  <2>2. Kept(q, Started(q, "Loading"))
    BY Named, PluginChanged
  <2>3. Kept(q, [q EXCEPT !.status = "Confirming"]) /\ Kept(q, [q EXCEPT !.status = "Idle"])
    BY Named, PluginMoved
  <2>4. Kept(q, [q EXCEPT !.front = "home"]) /\ Kept(q, [q EXCEPT !.front = "form"])
    BY PluginMoved
  <2>5. QED
    BY <2>1, <2>2, <2>3, <2>4, RunTyped
<1>a. /\ <<>> \in Seq(Harmless) /\ <<"deactivate">> \in Seq(Harmless) /\ <<"event">> \in Seq(Harmless)
  <2>1. "deactivate" \in Harmless /\ "event" \in Harmless
    BY DEF Harmless
  <2>2. QED
    BY <2>1, KeyAgendas
<1>b. ASSUME Kept(q, s.p), s.then \in {<<>>, <<"deactivate">>, <<"event">>}, Asks(i, q, key, n) = <<>>
      PROVE  Mild(i, q, key, n, s)
  BY <1>a, <1>b DEF Mild, Kept
<1>c. ASSUME Kept(q, s.p), NEW c \in Weighty \ {"startup"}, Carries(Harmless, c, s.then),
             Head(s.then) = c, Asks(i, q, key, n) = Owes(c, n)
      PROVE  Grave(i, q, key, n, s)
  BY <1>c DEF Grave, Kept
<1>1. CASE i.verb = "apply"
  <2> DEFINE Runs == \/ q.status = "Confirming" /\ key \in {"y", "enter"}
                     \/ q.status = "Error" /\ key = "ctrl+r"
  <2>1. s = ApplyKey(q, key)
    BY <1>1 DEF Pressed, Runners, StateCLI
  <2>2. Asks(i, q, key, n) = IF Runs THEN <<"apply">> ELSE <<>>
    BY <1>1 DEF Asks, Runners
  <2>3. CASE Runs
    <3>1. s.p = RunApply(q) /\ s.then = <<"apply", "lines", "tick">>
      BY <2>1, <2>3 DEF ApplyKey, Then
    <3>2. Carries(Harmless, "apply", s.then) /\ Head(s.then) = "apply"
      BY <3>1, KeyAgendas
    <3>3. "apply" \in Weighty \ {"startup"} /\ Asks(i, q, key, n) = Owes("apply", n)
      BY <2>2, <2>3, KeyDebts
    <3>4. Kept(q, s.p)
      BY <1>0, <3>1
    <3>5. QED
      BY <1>c, <3>2, <3>3, <3>4
  <2>4. CASE ~Runs
    <3>1. /\ \/ s.p = q
             \/ s.p = [q EXCEPT !.status = "Confirming"]
             \/ s.p = [q EXCEPT !.status = "Idle"]
          /\ s.then \in {<<>>, <<"deactivate">>, <<"event">>}
      BY <2>1, <2>4 DEF ApplyKey, Then
    <3>2. Kept(q, s.p)
      BY <1>0, <3>1
    <3>3. QED
      BY <1>b, <2>2, <2>4, <3>1, <3>2
  <2>5. QED
    BY <2>3, <2>4
<1>2. CASE i.verb \in Runners
  <2> DEFINE Runs == q.status = "Error" /\ key = "ctrl+r"
  <2>1. s = RunnerKey(q, key)
    BY <1>2 DEF Pressed, Runners, StateCLI
  <2>2. Asks(i, q, key, n) = IF Runs THEN [k \in 1..n |-> "mutate"] ELSE <<>>
    BY <1>2 DEF Asks, Runners
  <2>3. CASE Runs
    <3>1. s.p = Started(q, "Loading") /\ s.then = <<"mutate", "tick">>
      BY <2>1, <2>3 DEF RunnerKey, Then
    <3>2. Carries(Harmless, "mutate", s.then) /\ Head(s.then) = "mutate"
      BY <3>1, KeyAgendas
    <3>3. "mutate" \in Weighty \ {"startup"} /\ Asks(i, q, key, n) = Owes("mutate", n)
      BY <2>2, <2>3, KeyDebts
    <3>4. Kept(q, s.p)
      BY <1>0, <3>1
    <3>5. QED
      BY <1>c, <3>2, <3>3, <3>4
  <2>4. CASE ~Runs
    <3>1. s.p = q /\ s.then \in {<<>>, <<"deactivate">>}
      BY <2>1, <2>4 DEF RunnerKey, Then
    <3>2. QED
      BY <1>0, <1>b, <2>2, <2>4, <3>1
  <2>5. QED
    BY <2>3, <2>4
<1>3. CASE i.verb = "init"
  <2> DEFINE Runs == q.front = "form" /\ key = "enter"
  <2>1. s = InitKey(q, key)
    BY <1>3 DEF Pressed, Runners, StateCLI
  <2>2. Asks(i, q, key, n) = IF Runs THEN <<"init">> ELSE <<>>
    BY <1>3 DEF Asks, Runners
  <2>3. CASE Runs
    <3>1. s.p = q /\ s.then = <<"submit">>
      BY <2>1, <2>3 DEF InitKey, Then
    <3>2. Carries(Harmless, "submit", s.then) /\ Head(s.then) = "submit"
      BY <3>1, KeyAgendas
    <3>3. "submit" \in Weighty \ {"startup"} /\ Asks(i, q, key, n) = Owes("submit", n)
      BY <2>2, <2>3, KeyDebts
    <3>4. QED
      BY <1>0, <1>c, <3>1, <3>2, <3>3
  <2>4. CASE ~Runs
    <3>1. /\ \/ s.p = q
             \/ s.p = [q EXCEPT !.front = "home"]
             \/ s.p = [q EXCEPT !.front = "form"]
          /\ s.then \in {<<>>, <<"deactivate">>}
      BY <2>1, <2>4 DEF InitKey, Then
    <3>2. Kept(q, s.p)
      BY <1>0, <3>1
    <3>3. QED
      BY <1>b, <2>2, <2>4, <3>1, <3>2
  <2>5. QED
    BY <2>3, <2>4
<1>4. QED
  BY <1>1, <1>2, <1>3

\* A key in the state list, in output, in validate: nothing is asked for at once.
LEMMA ListKeyBy ==
    ASSUME NEW i, i.verb \in Verbs, i.verb \notin Runners \cup {"apply", "init", "plan"},
           NEW q \in Plugins, NEW key, NEW n, NEW s, s = Pressed(i, q, key)
    PROVE  /\ s.p \in Plugins /\ s.p.data \in {q.data, "none"}
           /\ Mild(i, q, key, n, s)
<1> DEFINE r == [Started(q, "Loading") EXCEPT !.data = "none"]
<1>1. r \in Plugins /\ r.data = "none" /\ r.pending = q.pending
  BY DEF Started, Plugins, Statuses, Data
<1>2. Asks(i, q, key, n) = <<>>
  BY DEF Asks
<1>3. /\ s.p = q \/ s.p = r
      /\ \/ s.then \in {<<>>, <<"read", "tick">>}
         \/ \E c \in Prompts \cup Runners \cup {"deactivate"} : s.then = <<c>>
  <2>1. s = StateKey(q, key) \/ s = ReaderKey(i, q, key)
    BY DEF Pressed, Verbs
  <2>2. /\ "confirm" \in Prompts /\ "dest" \in Prompts
        /\ "taint" \in Runners /\ "untaint" \in Runners /\ "import" \in Runners
    BY DEF Prompts, Runners
  <2>3. CASE s = StateKey(q, key)
    <3>1. \/ s = StateRefreshed(q)
          \/ s.p = q /\ s.then = <<>>
          \/ s.p = q /\ \E c \in Prompts \cup Runners \cup {"deactivate"} : s.then = <<c>>
      BY <2>2, <2>3 DEF StateKey, Then
    <3>2. s = StateRefreshed(q) => s.p = r /\ s.then = <<"read", "tick">>
      BY DEF StateRefreshed, Then
    <3>3. QED
      BY <3>1, <3>2
  <2>4. CASE s = ReaderKey(i, q, key)
    <3>1. \/ s = ReaderRefreshed(q)
          \/ s.p = q /\ s.then = <<>>
          \/ s.p = q /\ s.then = <<"deactivate">>
      BY <2>4 DEF ReaderKey, Then
    <3>2. s = ReaderRefreshed(q) => s.p = r /\ s.then = <<"read", "tick">>
      BY DEF ReaderRefreshed, Then
    <3>3. QED
      BY <3>1, <3>2
  <2>5. QED
    BY <2>1, <2>3, <2>4
<1> HIDE DEF r
<1>4. s.then \in Seq(Harmless)
  <2>1. \A c \in Prompts \cup Runners \cup {"deactivate"} : c \in Harmless
    BY DEF Harmless
  <2>2. QED
    BY <1>3, <2>1, KeyAgendas
<1>5. s.p \in Plugins /\ s.p.data \in {q.data, "none"} /\ s.p.pending = q.pending
  BY <1>1, <1>3
<1>6. QED
  BY <1>2, <1>4, <1>5 DEF Mild

\* A key in the view of any plugin.
LEMMA PressedBy ==
    ASSUME NEW i, i.verb \in Verbs, NEW q \in Plugins, NEW key, NEW n, NEW s, s = Pressed(i, q, key)
    PROVE  /\ s.p \in Plugins /\ s.p.data \in {q.data, "none"}
           /\ Mild(i, q, key, n, s) \/ Grave(i, q, key, n, s) \/ Delayed(i, q, key, n, s)
<1>1. CASE i.verb = "plan"
  <2>1. s = PlanKey(i, q, key)
    BY <1>1 DEF Pressed, Runners, StateCLI
  <2>2. QED
    BY <1>1, <2>1, PlanKeyBy
<1>2. CASE i.verb \in Runners \cup {"apply", "init"}
  <2>1. Kept(q, s.p) /\ (Mild(i, q, key, n, s) \/ Grave(i, q, key, n, s))
    BY <1>2, ActionKeyBy
  <2>2. QED
    BY <2>1 DEF Kept
<1>3. CASE i.verb \notin Runners \cup {"apply", "init", "plan"}
  <2>1. s.p \in Plugins /\ s.p.data \in {q.data, "none"} /\ Mild(i, q, key, n, s)
    BY <1>3, ListKeyBy
  <2>2. QED
    BY <2>1
<1>4. QED
  BY <1>1, <1>2, <1>3
-----------------------------------------------------------------------------
(* The session's types, phases and services *)

(* A session is refused before it has begun, plays a tape only in a dry run,    *)
(* and has nothing left to run but while it runs.                               *)
Phased ==
    /\ phase \in {"start", "run", "tape", "ended"}
    /\ phase # "run" => agenda = <<>>
    /\ phase = "tape" => DryRun
    /\ Refused(in) => phase \in {"start", "ended"}

Shown == /\ g \in Plugins /\ over \in Runners \cup {"apply", "none"}
         /\ prompt \in Prompts \cup {"none"} /\ typed \in BOOLEAN /\ count \in 0..2

Counted ==
    /\ lines \in 0..MaxLines /\ closed \in BOOLEAN
    /\ rounds \in 0..MaxRounds /\ steps \in 0..MaxSteps
    /\ finalized \in BOOLEAN /\ touched \in BOOLEAN /\ out.exit \in 0..3

(* The recorder's frame for the start is taken when the plugin has come to      *)
(* rest, and then one after each command that was played.                       *)
Recording == DryRun /\ in.record /\ ~Refused(in)
Framed ==
    /\ phase = "start" => steps = 0
    /\ ~Recording => frames = 0
    /\ Recording => /\ phase = "start" => frames = 0
                    /\ phase = "run" => frames = steps
                    /\ phase \in {"tape", "ended"} => frames = steps + 1
    /\ finalized => Over /\ DryRun /\ in.record
    /\ Over /\ DryRun /\ ~Refused(in) => finalized = in.record

(* Whatever the directory, the plugins and the app hold a service of the kind   *)
(* the command line called for.                                                 *)
Kind  == IF DryRun THEN "macro" ELSE "exec"
Wired == phase \in {"run", "tape"} => svc.kind = Kind /\ bound.kind = Kind

Sound == in \in Inputs /\ p \in Plugins /\ Phased /\ Shown /\ Counted /\ Framed /\ Wired

\* What every step of the driver leaves alone.
LEMMA DriverKeeps ==
    ASSUME Driver
    PROVE  /\ phase = "run" /\ agenda # <<>>
           /\ UNCHANGED <<in, phase, svc, bound, rounds, steps, frames, finalized, out>>
<1>1. phase = "run" /\ agenda # <<>>
  BY DEF Driver, LoadWorkspace, Startup, Submit, ReportRefusal, PassEvent, Invalidate, Deactivate,
         PushApply, PushRunner, OpenPrompt, Tick, ReadLine, Mutate, Terraform, Record, Heads
<1>2. \E commands : Queued(commands)
  BY DEF Driver, LoadWorkspace, Startup, Submit, ReportRefusal, PassEvent, Invalidate, Deactivate,
         PushApply, PushRunner, OpenPrompt, Tick, ReadLine, Mutate, Terraform, Record, Ran,
         Handled, Push
<1>3. UNCHANGED <<in, phase, svc, bound, rounds, steps, frames, finalized, out>>
  BY <1>2 DEF Queued, services, tape
<1>4. QED
  BY <1>1, <1>3

\* Every command of the tape that is played.
Plays == PlayKey \/ PlayCancel \/ PlayYes \/ PlayEnter \/ PlayType \/ PlayEmit \/ PlayOther

\* A command of the tape costs one step, starts a run of commands, and writes no change itself.
LEMMA PlayedKeeps ==
    ASSUME Plays
    PROVE  /\ phase = "tape" /\ phase' = "run" /\ steps < MaxSteps /\ steps' = steps + 1
           /\ UNCHANGED <<in, svc, bound, rounds, frames, finalized, touched, changes,
                          worked, failed, out>>
<1>1. \E commands : Played(commands)
  BY DEF Plays, PlayKey, PlayCancel, PlayYes, PlayEnter, PlayType, PlayEmit, PlayOther
<1>2. QED
  BY <1>1 DEF Played, Playing, services, deeds

\* Every way to end.
Ends == Refuse \/ Deadline \/ PrintResult \/ PlayFails \/ EndOfTape

\* Whatever ends a session sets the outcome alone, and the recording when a tape was playing.
LEMMA EndsKeep ==
    ASSUME Ends
    PROVE  /\ phase' = "ended" /\ (finalized' = finalized \/ (phase = "tape" /\ finalized' = in.record))
           /\ UNCHANGED <<in, svc, bound, p, over, g, prompt, typed, count, agenda, lines, closed,
                          rounds, steps, frames, touched, changes, worked, failed, asked>>
<1>1. \E o : Ended(o)
  BY DEF Ends, Refuse, Deadline, PrintResult, PlayFails, EndOfTape
<1>2. UNCHANGED <<steps, frames>> /\ (finalized' = finalized \/ (phase = "tape" /\ finalized' = in.record))
  BY DEF Ends, Refuse, Deadline, PrintResult, PlayFails, EndOfTape, tape, Playing
<1>3. QED
  BY <1>1, <1>2 DEF Ended, services, app, stream, deeds

\* The steps between.
LEMMA BeginKeeps ==
    ASSUME Begin
    PROVE  /\ phase = "start" /\ ~Refused(in) /\ phase' = "run"
           /\ svc' = NewService(in) /\ bound' \in {svc', WithDir(svc')}
           /\ agenda' = <<"workspace", "startup">>
           /\ UNCHANGED <<in, p, over, g, prompt, typed, count, lines, closed, rounds, steps,
                          frames, finalized, touched, changes, worked, failed, asked, out>>
BY DEF Begin, app, stream, tape, deeds

\* A wait of the live session counts a round and changes nothing else.
LEMMA WaitKeeps ==
    ASSUME Wait
    PROVE  /\ phase = "run" /\ agenda = <<>> /\ ~DryRun /\ ~Settled
           /\ rounds < MaxRounds /\ rounds' = rounds + 1
           /\ UNCHANGED <<in, phase, svc, bound, p, over, g, prompt, typed, count, agenda, lines,
                          closed, steps, frames, finalized, touched, changes, worked, failed,
                          asked, out>>
BY DEF Wait, Idle, services, app, stream, tape, deeds

\* A settled dry run turns to the tape, with the first frame when it records.
LEMMA CaptureKeeps ==
    ASSUME Capture
    PROVE  /\ phase = "run" /\ agenda = <<>> /\ DryRun /\ phase' = "tape"
           /\ frames' = IF in.record THEN frames + 1 ELSE frames
           /\ UNCHANGED <<in, svc, bound, p, over, g, prompt, typed, count, agenda, lines,
                          closed, rounds, steps, finalized, touched, changes, worked, failed,
                          asked, out>>
BY DEF Capture, Captured, Idle, services, app, stream, deeds

\* The steps of a session.
LEMMA NextIs == Next <=> Ends \/ Begin \/ Wait \/ Capture \/ Plays \/ Driver
BY DEF Next, Live, Tape, Ends, Plays

\* The command line stays as it was.
LEMMA LineKept ==
    ASSUME Next
    PROVE  in' = in /\ DryRun' = DryRun /\ (Refused(in))' = Refused(in)
<1>1. in' = in
  BY NextIs, DriverKeeps, PlayedKeeps, EndsKeep, BeginKeeps, WaitKeeps, CaptureKeeps
<1>2. QED
  BY <1>1 DEF DryRun

\* A session starts sound.
LEMMA BeginTyped == Init => Sound
<1> SUFFICES ASSUME Init PROVE Sound
  OBVIOUS
<1> USE BoundsAssumption
<1>1. in \in Inputs /\ p \in Plugins
  BY NewPluginTyped DEF Init
<1>2. Phased
  BY DEF Phased, Init
<1>3. Shown
  <2>1. in.args \in 0..2
    BY <1>1, VerbTyped
  <2>2. count \in 0..2
    BY <2>1 DEF Init, Targets
  <2>3. QED
    BY <2>2, NewPluginTyped DEF Shown, Init
<1>4. Counted
  <2>1. out.exit \in 0..3
    BY DEF Quiet, Wrote, Init
  <2>2. lines \in 0..MaxLines /\ rounds \in 0..MaxRounds /\ steps \in 0..MaxSteps
    BY DEF Init
  <2>3. closed \in BOOLEAN /\ finalized \in BOOLEAN /\ touched \in BOOLEAN
    BY DEF Init
  <2>4. QED
    BY <2>1, <2>2, <2>3 DEF Counted
<1>5. Framed
  BY DEF Framed, Over, Init
<1>6. Wired
  BY DEF Wired, Init
<1>7. QED
  BY <1>1, <1>2, <1>3, <1>4, <1>5, <1>6 DEF Sound

\* The phases follow each other.
LEMMA PhasedStep ==
    ASSUME Sound, Next
    PROVE  Phased'
<1>0. in' = in /\ DryRun' = DryRun /\ (Refused(in))' = Refused(in)
  BY LineKept
<1>1. CASE Ends
  <2>1. agenda = <<>>
    BY <1>1 DEF Ends, Refuse, Deadline, PrintResult, PlayFails, EndOfTape, Playing, Idle, Sound, Phased
  <2>2. QED
    BY <1>0, <1>1, <2>1, EndsKeep DEF Phased
<1>2. CASE Begin
  BY <1>0, <1>2, BeginKeeps DEF Phased
<1>3. CASE Wait
  BY <1>0, <1>3, WaitKeeps DEF Sound, Phased
<1>4. CASE Capture
  BY <1>0, <1>4, CaptureKeeps DEF Sound, Phased
<1>5. CASE Plays
  BY <1>0, <1>5, PlayedKeeps DEF Sound, Phased
<1>6. CASE Driver
  BY <1>0, <1>6, DriverKeeps DEF Sound, Phased
<1>7. QED
  BY <1>1, <1>2, <1>3, <1>4, <1>5, <1>6, NextIs

\* The services are those Begin gave, and of the kind it chose.
LEMMA WiredStep ==
    ASSUME Sound, Next
    PROVE  Wired'
<1>0. in' = in /\ DryRun' = DryRun /\ Kind' = Kind
  BY LineKept DEF Kind
<1>1. CASE Begin
  <2>1. NewService(in).kind = Kind /\ WithDir(NewService(in)).kind = Kind
    BY DEF NewService, WithDir, Kind, DryRun
  <2>2. svc' = NewService(in) /\ bound' \in {svc', WithDir(svc')}
    BY <1>1, BeginKeeps
  <2>3. svc'.kind = Kind /\ bound'.kind = Kind
    BY <2>1, <2>2
  <2>4. QED
    BY <1>0, <2>3 DEF Wired
<1>2. CASE Ends
  BY <1>2, EndsKeep DEF Wired
<1>3. CASE Wait
  BY <1>0, <1>3, WaitKeeps DEF Sound, Wired
<1>4. CASE Capture
  BY <1>0, <1>4, CaptureKeeps DEF Sound, Wired
<1>6. CASE Driver
  BY <1>0, <1>6, DriverKeeps DEF Sound, Wired
<1>7. CASE Plays
  BY <1>0, <1>7, PlayedKeeps DEF Sound, Wired
<1>8. QED
  BY <1>1, <1>2, <1>3, <1>4, <1>6, <1>7, NextIs
\* The pushed plugin is apply or a runner.
LEMMA GuestTyped ==
    ASSUME Sound, over # "none"
    PROVE  Guest.verb \in Runners \cup {"apply"} /\ Guest.verb \in Verbs
<1>1. Guest.verb = over
  <2>1. in \in Inputs
    BY DEF Sound
  <2>2. QED
    BY <2>1 DEF Guest, Inputs
<1>2. over \in Runners \cup {"apply"}
  BY DEF Sound, Shown
<1>3. QED
  BY <1>1, <1>2 DEF Verbs

\* What terraform, and the service that records, can answer.
LEMMA AnswersTyped ==
    ASSUME Sound, NEW op \in Operations
    PROVE  /\ Answers(op) \subseteq Replies /\ Recorded(op) \in Replies
           /\ op = "preview" => /\ Answers(op) \subseteq {"failed", "clean", "changes"}
                                /\ Recorded(op) \in {"failed", "clean", "changes"}
           /\ Recorded(op) = "changes" => op \in {"plan", "preview"} /\ Seeded("plan")
           /\ op = "plan" /\ ~in.json /\ Seeded("plan") => Recorded(op) = "changes"
<1>1. {"clean", "changes", "failed", "garbled", "valid", "invalid", "listed", "rows"} \subseteq Replies
  BY DEF Replies, Data
<1>2. Answers(op) \subseteq {"clean", "changes", "failed", "garbled", "valid", "invalid", "listed", "rows"}
  <2>1. CASE op = "plan"
    BY <2>1 DEF Answers
  <2>2. CASE op = "preview"
    BY <2>2 DEF Answers
  <2>3. CASE op = "read" /\ in.verb = "validate"
    BY <2>3 DEF Answers
  <2>4. CASE op = "read" /\ in.verb # "validate"
    BY <2>4 DEF Answers
  <2>5. CASE op \notin {"plan", "preview", "read"}
    BY <2>5 DEF Answers
  <2>6. QED
    BY <2>1, <2>2, <2>3, <2>4, <2>5
<1>3. Recorded(op) \in {"clean", "changes", "valid", "listed", "rows"}
  <2>1. CASE op \in {"plan", "preview"}
    BY <2>1 DEF Recorded
  <2>2. CASE op = "read" /\ in.verb = "validate"
    BY <2>2 DEF Recorded
  <2>3. CASE op = "read" /\ in.verb # "validate"
    BY <2>3 DEF Recorded
  <2>4. CASE op \notin {"plan", "preview", "read"}
    BY <2>4 DEF Recorded
  <2>5. QED
    BY <2>1, <2>2, <2>3, <2>4
<1>4. op = "preview" => /\ Answers(op) \subseteq {"failed", "clean", "changes"}
                        /\ Recorded(op) \in {"failed", "clean", "changes"}
  BY DEF Answers, Recorded
<1>5. Recorded(op) = "changes" => op \in {"plan", "preview"} /\ Seeded("plan")
  <2>1. CASE op \in {"plan", "preview"}
    BY <2>1 DEF Recorded
  <2>2. CASE op = "read" /\ in.verb = "validate"
    BY <2>2 DEF Recorded
  <2>3. CASE op = "read" /\ in.verb # "validate"
    BY <2>3 DEF Recorded
  <2>4. CASE op \notin {"plan", "preview", "read"}
    BY <2>4 DEF Recorded
  <2>5. QED
    BY <2>1, <2>2, <2>3, <2>4
<1>6. op = "plan" /\ ~in.json /\ Seeded("plan") => Recorded(op) = "changes"
  BY DEF Recorded
<1>7. QED
  BY <1>1, <1>2, <1>3, <1>4, <1>5, <1>6

\* An operation's message reaches one plugin, and puts its commands first.
LEMMA RanBy ==
    ASSUME Sound, NEW op \in Operations, NEW answer \in Replies,
           op = "preview" => answer \in {"failed", "clean", "changes"}, Ran(op, answer)
    PROVE  /\ \E t : /\ agenda' = t \o Tail(agenda)
                     /\ op = "plan" /\ p.pending = "autoApply" /\ answer = "changes" /\ ~in.json =>
                           t = <<"event", "event", "autoApply">>
                     /\ ~(op = "plan" /\ p.pending = "autoApply") => t \in Seq(Harmless)
           /\ p' \in Plugins /\ g' \in Plugins
           /\ p'.data = "changes" => p.data = "changes" \/ answer = "changes"
           /\ op # "plan" => p'.pending = p.pending
           /\ op = "plan" => p'.pending = "none"
           /\ closed' = TRUE /\ UNCHANGED <<over, prompt, typed, count, asked>>
<1> DEFINE pushed == over # "none" /\ op \in {"apply", "mutate"}
<1>0. p \in Plugins /\ g \in Plugins /\ in.verb \in Verbs
  BY VerbTyped DEF Sound, Shown
<1>1. closed' = TRUE /\ UNCHANGED <<over, prompt, typed, count, asked>>
  BY DEF Ran
<1>2. CASE pushed
  <2> DEFINE s == Answer(Guest, g, op, answer)
  <2>1. agenda' = s.then \o Tail(agenda) /\ g' = s.p /\ p' = p
    BY <1>2 DEF Ran, Queued
  <2>2. s.p \in Plugins /\ s.then \in Seq(Harmless)
    <3>1. Guest.verb \in Verbs
      BY <1>2, GuestTyped
    <3>2. op # "plan"
      BY <1>2
    <3>3. s = Answer(Guest, g, op, answer)
      OBVIOUS
    <3> HIDE DEF s
    <3>4. s.p \in Plugins
      BY <1>0, <3>1, <3>3, AnsweredBy
    <3>5. ~(op = "plan" /\ g.pending = "autoApply") => s.then \in Seq(Harmless)
      BY <1>0, <3>1, <3>3, AnsweredBy
    <3>6. QED
      BY <3>2, <3>4, <3>5
  <2> HIDE DEF s
  <2>3. op # "plan"
    BY <1>2
  <2>4. QED
    BY <1>0, <1>1, <2>1, <2>2, <2>3
<1>3. CASE ~pushed
  <2> DEFINE s == Answer(in, p, op, answer)
  <2>1. agenda' = s.then \o Tail(agenda) /\ p' = s.p /\ g' = g
    BY <1>3 DEF Ran, Queued
  <2>2. s = Answer(in, p, op, answer)
    OBVIOUS
  <2> HIDE DEF s
  <2>3. s.p \in Plugins
    BY <1>0, <2>2, AnsweredBy
  <2>4. /\ op # "plan" => s.p.pending = p.pending
        /\ op = "plan" => s.p.pending = "none"
        /\ s.p.data = "changes" => p.data = "changes" \/ answer = "changes"
    BY <1>0, <2>2, AnsweredBy
  <2>5. op = "plan" /\ p.pending = "autoApply" /\ answer = "changes" /\ ~in.json =>
           s.then = <<"event", "event", "autoApply">>
    BY <1>0, <2>2, AnsweredBy
  <2>6. ~(op = "plan" /\ p.pending = "autoApply") => s.then \in Seq(Harmless)
    BY <1>0, <2>2, AnsweredBy
  <2>7. QED
    BY <1>0, <1>1, <2>1, <2>3, <2>4, <2>5, <2>6
<1>4. QED
  BY <1>2, <1>3

\* A key of the tape goes to the plugin on the screen, and to no other.
LEMMA PlayKeyBy ==
    ASSUME Sound, PlayKey
    PROVE  \E i, q, key, s :
              /\ \/ i = in /\ q = p /\ p' = s.p /\ g' = g
                 \/ i = Guest /\ q = g /\ g' = s.p /\ p' = p /\ ~Delayed(i, q, key, count, s)
              /\ s.p \in Plugins /\ s.p.data \in {q.data, "none"}
              /\ \/ Mild(i, q, key, count, s)
                 \/ Grave(i, q, key, count, s)
                 \/ Delayed(i, q, key, count, s)
              /\ agenda' = s.then /\ asked' = asked \o Asks(i, q, key, count)
              /\ count' \in 0..2
              /\ s.then = <<>> \/ Head(s.then) \notin Requests => count' = count
              /\ Opened(s.p) /\ UNCHANGED <<over, prompt, typed>>
<1> DEFINE i == IF over = "none" THEN in ELSE Guest
           q == Active
<1>1. PICK key \in TapeKeys, n \in 1..2 :
        /\ Played(Pressed(i, q, key).then) /\ Becomes(Pressed(i, q, key).p)
        /\ Opened(Pressed(i, q, key).p)
        /\ count' = IF /\ Pressed(i, q, key).then # <<>>
                       /\ Head(Pressed(i, q, key).then) \in Requests THEN n ELSE count
        /\ asked' = asked \o Asks(i, q, key, count)
        /\ UNCHANGED <<over, prompt, typed>>
  BY DEF PlayKey
<1> DEFINE s == Pressed(i, q, key)
<1>2. s = Pressed(i, q, key)
  OBVIOUS
<1>3. q \in Plugins /\ i.verb \in Verbs
  BY VerbTyped, GuestTyped DEF Sound, Shown, Active
<1>4. agenda' = s.then /\ asked' = asked \o Asks(i, q, key, count)
  BY <1>1 DEF Played
<1>5. count' \in 0..2 /\ (s.then = <<>> \/ Head(s.then) \notin Requests => count' = count)
  <2>1. count \in 0..2
    BY DEF Sound, Shown
  <2>2. n \in 0..2
    OBVIOUS
  <2>3. count' = IF s.then # <<>> /\ Head(s.then) \in Requests THEN n ELSE count
    BY <1>1
  <2> HIDE DEF s
  <2>4. QED
    BY <2>1, <2>2, <2>3
<1>6. \/ over = "none" /\ i = in /\ q = p /\ p' = s.p /\ g' = g
      \/ over # "none" /\ i = Guest /\ q = g /\ g' = s.p /\ p' = p
  BY <1>1 DEF Becomes, Active
<1>7. Opened(s.p) /\ UNCHANGED <<over, prompt, typed>>
  BY <1>1
<1>8. over # "none" => i.verb \in Runners \cup {"apply"}
  BY GuestTyped
<1> HIDE DEF i, q, s
<1>9. CASE over = "none"
  <2>1. s.p \in Plugins
    BY <1>2, <1>3, PressedBy
  <2>2. s.p.data \in {q.data, "none"}
    BY <1>2, <1>3, PressedBy
  <2>3. Mild(i, q, key, count, s) \/ Grave(i, q, key, count, s) \/ Delayed(i, q, key, count, s)
    BY <1>2, <1>3, PressedBy
  <2>4. QED
    BY <1>4, <1>5, <1>6, <1>7, <1>9, <2>1, <2>2, <2>3
<1>10. CASE over # "none"
  <2>1. i.verb \in Runners \cup {"apply", "init"}
    BY <1>8, <1>10
  <2>2. Kept(q, s.p)
    BY <1>2, <1>3, <2>1, ActionKeyBy
  <2>3. Mild(i, q, key, count, s) \/ Grave(i, q, key, count, s)
    BY <1>2, <1>3, <2>1, ActionKeyBy
  <2>4. ~Delayed(i, q, key, count, s)
    <3>1. Asks(i, q, key, count) # <<>> /\ Delayed(i, q, key, count, s) => Head(s.then) = "plan"
      BY DEF Delayed
    <3>2. Mild(i, q, key, count, s) => Asks(i, q, key, count) = <<>>
      BY DEF Mild
    <3>3. Grave(i, q, key, count, s) => Head(s.then) # "plan"
      BY DEF Grave, Weighty, Mutations
    <3>4. Delayed(i, q, key, count, s) => Asks(i, q, key, count) # <<>>
      BY DEF Delayed
    <3>5. QED
      BY <2>3, <3>1, <3>2, <3>3, <3>4
  <2>5. s.p \in Plugins /\ s.p.data \in {q.data, "none"}
    BY <2>2 DEF Kept
  <2>6. QED
    BY <1>4, <1>5, <1>6, <1>7, <1>10, <2>3, <2>4, <2>5
<1>11. QED
  BY <1>9, <1>10
\* The operations, whichever service runs them.
LEMMA OperationBy ==
    ASSUME Sound, NEW op \in Operations,
           (op \in Mutations /\ Mutate(op)) \/ Terraform(op) \/ Record(op)
    PROVE  /\ \E answer \in Replies : /\ Ran(op, answer)
                                      /\ op = "preview" => answer \in {"failed", "clean", "changes"}
           /\ Heads(op) /\ in' = in
           /\ lines' \in (IF p.channel THEN 0..MaxLines ELSE {lines}) \cup {lines}
           /\ touched' = touched \/ (bound.kind = "exec" /\ touched' \in BOOLEAN)
<1>0. /\ Answers(op) \subseteq Replies /\ Recorded(op) \in Replies
      /\ op = "preview" => /\ Answers(op) \subseteq {"failed", "clean", "changes"}
                           /\ Recorded(op) \in {"failed", "clean", "changes"}
  BY AnswersTyped
<1>1. CASE op \in Mutations /\ Mutate(op)
  <2>1. \E answer \in {"failed", "listed"} : Ran(op, answer)
    BY <1>1 DEF Mutate
  <2>2. {"failed", "listed"} \subseteq Replies /\ op # "preview"
    BY <1>1 DEF Replies, Data, Mutations
  <2>3. Heads(op) /\ lines' = lines /\ touched' = TRUE /\ bound.kind = "exec"
    BY <1>1 DEF Mutate
  <2>4. in' = in
    BY <2>1 DEF Ran, Queued
  <2>5. QED
    BY <2>1, <2>2, <2>3, <2>4
<1>2. CASE Terraform(op)
  <2>1. \E answer \in Answers(op) : Ran(op, answer)
    BY <1>2 DEF Terraform
  <2>2. /\ Heads(op) /\ lines' \in IF p.channel THEN 0..MaxLines ELSE {lines}
        /\ bound.kind = "exec"
    BY <1>2 DEF Terraform
  <2>3. touched' \in BOOLEAN
    <3>1. touched' = (touched \/ ~(op = "read" /\ in.verb = "state" /\ Seeded("state")))
      BY <1>2 DEF Terraform
    <3>2. QED
      BY Zenon, <3>1
  <2>4. in' = in
    BY <2>1 DEF Ran, Queued
  <2>5. QED
    BY <1>0, <2>1, <2>2, <2>3, <2>4
<1>3. CASE Record(op)
  <2>1. Ran(op, Recorded(op))
    BY <1>3 DEF Record
  <2>2. Heads(op) /\ lines' = lines /\ touched' = touched
    BY <1>3 DEF Record
  <2>3. in' = in
    BY <2>1 DEF Ran, Queued
  <2>4. QED
    BY <1>0, <2>1, <2>2, <2>3
<1>4. QED
  BY <1>1, <1>2, <1>3

\* Is it an operation?
Operates == \/ \E op \in Mutations : Mutate(op)
            \/ \E op \in Operations : Terraform(op) \/ Record(op)

\* An operation of the driver is of one of the services.
LEMMA Operation ==
    ASSUME Operates
    PROVE  \E op \in Operations : (op \in Mutations /\ Mutate(op)) \/ Terraform(op) \/ Record(op)
<1>1. Mutations \subseteq Operations
  BY DEF Mutations, Operations
<1>2. QED
  BY <1>1 DEF Operates

\* The plugins stay plugins, and the app shows what it can show.
LEMMA ShownStep ==
    ASSUME Sound, Next
    PROVE  p' \in Plugins /\ Shown'
<1>0. /\ p \in Plugins /\ g \in Plugins /\ over \in Runners \cup {"apply", "none"}
      /\ prompt \in Prompts \cup {"none"} /\ typed \in BOOLEAN /\ count \in 0..2
  BY DEF Sound, Shown
<1>i. in.verb \in Verbs /\ in.auto \in BOOLEAN /\ in.flags \in BOOLEAN
  BY VerbTyped DEF Sound
<1>1. CASE Ends \/ Begin \/ Wait \/ Capture
  BY <1>0, <1>1, EndsKeep, BeginKeeps, WaitKeeps, CaptureKeeps DEF Shown
<1>2. CASE PlayKey
  <2>1. /\ p' \in Plugins /\ g' \in Plugins
        /\ count' \in 0..2 /\ UNCHANGED <<over, prompt, typed>>
    BY <1>0, <1>2, PlayKeyBy
  <2>2. QED
    BY <1>0, <2>1 DEF Shown
<1>3. CASE PlayCancel \/ PlayYes \/ PlayEnter \/ PlayType
  <2>1. p' = p /\ over' = over /\ count' = count /\ (prompt' = prompt \/ prompt' = "none")
    BY <1>3 DEF PlayCancel, PlayYes, PlayEnter, PlayType
  <2>2. typed' = typed \/ typed' = TRUE
    BY <1>3 DEF PlayCancel, PlayYes, PlayEnter, PlayType
  <2>3. g' = g \/ g' = Started(g, "Loading")
    BY <1>3 DEF PlayCancel, PlayYes, PlayEnter, PlayType
  <2>4. g' \in Plugins
    <3>1. Kept(g, Started(g, "Loading"))
      BY <1>0, Named, PluginChanged
    <3>2. QED
      BY <1>0, <2>3, <3>1 DEF Kept
  <2>5. QED
    BY <1>0, <2>1, <2>2, <2>4 DEF Shown
<1>4. CASE PlayEmit \/ Invalidate
  <2>1. /\ \E event : p' = Emitted(in, p, event)
        /\ UNCHANGED <<over, g, prompt, typed, count>>
    BY <1>4 DEF PlayEmit, Invalidate, app
  <2>2. p' \in Plugins
    BY <1>0, <2>1, EmittedBy
  <2>3. QED
    BY <1>0, <2>1, <2>2 DEF Shown
<1>5. CASE PlayOther \/ LoadWorkspace \/ PassEvent \/ Tick \/ ReadLine
  BY <1>0, <1>5 DEF PlayOther, LoadWorkspace, PassEvent, Tick, ReadLine, app, Shown
<1>6. CASE Startup \/ Submit \/ ReportRefusal
  <2>1. UNCHANGED <<over, g, prompt, typed, count>>
    BY <1>6 DEF Startup, Submit, ReportRefusal, Handled, app
  <2>2. p' \in {Activated(in, p).p, InitSubmitted(p).p, CLIDone(p, "failed").p}
    BY <1>6 DEF Startup, Submit, ReportRefusal, Handled
  <2>3. Kept(p, Activated(in, p).p)
    BY <1>0, <1>i, ActivatedBy
  <2>4. Kept(p, InitSubmitted(p).p) /\ Kept(p, CLIDone(p, "failed").p)
    BY <1>0, SubmittedBy, RefusedBy
  <2>5. p' \in Plugins
    BY <2>2, <2>3, <2>4 DEF Kept
  <2>6. QED
    BY <1>0, <2>1, <2>5 DEF Shown
<1>7. CASE Deactivate
  <2>1. UNCHANGED <<prompt, typed, count>>
    BY <1>7 DEF Deactivate, app
  <2>2. p' \in {p, Reactivated(in, p).p} /\ g' \in {g, NewPlugin} /\ over' \in {over, "none"}
    BY <1>7 DEF Deactivate, app
  <2>3. Kept(p, Reactivated(in, p).p)
    BY <1>0, ReactivatedBy
  <2>4. p' \in Plugins /\ g' \in Plugins
    BY <1>0, <2>2, <2>3, NewPluginTyped DEF Kept
  <2>5. QED
    BY <1>0, <2>1, <2>2, <2>4 DEF Shown
<1>8. CASE PushApply \/ PushRunner
  <2>1. UNCHANGED <<p, prompt, typed, count>>
    BY <1>8 DEF PushApply, PushRunner, Push
  <2>2. over' \in Runners \cup {"apply"}
    BY <1>8 DEF PushApply, PushRunner, Push
  <2>3. \/ \E request \in Applies : g' = ApplyPushed(request).p
        \/ \E verb : g' = RunnerPushed(verb).p
    BY <1>8 DEF PushApply, PushRunner, Push
  <2>4. g' \in Plugins
    BY <2>3, PushedBy DEF Applies
  <2>5. QED
    BY <1>0, <2>1, <2>2, <2>4 DEF Shown
<1>9. CASE OpenPrompt
  <2>1. UNCHANGED <<p, over, g, count>> /\ prompt' \in Prompts /\ typed' = FALSE
    BY <1>9 DEF OpenPrompt
  <2>2. QED
    BY <1>0, <2>1 DEF Shown
<1>10. CASE Operates
  <2>1. PICK op \in Operations, answer \in Replies :
            Ran(op, answer) /\ (op = "preview" => answer \in {"failed", "clean", "changes"})
    BY <1>10, Operation, OperationBy
  <2>2. p' \in Plugins /\ g' \in Plugins /\ UNCHANGED <<over, prompt, typed, count>>
    BY <2>1, RanBy
  <2>3. QED
    BY <1>0, <2>2 DEF Shown
<1>11. QED
  BY <1>1, <1>2, <1>3, <1>4, <1>5, <1>6, <1>7, <1>8, <1>9, <1>10, NextIs DEF Plays, Driver, Operates

\* No code is larger than 3.
LEMMA CodesTyped ==
    /\ \A i : RefusalCode(i) \in {1, 2}
    /\ \A i, q : ExitCode(i, q) \in 0..2
<1>1. \A i : RefusalCode(i) \in {1, 2}
  BY DEF RefusalCode
<1>2. ASSUME NEW i, NEW q
      PROVE  ExitCode(i, q) \in 0..2
  <2>1. PlanExit(q) \in 0..2 /\ ValidateExit(i, q) \in 0..2
    BY DEF PlanExit, ValidateExit
  <2>2. QED
    BY <2>1 DEF ExitCode
<1>3. QED
  BY <1>1, <1>2

\* A handler opens a stream or leaves it.
LEMMA StreamTyped ==
    ASSUME Sound, \/ \E q : Opened(q)
                  \/ UNCHANGED stream
                  \/ lines' \in {lines} \cup 0..MaxLines /\ closed' \in {closed, TRUE}
    PROVE  lines' \in 0..MaxLines /\ closed' \in BOOLEAN
<1>1. lines \in 0..MaxLines /\ closed \in BOOLEAN
  BY DEF Sound, Counted
<1>2. 0 \in 0..MaxLines
  BY BoundsAssumption
<1>3. (\E q : Opened(q)) => lines' \in {lines, 0} /\ closed' \in {closed, FALSE}
  BY DEF Opened, stream
<1>4. QED
  BY <1>1, <1>2, <1>3 DEF stream
\* The lines, rounds and steps stay within their bounds.
LEMMA CountedStep ==
    ASSUME Sound, Next
    PROVE  Counted'
<1>0. /\ lines \in 0..MaxLines /\ closed \in BOOLEAN /\ rounds \in 0..MaxRounds
      /\ steps \in 0..MaxSteps /\ finalized \in BOOLEAN /\ touched \in BOOLEAN /\ out.exit \in 0..3
  BY DEF Sound, Counted
<1>1. CASE Ends
  <2>1. UNCHANGED <<lines, closed, rounds, steps, touched>>
    BY <1>1, EndsKeep
  <2>2. finalized' \in BOOLEAN
    <3>1. in.record \in BOOLEAN
      BY DEF Sound, Inputs, Flag
    <3>2. finalized' = finalized \/ finalized' = in.record
      BY <1>1, EndsKeep
    <3>3. QED
      BY <1>0, <3>1, <3>2
  <2>3. \E o, e : \E code \in 0..3 : out' = Wrote(o, e, code)
    <3>1. CASE Refuse
      <4>1. out' = Wrote("empty", "error", RefusalCode(in)) /\ RefusalCode(in) \in 0..3
        BY <3>1, CodesTyped DEF Refuse, Ended
      <4>2. QED
        BY <4>1
    <3>2. CASE Deadline
      <4>1. out' = Wrote("empty", "timeout", 1) /\ 1 \in 0..3
        BY <3>2 DEF Deadline, Ended
      <4>2. QED
        BY <4>1
    <3>3. CASE PrintResult
      <4>1. out' = Wrote(Stdout(in, p), Stderr(in, p), ExitCode(in, p)) /\ ExitCode(in, p) \in 0..3
        BY <3>3, CodesTyped DEF PrintResult, Ended
      <4>2. QED
        BY <4>1
    <3>4. CASE PlayFails
      <4>1. PICK code \in {1, 3} : out' = Wrote("empty", "error", code)
        BY <3>4 DEF PlayFails, Ended
      <4>2. QED
        BY <4>1
    <3>5. CASE EndOfTape
      <4>1. out' = Wrote("commands", "empty", 0) /\ 0 \in 0..3
        BY <3>5 DEF EndOfTape, Ended
      <4>2. QED
        BY <4>1
    <3>6. QED
      BY <1>1, <3>1, <3>2, <3>3, <3>4, <3>5 DEF Ends
  <2>4. out'.exit \in 0..3
    BY <2>3 DEF Wrote
  <2>5. QED
    BY <1>0, <2>1, <2>2, <2>4 DEF Counted
<1>2. CASE Begin \/ Capture
  BY <1>0, <1>2, BeginKeeps, CaptureKeeps DEF Counted
<1>3. CASE Wait
  <2>1. rounds' \in 0..MaxRounds
    BY <1>0, <1>3, WaitKeeps, BoundsAssumption
  <2>2. QED
    BY <1>0, <1>3, <2>1, WaitKeeps DEF Counted
<1>4. CASE Plays
  <2>1. steps' \in 0..MaxSteps /\ UNCHANGED <<rounds, finalized, touched, out>>
    BY <1>0, <1>4, PlayedKeeps, BoundsAssumption
  <2>2. (\E q : Opened(q)) \/ UNCHANGED stream
    BY <1>4 DEF Plays, PlayKey, PlayCancel, PlayYes, PlayEnter, PlayType, PlayEmit, PlayOther
  <2>3. lines' \in 0..MaxLines /\ closed' \in BOOLEAN
    BY <2>2, StreamTyped
  <2>4. QED
    BY <1>0, <2>1, <2>3 DEF Counted
<1>5. CASE Driver
  <2>1. UNCHANGED <<rounds, steps, finalized, out>>
    BY <1>5, DriverKeeps
  <2>2. lines' \in 0..MaxLines /\ closed' \in BOOLEAN /\ touched' \in BOOLEAN
    <3>1. CASE \/ Startup \/ Submit \/ ReportRefusal \/ Deactivate \/ PushApply \/ PushRunner
               \/ PassEvent \/ Invalidate \/ OpenPrompt \/ Tick
      <4>1. (\E q : Opened(q)) \/ UNCHANGED stream
        BY <3>1 DEF Startup, Submit, ReportRefusal, Handled, Deactivate, PushApply, PushRunner,
                    Push, PassEvent, Invalidate, OpenPrompt, Tick
      <4>2. touched' = touched
        BY <3>1 DEF Startup, Submit, ReportRefusal, Handled, Deactivate, PushApply, PushRunner,
                    Push, PassEvent, Invalidate, OpenPrompt, Tick, deeds
      <4>3. QED
        BY <1>0, <4>1, <4>2, StreamTyped
    <3>2. CASE LoadWorkspace
      <4>1. UNCHANGED stream
        BY <3>2 DEF LoadWorkspace
      <4>2. touched' = (touched \/ svc.kind = "exec")
        BY <3>2 DEF LoadWorkspace
      <4>3. touched' \in BOOLEAN
        BY <1>0, <4>2
      <4>4. QED
        BY <4>1, <4>3, StreamTyped
    <3>3. CASE ReadLine
      <4>1. lines' = (IF lines > 0 THEN lines - 1 ELSE 0) /\ closed' = closed /\ touched' = touched
        BY <3>3 DEF ReadLine, deeds
      <4>2. lines' \in 0..MaxLines
        BY <1>0, <4>1, BoundsAssumption
      <4>3. QED
        BY <1>0, <4>1, <4>2
    <3>4. CASE Operates
      <4>1. PICK op \in Operations :
               (op \in Mutations /\ Mutate(op)) \/ Terraform(op) \/ Record(op)
        BY <3>4, Operation
      <4>2. closed' = TRUE
        <5>1. \E answer : Ran(op, answer)
          BY <4>1, OperationBy
        <5>2. QED
          BY <5>1 DEF Ran
      <4>3. lines' \in {lines} \cup 0..MaxLines
        <5>1. lines' \in (IF p.channel THEN 0..MaxLines ELSE {lines}) \cup {lines}
          BY <4>1, OperationBy
        <5>2. QED
          BY <5>1
      <4>4. touched' \in BOOLEAN
        BY <1>0, <4>1, OperationBy
      <4>5. QED
        BY <4>2, <4>3, <4>4, StreamTyped
    <3>5. QED
      BY <1>5, <3>1, <3>2, <3>3, <3>4 DEF Driver, Operates
  <2>3. QED
    BY <1>0, <2>1, <2>2 DEF Counted
<1>6. QED
  BY <1>1, <1>2, <1>3, <1>4, <1>5, NextIs

\* Frames are captured in step with the tape.
LEMMA FramedStep ==
    ASSUME Sound, Next
    PROVE  Framed'
<1>0. /\ in' = in /\ (Refused(in))' = Refused(in) /\ DryRun' = DryRun /\ Recording' = Recording
      /\ Over' <=> phase' = "ended"
  BY LineKept DEF Recording, Over
<1>1. Framed /\ Phased
  BY DEF Sound
<1>c. steps \in Nat
  BY BoundsAssumption DEF Sound, Counted
<1>2. CASE Refuse
  <2>1. phase = "start" /\ phase' = "ended" /\ Refused(in) /\ UNCHANGED <<steps, frames, finalized>>
    BY <1>2 DEF Refuse, Ended, tape
  <2>2. ~finalized /\ ~Recording
    BY <1>1, <2>1 DEF Framed, Over, Recording
  <2>3. QED
    BY <1>0, <1>1, <2>1, <2>2 DEF Framed
<1>3. CASE Begin
  BY <1>0, <1>1, <1>3, BeginKeeps DEF Framed, Over
<1>4. CASE Driver \/ Wait
  <2>1. phase = "run" /\ phase' = "run" /\ UNCHANGED <<steps, frames, finalized>>
    BY <1>4, DriverKeeps, WaitKeeps
  <2>2. QED
    BY <1>0, <1>1, <2>1 DEF Framed, Over
<1>5. CASE Deadline \/ PrintResult
  <2>1. phase = "run" /\ phase' = "ended" /\ ~DryRun /\ UNCHANGED <<steps, frames, finalized>>
    BY <1>5 DEF Deadline, PrintResult, Idle, Ended, tape
  <2>2. QED
    BY <1>0, <1>1, <2>1 DEF Framed, Over, Recording
<1>6. CASE Capture
  <2>1. ~Refused(in)
    BY <1>1, <1>6, CaptureKeeps DEF Phased
  <2>2. QED
    BY <1>0, <1>1, <1>6, <2>1, CaptureKeeps DEF Framed, Over, Recording
<1>7. CASE Plays
  <2>1. /\ phase = "tape" /\ phase' = "run" /\ steps' = steps + 1
        /\ UNCHANGED <<frames, finalized>>
    BY <1>7, PlayedKeeps
  <2>2. QED
    BY <1>0, <1>1, <1>c, <2>1 DEF Framed, Over
<1>8. CASE PlayFails \/ EndOfTape
  <2>1. phase = "tape" /\ phase' = "ended" /\ finalized' = in.record /\ UNCHANGED <<steps, frames>>
    BY <1>8 DEF PlayFails, EndOfTape, Playing, Ended
  <2>2. DryRun
    BY <1>1, <2>1 DEF Phased
  <2>3. QED
    BY <1>0, <1>1, <2>1, <2>2 DEF Framed, Over
<1>9. QED
  BY <1>2, <1>3, <1>4, <1>5, <1>6, <1>7, <1>8, NextIs DEF Ends

\* Every step keeps the session sound.
LEMMA SoundStep == Sound /\ [Next]_vars => Sound'
<1> SUFFICES ASSUME Sound, [Next]_vars PROVE Sound'
  OBVIOUS
<1>1. CASE Next
  <2>1. in' \in Inputs
    BY <1>1, LineKept DEF Sound
  <2>2. QED
    BY <1>1, <2>1, ShownStep, PhasedStep, WiredStep, CountedStep, FramedStep DEF Sound
<1>2. CASE UNCHANGED vars
  BY <1>2 DEF vars, app, services, stream, tape, deeds, Sound, Shown, Phased, Counted, Framed,
              Wired, Kind, Recording, Over, DryRun
<1>3. QED
  BY <1>1, <1>2

\* So it always is.
LEMMA AlwaysSound == Spec => []Sound
<1>1. QED
  BY BeginTyped, SoundStep, PTL DEF Spec

(* Everything the session keeps has its type, for any bound on the tape, the    *)
(* output and the deadline.                                                     *)
THEOREM SessionTypesCorrect == Spec => []TypeOK
<1>1. Sound => TypeOK
  <2> SUFFICES ASSUME Sound PROVE TypeOK
    OBVIOUS
  <2>1. \A q \in Plugins : /\ q.status \in Statuses /\ q.timer \in BOOLEAN /\ q.channel \in BOOLEAN
                           /\ q.stale \in BOOLEAN /\ q.pending \in Applies \cup {"none"}
    BY DEF Plugins
  <2>2. phase \in {"start", "run", "tape", "ended"} /\ in \in Inputs
    BY DEF Sound, Phased
  <2>3. frames \in 0..(MaxSteps + 1)
    <3>1. frames = 0 \/ frames = steps \/ frames = steps + 1
      BY <2>2 DEF Sound, Framed
    <3>2. steps \in 0..MaxSteps
      BY DEF Sound, Counted
    <3>3. QED
      BY <3>1, <3>2, BoundsAssumption
  <2>4. p \in Plugins /\ Shown /\ Counted
    BY DEF Sound
  <2>5. QED
    BY <2>1, <2>2, <2>3, <2>4 DEF Shown, Counted, TypeOK
<1>2. QED
  BY <1>1, AlwaysSound, PTL

(* A recording has one frame for the start and one for each command that was    *)
(* played, and is written whether or not the tape failed (MacroRunner and its   *)
(* Recorder); a session without a tape records nothing.                         *)
THEOREM RecordingsComplete == Spec => []RecordingIsComplete
<1>1. Sound => RecordingIsComplete
  BY DEF Sound, Framed, Recording, Over, RecordingIsComplete
<1>2. QED
  BY <1>1, AlwaysSound, PTL

-----------------------------------------------------------------------------
(* Dry runs *)

(* A macro writes commands down and never runs one: whatever its keys open and  *)
(* in whatever directory, the service the app and its plugins hold is the one   *)
(* that records (RunPlugin, App.Init, MacroService.WithDir), so a session with  *)
(* --macro runs no terraform, nor does one refused before dispatch.             *)
THEOREM DryRunsTouchNothing == Spec => []DryRunTouchesNothing
<1>1. Init => DryRunTouchesNothing
  BY DEF Init, DryRunTouchesNothing
<1>2. Sound /\ DryRunTouchesNothing /\ [Next]_vars => DryRunTouchesNothing'
  <2> SUFFICES ASSUME Sound, DryRunTouchesNothing, [Next]_vars
               PROVE  DryRunTouchesNothing'
    OBVIOUS
  <2>1. CASE UNCHANGED vars
    BY <2>1 DEF vars, deeds, DryRunTouchesNothing, DryRun
  <2>2. CASE Next
    <3>0. DryRun' = DryRun /\ (Refused(in))' = Refused(in)
      BY <2>2, LineKept
    <3>1. touched' = touched \/ (phase = "run" /\ (svc.kind = "exec" \/ bound.kind = "exec"))
      <4>1. CASE Ends \/ Begin \/ Wait \/ Capture \/ Plays
        BY <4>1, EndsKeep, BeginKeeps, WaitKeeps, CaptureKeeps, PlayedKeeps
      <4>2. CASE LoadWorkspace
        <5>1. touched' = (touched \/ svc.kind = "exec") /\ phase = "run" /\ touched \in BOOLEAN
          BY <4>2 DEF LoadWorkspace, Heads, Sound, Counted
        <5>2. QED
          BY <5>1
      <4>3. CASE \/ Startup \/ Submit \/ ReportRefusal \/ Deactivate \/ PushApply \/ PushRunner
                 \/ PassEvent \/ Invalidate \/ OpenPrompt \/ Tick \/ ReadLine
        BY <4>3 DEF Startup, Submit, ReportRefusal, Handled, Deactivate, PushApply, PushRunner,
                    Push, PassEvent, Invalidate, OpenPrompt, Tick, ReadLine, deeds
      <4>4. CASE Operates
        <5>1. PICK op \in Operations :
                 (op \in Mutations /\ Mutate(op)) \/ Terraform(op) \/ Record(op)
          BY <4>4, Operation
        <5>2. Heads(op) /\ (touched' = touched \/ bound.kind = "exec")
          BY <5>1, OperationBy
        <5>3. QED
          BY <5>2 DEF Heads
      <4>5. QED
        BY <2>2, <4>1, <4>2, <4>3, <4>4, NextIs DEF Driver, Operates
    <3>2. phase = "run" => ~Refused(in) /\ svc.kind = Kind /\ bound.kind = Kind
      BY DEF Sound, Phased, Wired
    <3>3. DryRun => Kind # "exec"
      BY DEF Kind
    <3>4. QED
      BY <3>0, <3>1, <3>2, <3>3 DEF DryRunTouchesNothing
  <2>3. QED
    BY <2>1, <2>2
<1>3. QED
  BY <1>1, <1>2, AlwaysSound, PTL DEF Spec
-----------------------------------------------------------------------------
(* What is asked for and what is changed *)

Deeds == {"mutate", "edit", "apply", "init"}
Listed == changes \in Seq(Deeds) /\ asked \in Seq(Deeds)

(* A recorded plan has changes only where one was seeded, and nothing was done  *)
(* before the start.                                                            *)
Seeds ==
    /\ DryRun /\ p.data = "changes" => Seeded("plan")
    /\ phase = "start" => /\ changes = <<>> /\ asked = <<>>
                          /\ count = Targets /\ p = NewPlugin

(* Nothing is owed: what the agenda holds changes nothing.                      *)
Even ==
    /\ agenda \in Seq(Harmless) /\ p.pending # "autoApply"
    /\ ChangesOnlyAsked /\ (DryRun => asked = changes)

(* One change is owed, by the command of the agenda that leads to it ...        *)
Owing ==
    /\ p.pending # "autoApply"
    /\ \E c \in Weighty : /\ Carries(Harmless, c, agenda)
                          /\ asked = changes \o Owes(c, count)
                          /\ c = "startup" => count = Targets

(* ... or by the plan, which is about to be run again, and whose recorded       *)
(* answer, the seeded one, will fire the apply that was deferred.               *)
Deferred ==
    /\ DryRun /\ agenda # <<>> /\ Head(agenda) = "plan" /\ Tail(agenda) \in Seq(Harmless)
    /\ p.pending = "autoApply" /\ ~in.json /\ Seeded("plan")
    /\ asked = changes \o <<"apply">>

Balanced == Even \/ Owing \/ Deferred

\* Nothing put behind a list leaves the list.
LEMMA NothingSaid ==
    ASSUME NEW S, NEW s \in Seq(S)
    PROVE  s \o <<>> = s
BY ConcatEmptySeq

\* A list and its start, with more of one thing behind each.
LEMMA SaidLess ==
    ASSUME NEW s \in Seq(Deeds), NEW c \in Deeds, NEW n \in Nat, NEW k \in 0..n
    PROVE  \A j \in DOMAIN (s \o Repeat(c, k)) :
              j \in DOMAIN (s \o Repeat(c, n)) /\ (s \o Repeat(c, k))[j] = (s \o Repeat(c, n))[j]
<1>1. \A m \in Nat : Repeat(c, m) \in Seq(Deeds) /\ Len(Repeat(c, m)) = m
                     /\ \A j \in 1..m : Repeat(c, m)[j] = c
  BY DEF Repeat
<1>2. \A m \in Nat : /\ s \o Repeat(c, m) \in Seq(Deeds) /\ Len(s \o Repeat(c, m)) = Len(s) + m
                     /\ \A j \in 1..(Len(s) + m) :
                           (s \o Repeat(c, m))[j] = IF j <= Len(s) THEN s[j] ELSE c
  <2> TAKE m \in Nat
  <2> DEFINE r == Repeat(c, m)
  <2>1. r \in Seq(Deeds) /\ Len(r) = m /\ \A j \in 1..m : r[j] = c
    BY <1>1
  <2> HIDE DEF r
  <2>2. /\ s \o r \in Seq(Deeds) /\ Len(s \o r) = Len(s) + Len(r)
        /\ \A j \in 1..(Len(s) + Len(r)) : (s \o r)[j] = IF j <= Len(s) THEN s[j] ELSE r[j - Len(s)]
    BY <2>1, ConcatProperties
  <2>3. Len(s) \in Nat
    BY LenProperties
  <2>4. \A j \in 1..(Len(s) + m) : (s \o r)[j] = IF j <= Len(s) THEN s[j] ELSE c
    BY <2>1, <2>2, <2>3
  <2>5. QED
    BY <2>1, <2>2, <2>4 DEF r
<1> DEFINE x == s \o Repeat(c, k)
           y == s \o Repeat(c, n)
<1>3. /\ x \in Seq(Deeds) /\ Len(x) = Len(s) + k
      /\ \A j \in 1..(Len(s) + k) : x[j] = IF j <= Len(s) THEN s[j] ELSE c
  <2>1. k \in Nat
    OBVIOUS
  <2>2. QED
    BY <1>2, <2>1, Zenon
<1>4. /\ y \in Seq(Deeds) /\ Len(y) = Len(s) + n
      /\ \A j \in 1..(Len(s) + n) : y[j] = IF j <= Len(s) THEN s[j] ELSE c
  BY <1>2
<1> HIDE DEF x, y
<1>5. Len(s) \in Nat
  BY LenProperties
<1>6. \A j \in DOMAIN x : j \in DOMAIN y /\ x[j] = y[j]
  BY <1>3, <1>4, <1>5
<1>7. QED
  BY <1>6 DEF x, y

\* What a command owes, or an operation changes, is a list of changes.
LEMMA OwesTyped ==
    ASSUME NEW n \in Nat
    PROVE  /\ \A c \in Weighty : Owes(c, n) \in Seq(Deeds)
           /\ Repeat("mutate", n) \in Seq(Deeds) /\ Repeat("edit", n) \in Seq(Deeds)
           /\ \A op \in {"plan", "preview", "read"} : Change(op, n) = <<>>
           /\ \A op \in {"apply", "init"} \cup Mutations : Change(op, n) = Owes(op, n)
<1>1. Repeat("mutate", n) \in Seq(Deeds) /\ Repeat("edit", n) \in Seq(Deeds)
  BY DEF Repeat, Deeds
<1>2. <<>> \in Seq(Deeds) /\ <<"apply">> \in Seq(Deeds) /\ <<"init">> \in Seq(Deeds)
  BY DEF Deeds
<1>3. \A c \in Weighty : Owes(c, n) \in Seq(Deeds)
  <2> TAKE c \in Weighty
  <2>1. CASE c \in Mutations
    BY <1>1, <2>1 DEF Owes, Mutations
  <2>2. CASE c \in {"apply", "autoApply"}
    BY <1>2, <2>2 DEF Owes, Mutations
  <2>3. CASE c \in {"submit", "init"}
    BY <1>2, <2>3 DEF Owes, Mutations
  <2>4. CASE c \notin Mutations \cup {"apply", "autoApply", "submit", "init"}
    BY <1>2, <2>4 DEF Owes
  <2>5. QED
    BY <2>1, <2>2, <2>3, <2>4
<1>4. \A op \in {"plan", "preview", "read"} : Change(op, n) = <<>>
  BY DEF Change, Mutations
<1>5. \A op \in {"apply", "init"} \cup Mutations : Change(op, n) = Owes(op, n)
  BY DEF Change, Mutations, Owes
<1>6. QED
  BY <1>1, <1>3, <1>4, <1>5

\* The start asks for what its first command owes.
LEMMA CommandedIs ==
    ASSUME in \in Inputs
    PROVE  /\ First(in) = {} => Commanded = <<>>
           /\ \A c \in First(in) \cap Weighty : Commanded = Owes(c, Targets)
           /\ \A c \in First(in) \ Weighty : c \in Harmless /\ Commanded = <<>>
           /\ "startup" \notin First(in) /\ Targets \in 0..2 /\ Commanded \in Seq(Deeds)
<1>0. in.verb \in Verbs /\ in.auto \in BOOLEAN /\ in.flags \in BOOLEAN /\ in.args \in 0..2
  BY VerbTyped
<1>t. Targets \in 0..2
  BY <1>0 DEF Targets
<1>1. \/ First(in) = {} /\ Commanded = <<>>
      \/ First(in) \in {{"plan"}, {"preview"}, {"refused"}, {"read"}} /\ Commanded = <<>>
      \/ First(in) = {"apply"} /\ Commanded = <<"apply">>
      \/ First(in) = {"submit"} /\ Commanded = <<"init">>
      \/ First(in) = {"mutate"} /\ Commanded = Repeat("mutate", Targets)
  <2>1. CASE in.verb = "plan"
    BY <2>1 DEF First, Commanded, StateCLI, Runners
  <2>2. CASE in.verb = "apply"
    BY <2>2, <1>0 DEF First, Commanded
  <2>3. CASE in.verb = "init"
    BY <2>3, <1>0 DEF First, Commanded
  <2>4. CASE in.verb \in StateCLI
    BY <2>4 DEF First, Commanded, StateCLI, Runners
  <2>5. CASE in.verb \in Runners
    BY <2>5 DEF First, Commanded, StateCLI, Runners
  <2>6. CASE in.verb \notin {"plan", "apply", "init"} \cup StateCLI \cup Runners
    BY <2>6 DEF First, Commanded
  <2>7. QED
    BY <2>1, <2>2, <2>3, <2>4, <2>5, <2>6
<1>2. /\ {"plan", "preview", "refused", "read"} \subseteq Harmless
      /\ {"apply", "submit", "mutate"} \subseteq Weighty
      /\ {"plan", "preview", "refused", "read"} \cap Weighty = {}
  BY DEF Harmless, Weighty, Mutations
<1>3. /\ Owes("apply", Targets) = <<"apply">> /\ Owes("submit", Targets) = <<"init">>
      /\ Owes("mutate", Targets) = Repeat("mutate", Targets)
  BY DEF Owes, Mutations
<1>4. Commanded \in Seq(Deeds)
  <2>1. <<>> \in Seq(Deeds) /\ <<"apply">> \in Seq(Deeds) /\ <<"init">> \in Seq(Deeds)
    BY DEF Deeds
  <2>2. Repeat("mutate", Targets) \in Seq(Deeds)
    BY <1>t, OwesTyped
  <2>3. QED
    BY <1>1, <2>1, <2>2
<1>5. QED
  BY <1>1, <1>2, <1>3, <1>4, <1>t
\* A session starts even.
LEMMA BeginBalanced == Init => Listed /\ Seeds /\ Balanced
<1> SUFFICES ASSUME Init PROVE Listed /\ Seeds /\ Balanced
  OBVIOUS
<1>1. agenda = <<>> /\ changes = <<>> /\ asked = <<>> /\ count = Targets /\ p = NewPlugin
  BY DEF Init
<1>2. Listed
  BY <1>1 DEF Listed
<1>3. Seeds
  BY <1>1, NewPluginTyped DEF Seeds
<1>4. p.pending # "autoApply"
  BY <1>1, NewPluginTyped
<1>5. Even
  BY <1>1, <1>4, KeyAgendas DEF Even, ChangesOnlyAsked
<1>6. QED
  BY <1>2, <1>3, <1>5 DEF Balanced

\* The start leads to what the command line asks for.
LEMMA OpenedBalanced ==
    ASSUME Sound, Seeds, Begin
    PROVE  Balanced'
<1>1. /\ agenda' = <<"workspace", "startup">>
      /\ UNCHANGED <<in, p, count, changes, asked>>
      /\ phase = "start"
  BY BeginKeeps
<1>2. changes = <<>> /\ asked = <<>> /\ count = Targets /\ p = NewPlugin
  BY <1>1 DEF Seeds
<1>3. p.pending # "autoApply"
  BY <1>2, NewPluginTyped
<1>4. Carries(Harmless, "startup", <<"workspace", "startup">>)
  <2>1. "workspace" \in Harmless
    BY DEF Harmless
  <2>2. \A a \in Harmless : Carries(Harmless, "startup", <<a, "startup">>)
    BY Written, Zenon
  <2>3. QED
    BY <2>1, <2>2, Zenon
<1>5. Owes("startup", count) = <<>> /\ asked = changes \o <<>>
  BY <1>2, KeyDebts
<1>6. count' = Targets'
  BY <1>1, <1>2 DEF Targets
<1>7. Carries(Harmless, "startup", agenda')
  BY <1>1, <1>4, Zenon
<1>8. asked' = changes' \o Owes("startup", count')
  BY <1>1, <1>5
<1>9. "startup" \in Weighty
  BY DEF Weighty
<1>10. Owing'
  BY <1>1, <1>3, <1>6, <1>7, <1>8, <1>9, Zenon DEF Owing
<1>11. QED
  BY <1>10 DEF Balanced

\* A session that is even, and asks for nothing, stays so.
LEMMA StaysEven ==
    ASSUME Even, DryRun' = DryRun, UNCHANGED <<changes, asked>>,
           agenda' \in Seq(Harmless), p'.pending # "autoApply"
    PROVE  Balanced'
BY DEF Even, ChangesOnlyAsked, Balanced

\* Between the commands of a tape, nothing is owed.
LEMMA RestsEven ==
    ASSUME Balanced, agenda = <<>>
    PROVE  Even
<1>1. ~Owing
  <2> SUFFICES ASSUME Owing PROVE FALSE
    OBVIOUS
  <2>1. PICK c : Carries(Harmless, c, agenda)
    BY DEF Owing
  <2>2. agenda # <<>>
    BY <2>1, CarriedOpens
  <2>3. QED
    BY <2>2
<1>2. ~Deferred
  BY DEF Deferred
<1>3. QED
  BY <1>1, <1>2 DEF Balanced

\* A command that changes nothing leaves what is owed to the rest of the agenda.
LEMMA StaysOwing ==
    ASSUME Balanced, p.pending # "autoApply", agenda # <<>>, Head(agenda) \in Harmless,
           NEW t \in Seq(Harmless), agenda' = t \o Tail(agenda),
           UNCHANGED <<in, changes, asked, count>>, p'.pending # "autoApply"
    PROVE  Balanced'
<1>0. DryRun' = DryRun /\ Targets' = Targets
  BY DEF DryRun, Targets
<1>1. CASE Even
  <2>1. agenda' \in Seq(Harmless)
    <3>1. Tail(agenda) \in Seq(Harmless)
      BY <1>1, HeadOfSeq DEF Even
    <3>2. QED
      BY <3>1, Joined
  <2>2. QED
    BY <1>0, <1>1, <2>1, StaysEven
<1>2. CASE Owing
  <2>1. PICK c \in Weighty : /\ Carries(Harmless, c, agenda)
                             /\ asked = changes \o Owes(c, count)
                             /\ c = "startup" => count = Targets
    BY <1>2, Zenon DEF Owing
  <2>2. Head(agenda) # c
    BY CommandsApart
  <2>3. Carries(Harmless, c, Tail(agenda))
    BY <2>1, <2>2, CarriedOpens
  <2>4. Carries(Harmless, c, agenda')
    BY <2>3, CarriedBehind
  <2>5. asked' = changes' \o Owes(c, count') /\ (c = "startup" => count' = Targets')
    BY <1>0, <2>1
  <2>6. Owing'
    BY <2>4, <2>5, Zenon DEF Owing
  <2>7. QED
    BY <2>6 DEF Balanced
<1>3. QED
  BY <1>1, <1>2 DEF Balanced, Deferred

\* When a command that leads to a change is run, what is owed is what it leads to.
LEMMA Pays ==
    ASSUME Balanced, agenda # <<>>, Head(agenda) \in Weighty
    PROVE  /\ Tail(agenda) \in Seq(Harmless) /\ p.pending # "autoApply"
           /\ asked = changes \o Owes(Head(agenda), count)
           /\ Head(agenda) = "startup" => count = Targets
<1>1. ~Even
  <2> SUFFICES ASSUME Even PROVE FALSE
    OBVIOUS
  <2>1. Head(agenda) \in Harmless
    BY HeadOfSeq DEF Even
  <2>2. QED
    BY <2>1, CommandsApart
<1>2. ~Deferred
  BY CommandsApart DEF Deferred, Harmless
<1>3. Owing
  BY <1>1, <1>2 DEF Balanced
<1>4. PICK c \in Weighty : /\ Carries(Harmless, c, agenda)
                           /\ asked = changes \o Owes(c, count)
                           /\ c = "startup" => count = Targets
  BY <1>3, Zenon DEF Owing
<1>5. Head(agenda) \notin Harmless
  BY CommandsApart
<1>6. Head(agenda) = c /\ Tail(agenda) \in Seq(Harmless)
  BY <1>4, <1>5, CarriedOpens
<1>7. QED
  BY <1>3, <1>4, <1>6 DEF Owing
\* What an operation changes: in a dry run, everything it owes; in a live one, as
\* far as it came.
LEMMA OperationDoes ==
    ASSUME Sound, NEW op \in Operations,
           (op \in Mutations /\ Mutate(op)) \/ Terraform(op) \/ Record(op)
    PROVE  /\ DryRun => Record(op) /\ changes' = changes \o Change(op, count)
           /\ \E n \in 0..count : changes' = changes \o Change(op, n)
<1>0. count \in 0..2 /\ count \in 0..count
  BY DEF Sound, Shown
<1>k. bound.kind = Kind
  <2>1. phase = "run"
    BY OperationBy DEF Heads
  <2>2. QED
    BY <2>1 DEF Sound, Wired
<1>1. CASE op \in Mutations /\ Mutate(op)
  <2>1. ~DryRun
    BY <1>1, <1>k DEF Mutate, Kind
  <2>2. PICK done \in 0..count :
            changes' = changes \o Change(op, IF done < count THEN done + 1 ELSE done)
    BY <1>1 DEF Mutate
  <2>3. \E n \in 0..count : n = (IF done < count THEN done + 1 ELSE done)
    BY <1>0
  <2>4. QED
    BY <2>1, <2>2, <2>3
<1>2. CASE Terraform(op)
  <2>1. ~DryRun
    BY <1>2, <1>k DEF Terraform, Kind
  <2>2. changes' = changes \o Change(op, 1) /\ op \notin Mutations
    BY <1>2 DEF Terraform
  <2>3. Change(op, 1) = Change(op, count)
    BY <2>2 DEF Change
  <2>4. QED
    BY <1>0, <2>1, <2>2, <2>3
<1>3. CASE Record(op)
  BY <1>0, <1>3 DEF Record
<1>4. QED
  BY <1>1, <1>2, <1>3

\* A recorded plan has the changes of the one that was seeded.
LEMMA SeedsStep ==
    ASSUME Sound, Seeds, Next
    PROVE  Seeds'
<1>0. DryRun' = DryRun /\ p \in Plugins
  BY LineKept DEF Sound
<1>1. phase' # "start"
  BY NextIs, EndsKeep, BeginKeeps, WaitKeeps, CaptureKeeps, PlayedKeeps, DriverKeeps
<1>2. DryRun /\ p'.data = "changes" => Seeded("plan")'
  <2> SUFFICES ASSUME DryRun, p'.data = "changes" PROVE Seeded("plan")'
    OBVIOUS
  <2>1. ASSUME p.data = "changes" \/ Seeded("plan"), bound' = bound
        PROVE  Seeded("plan")'
    BY <2>1 DEF Seeds, Seeded
  <2>2. CASE Ends \/ Wait \/ Capture
    BY <2>1, <2>2, EndsKeep, WaitKeeps, CaptureKeeps
  <2>3. CASE Begin
    <3>1. p' = NewPlugin
      BY <2>3, BeginKeeps DEF Seeds
    <3>2. QED
      BY <3>1, NewPluginTyped
  <2>4. CASE Plays
    <3>1. bound' = bound
      BY <2>4, PlayedKeeps
    <3>2. CASE PlayKey
      <4>1. p' = p \/ p'.data \in {p.data, "none"}
        BY <3>2, PlayKeyBy
      <4>2. QED
        BY <2>1, <3>1, <4>1
    <3>3. CASE PlayEmit
      <4>1. PICK event : p' = Emitted(in, p, event)
        BY <3>3 DEF PlayEmit
      <4>2. p'.data \in {p.data, "none"}
        BY <1>0, <4>1, EmittedBy
      <4>3. QED
        BY <2>1, <3>1, <4>2
    <3>4. CASE PlayCancel \/ PlayYes \/ PlayEnter \/ PlayType \/ PlayOther
      <4>1. p' = p
        BY <3>4 DEF PlayCancel, PlayYes, PlayEnter, PlayType, PlayOther
      <4>2. QED
        BY <2>1, <3>1, <4>1
    <3>5. QED
      BY <2>4, <3>2, <3>3, <3>4 DEF Plays
  <2>5. CASE Driver
    <3>1. bound' = bound
      BY <2>5, DriverKeeps
    <3>2. CASE \/ LoadWorkspace \/ PassEvent \/ PushApply \/ PushRunner \/ OpenPrompt
               \/ Tick \/ ReadLine
      <4>1. p' = p
        BY <3>2 DEF LoadWorkspace, PassEvent, PushApply, PushRunner, Push, OpenPrompt, Tick, ReadLine
      <4>2. QED
        BY <2>1, <3>1, <4>1
    <3>3. CASE Invalidate
      <4>1. p' = Emitted(in, p, "stale")
        BY <3>3 DEF Invalidate
      <4>2. p'.data \in {p.data, "none"}
        BY <1>0, <4>1, EmittedBy
      <4>3. QED
        BY <2>1, <3>1, <4>2
    <3>4. CASE Startup \/ Submit \/ ReportRefusal \/ Deactivate
      <4>1. p' \in {p, Activated(in, p).p, InitSubmitted(p).p, CLIDone(p, "failed").p,
                    Reactivated(in, p).p}
        BY <3>4 DEF Startup, Submit, ReportRefusal, Handled, Deactivate
      <4>2. Kept(p, Activated(in, p).p)
        BY <1>0, ActivatedBy, VerbTyped DEF Sound
      <4>3. Kept(p, InitSubmitted(p).p) /\ Kept(p, CLIDone(p, "failed").p)
        BY <1>0, SubmittedBy, RefusedBy
      <4>4. Kept(p, Reactivated(in, p).p)
        BY <1>0, ReactivatedBy
      <4>5. p'.data = p.data
        BY <4>1, <4>2, <4>3, <4>4 DEF Kept
      <4>6. QED
        BY <2>1, <3>1, <4>5
    <3>5. CASE Operates
      <4>1. PICK op \in Operations :
               (op \in Mutations /\ Mutate(op)) \/ Terraform(op) \/ Record(op)
        BY <3>5, Operation
      <4>2. Ran(op, Recorded(op))
        BY <4>1, OperationDoes DEF Record
      <4>3. /\ Recorded(op) \in Replies
            /\ op = "preview" => Recorded(op) \in {"failed", "clean", "changes"}
            /\ Recorded(op) = "changes" => Seeded("plan")
        BY AnswersTyped
      <4>4. p'.data = "changes" => p.data = "changes" \/ Recorded(op) = "changes"
        BY <4>2, <4>3, RanBy
      <4>5. QED
        BY <2>1, <3>1, <4>3, <4>4
    <3>6. QED
      BY <2>5, <3>2, <3>3, <3>4, <3>5 DEF Driver, Operates
  <2>6. QED
    BY <2>2, <2>3, <2>4, <2>5, NextIs
<1>3. QED
  BY <1>0, <1>1, <1>2 DEF Seeds, Seeded

\* What a key asks for is a list of changes.
LEMMA AsksTyped ==
    ASSUME NEW i, NEW q, NEW key, NEW n \in Nat, NEW s,
           Mild(i, q, key, n, s) \/ Grave(i, q, key, n, s) \/ Delayed(i, q, key, n, s)
    PROVE  Asks(i, q, key, n) \in Seq(Deeds)
<1>1. <<>> \in Seq(Deeds) /\ <<"apply">> \in Seq(Deeds)
  BY DEF Deeds
<1>2. \A c \in Weighty : Owes(c, n) \in Seq(Deeds)
  BY OwesTyped
<1>3. QED
  BY <1>1, <1>2 DEF Mild, Grave, Delayed

\* Both lists are of changes.
LEMMA ListedStep ==
    ASSUME Sound, Listed, Next
    PROVE  Listed'
<1>0. count \in Nat /\ changes \in Seq(Deeds) /\ asked \in Seq(Deeds)
  BY DEF Sound, Shown, Listed
<1>1. CASE Ends \/ Wait \/ Capture \/ Begin
  BY <1>0, <1>1, EndsKeep, WaitKeeps, CaptureKeeps, BeginKeeps DEF Listed
<1>2. CASE PlayKey
  <2>1. \E s \in Seq(Deeds) : asked' = asked \o s
    BY <1>0, <1>2, PlayKeyBy, AsksTyped
  <2>2. asked' \in Seq(Deeds)
    BY <1>0, <2>1, Joined
  <2>3. Plays
    BY <1>2 DEF Plays
  <2>4. QED
    BY <1>0, <2>2, <2>3, PlayedKeeps DEF Listed
<1>3. CASE PlayYes
  <2>1. /\ asked' = asked \o Repeat("edit", count) \/ asked' = asked \o Repeat("mutate", count)
        /\ Plays
    BY <1>3 DEF PlayYes, Plays
  <2>2. Repeat("edit", count) \in Seq(Deeds) /\ Repeat("mutate", count) \in Seq(Deeds)
    BY <1>0, OwesTyped
  <2>3. asked' \in Seq(Deeds)
    BY <1>0, <2>1, <2>2, Joined
  <2>4. QED
    BY <1>0, <2>1, <2>3, PlayedKeeps DEF Listed
<1>4. CASE PlayCancel \/ PlayEnter \/ PlayType \/ PlayEmit \/ PlayOther
  <2>1. asked' = asked /\ Plays
    BY <1>4 DEF PlayCancel, PlayEnter, PlayType, PlayEmit, PlayOther, Plays
  <2>2. QED
    BY <1>0, <2>1, PlayedKeeps DEF Listed
<1>5. CASE Startup
  <2>1. asked' = asked \o Commanded /\ changes' = changes
    BY <1>5 DEF Startup, Handled, deeds
  <2>2. Commanded \in Seq(Deeds)
    BY CommandedIs DEF Sound
  <2>3. asked' \in Seq(Deeds)
    BY <1>0, <2>1, <2>2, Joined
  <2>4. QED
    BY <1>0, <2>1, <2>3 DEF Listed
<1>6. CASE \/ LoadWorkspace \/ Submit \/ ReportRefusal \/ PassEvent \/ Invalidate \/ Deactivate
           \/ PushApply \/ PushRunner \/ OpenPrompt \/ Tick \/ ReadLine
  BY <1>0, <1>6 DEF LoadWorkspace, Submit, ReportRefusal, Handled, PassEvent, Invalidate, Deactivate,
                    PushApply, PushRunner, Push, OpenPrompt, Tick, ReadLine, deeds, Listed
<1>7. CASE Operates
  <2>1. PICK op \in Operations :
           (op \in Mutations /\ Mutate(op)) \/ Terraform(op) \/ Record(op)
    BY <1>7, Operation
  <2>2. PICK n \in 0..count : changes' = changes \o Change(op, n)
    BY <2>1, OperationDoes
  <2>3. asked' = asked
    <3>1. \E answer : Ran(op, answer)
      BY <2>1, OperationBy
    <3>2. QED
      BY <3>1 DEF Ran
  <2>4. Change(op, n) \in Seq(Deeds)
    <3>1. n \in Nat
      BY <1>0
    <3>2. op \in {"plan", "preview", "read"} \/ op \in {"apply", "init"} \cup Mutations
      BY DEF Operations, Mutations
    <3>3. {"apply", "init"} \cup Mutations \subseteq Weighty
      BY DEF Weighty
    <3>4. CASE op \in {"plan", "preview", "read"}
      <4>1. Change(op, n) = <<>>
        BY <3>1, <3>4, OwesTyped
      <4>2. QED
        BY <4>1
    <3>5. CASE op \in {"apply", "init"} \cup Mutations
      <4>1. Change(op, n) = Owes(op, n) /\ Owes(op, n) \in Seq(Deeds)
        BY <3>1, <3>3, <3>5, OwesTyped
      <4>2. QED
        BY <4>1
    <3>6. QED
      BY <3>2, <3>4, <3>5
  <2>5. changes' \in Seq(Deeds)
    BY <1>0, <2>2, <2>4, Joined
  <2>6. QED
    BY <1>0, <2>3, <2>5 DEF Listed
<1>8. QED
  BY <1>1, <1>2, <1>3, <1>4, <1>5, <1>6, <1>7, NextIs DEF Plays, Driver, Operates
\* A key leaves nothing owed, one command that owes a change, or a deferred apply.
LEMMA KeyBalanced ==
    ASSUME Sound, Listed, Seeds, Balanced, PlayKey
    PROVE  Balanced'
<1>0. /\ phase = "tape" /\ DryRun /\ agenda = <<>> /\ Plays
      /\ DryRun' = DryRun /\ UNCHANGED <<in, bound, changes>>
  <2>1. Plays /\ Next
    BY NextIs DEF Plays
  <2>2. QED
    BY <2>1, PlayedKeeps, LineKept DEF Sound, Phased
<1>1. Even /\ asked = changes
  BY <1>0, RestsEven DEF Even
<1>2. PICK i, q, key, s :
          /\ \/ i = in /\ q = p /\ p' = s.p /\ g' = g
             \/ i = Guest /\ q = g /\ g' = s.p /\ p' = p /\ ~Delayed(i, q, key, count, s)
          /\ s.p \in Plugins /\ s.p.data \in {q.data, "none"}
          /\ \/ Mild(i, q, key, count, s)
             \/ Grave(i, q, key, count, s)
             \/ Delayed(i, q, key, count, s)
          /\ agenda' = s.then /\ asked' = asked \o Asks(i, q, key, count)
          /\ count' \in 0..2
          /\ s.then = <<>> \/ Head(s.then) \notin Requests => count' = count
          /\ Opened(s.p) /\ UNCHANGED <<over, prompt, typed>>
  BY PlayKeyBy
<1>3. CASE Mild(i, q, key, count, s)
  <2>1. s.then \in Seq(Harmless) /\ Asks(i, q, key, count) = <<>>
    BY <1>3 DEF Mild
  <2>2. asked' = asked
    BY <1>2, <2>1, NothingSaid DEF Listed
  <2>3. p'.pending # "autoApply"
    <3>1. q = p => s.p.pending # "autoApply"
      BY <1>1, <1>3 DEF Mild, Even
    <3>2. QED
      BY <1>1, <1>2, <3>1 DEF Even
  <2>4. agenda' \in Seq(Harmless)
    BY <1>2, <2>1
  <2>5. QED
    BY <1>0, <1>1, <2>2, <2>3, <2>4, StaysEven
<1>4. CASE Grave(i, q, key, count, s)
  <2>1. PICK c \in Weighty \ {"startup"} :
            /\ Carries(Harmless, c, s.then) /\ Head(s.then) = c
            /\ Asks(i, q, key, count) = Owes(c, count) /\ s.p.pending = q.pending
    BY <1>4, Zenon DEF Grave
  <2>2. count' = count
    <3>1. c \notin Requests
      BY DEF Weighty, Requests, Prompts, Runners, Mutations
    <3>2. QED
      BY <1>2, <2>1, <3>1
  <2>3. p'.pending # "autoApply"
    BY <1>1, <1>2, <2>1 DEF Even
  <2>4. asked' = changes' \o Owes(c, count')
    BY <1>0, <1>1, <1>2, <2>1, <2>2
  <2>5. Carries(Harmless, c, agenda')
    BY <1>2, <2>1
  <2>6. c \in Weighty /\ c # "startup"
    BY <2>1
  <2>7. Owing'
    BY <2>3, <2>4, <2>5, <2>6, Zenon DEF Owing
  <2>8. QED
    BY <2>7 DEF Balanced
<1>5. CASE Delayed(i, q, key, count, s)
  <2>1. /\ s.then = <<"plan", "lines", "tick">> /\ s.p.pending = "autoApply"
        /\ Asks(i, q, key, count) = <<"apply">> /\ ~i.json /\ q.data = "changes"
    BY <1>5 DEF Delayed
  <2>2. i = in /\ q = p /\ p' = s.p
    BY <1>2, <1>5
  <2>3. agenda' # <<>> /\ Head(agenda') = "plan" /\ Tail(agenda') = <<"lines", "tick">>
    BY <1>2, <2>1
  <2>4. <<"lines", "tick">> \in Seq(Harmless)
    BY DEF Harmless
  <2>5. Seeded("plan")'
    BY <1>0, <2>1, <2>2 DEF Seeds, Seeded
  <2>6. asked' = changes' \o <<"apply">>
    BY <1>0, <1>1, <1>2, <2>1
  <2>7. p'.pending = "autoApply" /\ ~in'.json
    BY <1>0, <2>1, <2>2
  <2>8. Deferred'
    BY <1>0, <2>3, <2>4, <2>5, <2>6, <2>7 DEF Deferred
  <2>9. QED
    BY <2>8 DEF Balanced
<1>6. QED
  BY <1>2, <1>3, <1>4, <1>5

\* The rest of a tape: only a yes asks for anything.
LEMMA TapeBalanced ==
    ASSUME Sound, Listed, Seeds, Balanced, Plays
    PROVE  Balanced'
<1>0. /\ phase = "tape" /\ DryRun /\ agenda = <<>>
      /\ DryRun' = DryRun /\ UNCHANGED <<in, bound, changes>>
  <2>1. Next
    BY NextIs
  <2>2. QED
    BY <2>1, PlayedKeeps, LineKept DEF Sound, Phased
<1>1. Even /\ asked = changes /\ p.pending # "autoApply"
  BY <1>0, RestsEven DEF Even
<1>2. CASE PlayKey
  BY <1>2, KeyBalanced
<1>3. CASE PlayYes
  <2>1. /\ UNCHANGED <<p, count>>
        /\ \/ agenda' = <<"edit">> /\ asked' = asked \o Repeat("edit", count)
           \/ agenda' = <<"mutate", "tick">> /\ asked' = asked \o Repeat("mutate", count)
    BY <1>3 DEF PlayYes, Played
  <2>2. /\ Repeat("edit", count) = Owes("edit", count)
        /\ Repeat("mutate", count) = Owes("mutate", count)
    BY DEF Owes, Mutations
  <2>3. Carries(Harmless, "edit", <<"edit">>) /\ Carries(Harmless, "mutate", <<"mutate", "tick">>)
    BY KeyAgendas, Written, Zenon
  <2>4. \E c \in {"edit", "mutate"} :
            Carries(Harmless, c, agenda') /\ asked' = changes' \o Owes(c, count')
    <3>1. CASE agenda' = <<"edit">> /\ asked' = asked \o Repeat("edit", count)
      <4>1. Carries(Harmless, "edit", agenda')
        BY <2>3, <3>1, Zenon
      <4>2. asked' = changes' \o Owes("edit", count')
        BY <1>0, <1>1, <2>1, <2>2, <3>1
      <4>3. QED
        BY <4>1, <4>2
    <3>2. CASE agenda' = <<"mutate", "tick">> /\ asked' = asked \o Repeat("mutate", count)
      <4>1. Carries(Harmless, "mutate", agenda')
        BY <2>3, <3>2, Zenon
      <4>2. asked' = changes' \o Owes("mutate", count')
        BY <1>0, <1>1, <2>1, <2>2, <3>2
      <4>3. QED
        BY <4>1, <4>2
    <3>3. QED
      BY <2>1, <3>1, <3>2
  <2>5. \A c \in {"edit", "mutate"} : c \in Weighty /\ c # "startup"
    BY DEF Weighty, Mutations
  <2>6. p'.pending # "autoApply"
    BY <1>1, <2>1
  <2>7. Owing'
    BY <2>4, <2>5, <2>6, Zenon DEF Owing
  <2>8. QED
    BY <2>7 DEF Balanced
<1>4. CASE PlayCancel \/ PlayEnter \/ PlayType \/ PlayOther
  <2>1. UNCHANGED <<p, asked>>
    BY <1>4 DEF PlayCancel, PlayEnter, PlayType, PlayOther
  <2>2. \/ agenda' = <<>>
        \/ \E c \in {"id", "deactivate", "confirm"} : agenda' = <<c>>
    BY <1>4 DEF PlayCancel, PlayEnter, PlayType, PlayOther, Played
  <2>3. {"id", "deactivate", "confirm"} \subseteq Harmless
    BY DEF Harmless, Prompts
  <2>4. agenda' \in Seq(Harmless)
    BY <2>2, <2>3, KeyAgendas
  <2>5. p'.pending # "autoApply"
    BY <1>1, <2>1
  <2>6. QED
    BY <1>0, <1>1, <2>1, <2>4, <2>5, StaysEven
<1>5. CASE PlayEmit
  <2>1. agenda' = <<>> /\ asked' = asked
    BY <1>5 DEF PlayEmit, Played
  <2>2. PICK event : p' = Emitted(in, p, event)
    BY <1>5 DEF PlayEmit
  <2>3. p'.pending \in {p.pending, "none"}
    BY <2>2, EmittedBy DEF Sound
  <2>4. p'.pending # "autoApply"
    BY <1>1, <2>3
  <2>5. agenda' \in Seq(Harmless)
    BY <2>1, KeyAgendas
  <2>6. QED
    BY <1>0, <1>1, <2>1, <2>4, <2>5, StaysEven
<1>6. QED
  BY <1>2, <1>3, <1>4, <1>5 DEF Plays

\* The deferred apply waits for the plan, and for nothing else.
LEMMA DeferredWaits ==
    ASSUME Balanced, p.pending = "autoApply"
    PROVE  Deferred
BY DEF Balanced, Even, Owing

\* The commands that change nothing and are no operation.
LEMMA MinorBalanced ==
    ASSUME Sound, Listed, Balanced, agenda # <<>>,
           \/ LoadWorkspace \/ PassEvent \/ Invalidate \/ Deactivate \/ PushRunner
           \/ (PushApply /\ Head(agenda) = "requestApply") \/ OpenPrompt \/ Tick \/ ReadLine
           \/ ReportRefusal
    PROVE  Balanced'
<1>0. p \in Plugins
  BY DEF Sound
<1>1. Head(agenda) \in Harmless \ {"plan", "preview", "read"}
  BY DEF LoadWorkspace, PassEvent, Invalidate, Deactivate, PushRunner, OpenPrompt, Tick,
         ReadLine, ReportRefusal, Heads, Harmless, Prompts, Runners
<1>2. p.pending # "autoApply"
  BY <1>1, DeferredWaits DEF Deferred
<1>3. UNCHANGED <<in, changes, asked>>
  BY DEF LoadWorkspace, PassEvent, Invalidate, Deactivate, PushRunner, PushApply, Push, OpenPrompt,
         Tick, ReadLine, ReportRefusal, Handled, Queued, deeds
<1>4. count' = count
  BY DEF LoadWorkspace, PassEvent, Invalidate, Deactivate, PushRunner, PushApply, Push, OpenPrompt,
         Tick, ReadLine, ReportRefusal, Handled, app
<1>5. /\ p'.pending # "autoApply"
      /\ \E t \in Seq(Harmless) : agenda' = t \o Tail(agenda)
  <2>a. <<>> \in Seq(Harmless) /\ <<"tick">> \in Seq(Harmless) /\ <<"lines">> \in Seq(Harmless)
    BY DEF Harmless
  <2>1. CASE LoadWorkspace \/ PassEvent \/ Invalidate \/ OpenPrompt \/ Tick \/ ReadLine
    <3>1. \E t \in {<<>>, <<"tick">>, <<"lines">>} : agenda' = t \o Tail(agenda)
      BY <2>1 DEF LoadWorkspace, PassEvent, Invalidate, OpenPrompt, Tick, ReadLine, Queued
    <3>2. p' = p \/ p' = Emitted(in, p, "stale")
      BY <2>1 DEF LoadWorkspace, PassEvent, Invalidate, OpenPrompt, Tick, ReadLine
    <3>3. Emitted(in, p, "stale").pending \in {p.pending, "none"}
      BY <1>0, EmittedBy
    <3>4. p'.pending # "autoApply"
      BY <1>2, <3>2, <3>3
    <3>5. QED
      BY <2>a, <3>1, <3>4
  <2>2. CASE ReportRefusal
    <3>1. agenda' = CLIDone(p, "failed").then \o Tail(agenda) /\ p' = CLIDone(p, "failed").p
      BY <2>2 DEF ReportRefusal, Handled, Queued
    <3>2. Kept(p, CLIDone(p, "failed").p) /\ CLIDone(p, "failed").then = <<>>
      BY <1>0, RefusedBy
    <3>3. QED
      BY <1>2, <2>a, <3>1, <3>2 DEF Kept
  <2>3. CASE Deactivate
    <3>1. \/ agenda' = <<>> \o Tail(agenda) /\ p' = p
          \/ agenda' = Reactivated(in, p).then \o Tail(agenda) /\ p' = Reactivated(in, p).p
      BY <2>3 DEF Deactivate, Queued
    <3>2. Kept(p, Reactivated(in, p).p) /\ Reactivated(in, p).then \in Seq(Harmless)
      BY <1>0, ReactivatedBy
    <3>3. QED
      BY <1>2, <2>a, <3>1, <3>2 DEF Kept
  <2>4. CASE PushRunner
    <3>1. PICK verb : agenda' = RunnerPushed(verb).then \o Tail(agenda) /\ p' = p
      BY <2>4 DEF PushRunner, Push, Queued
    <3>2. RunnerPushed(verb).then \in Seq(Harmless)
      BY PushedBy
    <3>3. QED
      BY <1>2, <3>1, <3>2
  <2>5. CASE PushApply /\ Head(agenda) = "requestApply"
    <3>1. agenda' = ApplyPushed("requestApply").then \o Tail(agenda) /\ p' = p
      BY <2>5 DEF PushApply, Push, Queued, Heads
    <3>2. ApplyPushed("requestApply").then = <<>>
      BY PushedBy
    <3>3. QED
      BY <1>2, <2>a, <3>1, <3>2
  <2>6. QED
    BY <2>1, <2>2, <2>3, <2>4, <2>5
<1>6. PICK t \in Seq(Harmless) : agenda' = t \o Tail(agenda)
  BY <1>5
<1>7. Head(agenda) \in Harmless
  BY <1>1
<1>8. QED
  BY <1>2, <1>3, <1>4, <1>5, <1>6, <1>7, StaysOwing
\* What is run first, and owes as much as the command it comes of.
LEMMA PassesOn ==
    ASSUME NEW c \in Weighty, c # "startup", NEW s, Carries(Waits, c, s),
           Tail(agenda) \in Seq(Harmless), agenda' = s \o Tail(agenda),
           asked' = changes' \o Owes(c, count'), p'.pending # "autoApply"
    PROVE  Balanced'
<1>1. Waits \subseteq Harmless
  BY CommandsApart
<1>2. Carries(Harmless, c, s)
  BY <1>1, CarriedWider
<1>3. Carries(Harmless, c, agenda')
  BY <1>2, CarriedBefore
<1>4. Owing'
  BY <1>3, Zenon DEF Owing
<1>5. QED
  BY <1>4 DEF Balanced

\* The start, the form and AutoApply pass on what they owe.
LEMMA StartsBalanced ==
    ASSUME Sound, Listed, Balanced, agenda # <<>>,
           Startup \/ Submit \/ (PushApply /\ Head(agenda) = "autoApply")
    PROVE  Balanced'
<1>0. /\ p \in Plugins /\ in \in Inputs /\ changes \in Seq(Deeds)
      /\ in.verb \in Verbs /\ in.auto \in BOOLEAN /\ in.flags \in BOOLEAN
  BY VerbTyped DEF Sound, Listed
<1>1. Head(agenda) \in {"startup", "submit", "autoApply"} /\ Head(agenda) \in Weighty
  BY DEF Startup, Submit, Heads, Weighty
<1>2. /\ Tail(agenda) \in Seq(Harmless) /\ p.pending # "autoApply"
      /\ asked = changes \o Owes(Head(agenda), count)
      /\ Head(agenda) = "startup" => count = Targets
  BY <1>1, Pays
<1>3. UNCHANGED <<in, changes, count>>
  BY DEF Startup, Submit, PushApply, Push, Handled, Queued, deeds, app
<1>4. DryRun' = DryRun
  BY <1>3 DEF DryRun
<1>5. CASE Startup
  <2> DEFINE s == Activated(in, p)
  <2>1. agenda' = s.then \o Tail(agenda) /\ p' = s.p /\ asked' = asked \o Commanded
        /\ Head(agenda) = "startup"
    BY <1>5 DEF Startup, Handled, Queued, Heads
  <2>2. s = Activated(in, p)
    OBVIOUS
  <2> HIDE DEF s
  <2>3. Kept(p, s.p)
    BY <1>0, <2>2, ActivatedBy
  <2>4. (First(in) = {} /\ s.then = <<>>) \/ \E c \in First(in) : Carries(Waits, c, s.then)
    BY <1>0, <2>2, ActivatedBy
  <2>5. asked = changes /\ count = Targets
    <3>1. Owes("startup", count) = <<>>
      BY KeyDebts
    <3>2. asked = changes \o <<>> /\ count = Targets
      BY <1>2, <2>1, <3>1
    <3>3. QED
      BY <1>0, <3>2, NothingSaid
  <2>6. p'.pending # "autoApply"
    BY <1>2, <2>1, <2>3 DEF Kept
  <2>7. asked' = changes' \o Commanded
    BY <1>3, <2>1, <2>5
  <2>8. ASSUME agenda' \in Seq(Harmless), Commanded = <<>> PROVE Balanced'
    <3>1. asked' = changes'
      BY <1>0, <1>3, <2>7, <2>8, NothingSaid
    <3>2. ChangesOnlyAsked'
      BY <3>1 DEF ChangesOnlyAsked
    <3>3. Even'
      BY <2>6, <2>8, <3>1, <3>2 DEF Even
    <3>4. QED
      BY <3>3 DEF Balanced
  <2>9. CASE First(in) = {} /\ s.then = <<>>
    <3>1. agenda' \in Seq(Harmless)
      BY <1>2, <2>1, <2>9, KeyAgendas, Joined
    <3>2. Commanded = <<>>
      BY <1>0, <2>9, CommandedIs
    <3>3. QED
      BY <2>8, <3>1, <3>2
  <2>10. ASSUME NEW c \in First(in), Carries(Waits, c, s.then) PROVE Balanced'
    <3>1. CASE c \in Weighty
      <4>1. Commanded = Owes(c, Targets) /\ c # "startup"
        BY <1>0, <2>10, <3>1, CommandedIs
      <4>2. asked' = changes' \o Owes(c, count')
        BY <1>3, <2>5, <2>7, <4>1
      <4>3. QED
        BY <1>2, <2>1, <2>6, <2>10, <3>1, <4>1, <4>2, PassesOn
    <3>2. CASE c \notin Weighty
      <4>1. c \in Harmless /\ Commanded = <<>>
        BY <1>0, <2>10, <3>2, CommandedIs
      <4>2. s.then \in Seq(Harmless)
        <5>1. Waits \subseteq Harmless
          BY CommandsApart
        <5>2. QED
          BY <2>10, <4>1, <5>1, CarriedTyped
      <4>3. agenda' \in Seq(Harmless)
        BY <1>2, <2>1, <4>2, Joined
      <4>4. QED
        BY <2>8, <4>1, <4>3
    <3>3. QED
      BY <3>1, <3>2
  <2>11. QED
    BY <2>4, <2>9, <2>10
<1>6. CASE Submit
  <2>1. /\ agenda' = InitSubmitted(p).then \o Tail(agenda) /\ p' = InitSubmitted(p).p
        /\ asked' = asked /\ Head(agenda) = "submit"
    BY <1>6 DEF Submit, Handled, Queued, Heads
  <2>2. Kept(p, InitSubmitted(p).p) /\ Carries(Waits, "init", InitSubmitted(p).then)
    BY <1>0, SubmittedBy
  <2>3. p'.pending # "autoApply"
    BY <1>2, <2>1, <2>2 DEF Kept
  <2>4. Owes("submit", count) = Owes("init", count) /\ "init" \in Weighty
    BY KeyDebts DEF Weighty
  <2>5. asked' = changes' \o Owes("init", count')
    BY <1>2, <1>3, <2>1, <2>4
  <2>6. QED
    BY <1>2, <2>1, <2>2, <2>3, <2>4, <2>5, PassesOn
<1>7. CASE PushApply /\ Head(agenda) = "autoApply"
  <2>1. /\ agenda' = ApplyPushed("autoApply").then \o Tail(agenda) /\ p' = p
        /\ asked' = asked
    BY <1>7 DEF PushApply, Push, Queued, Heads
  <2>2. Carries(Waits, "apply", ApplyPushed("autoApply").then)
    BY PushedBy
  <2>3. Owes("autoApply", count) = Owes("apply", count) /\ "apply" \in Weighty
    BY KeyDebts DEF Weighty
  <2>4. asked' = changes' \o Owes("apply", count')
    BY <1>2, <1>3, <1>7, <2>1, <2>3
  <2>5. QED
    BY <1>2, <2>1, <2>2, <2>3, <2>4, PassesOn
<1>8. QED
  BY <1>5, <1>6, <1>7

\* An operation that changes something changes what is owed.
LEMMA ChangeBalanced ==
    ASSUME Sound, Listed, Balanced, NEW op \in {"apply", "init"} \cup Mutations,
           (op \in Mutations /\ Mutate(op)) \/ Terraform(op) \/ Record(op)
    PROVE  Balanced'
<1>0. /\ op \in Operations /\ op \in Weighty /\ op # "startup" /\ op # "plan" /\ op # "preview"
      /\ count \in Nat /\ changes \in Seq(Deeds)
  BY DEF Operations, Weighty, Mutations, Sound, Shown, Listed
<1>1. Heads(op) /\ in' = in
  BY <1>0, OperationBy
<1>2. Tail(agenda) \in Seq(Harmless) /\ p.pending # "autoApply" /\ asked = changes \o Owes(op, count)
  <2>1. agenda # <<>> /\ Head(agenda) = op
    BY <1>1 DEF Heads
  <2>2. QED
    BY <1>0, <2>1, Pays
<1>3. PICK answer \in Replies : Ran(op, answer)
  BY <1>0, OperationBy
<1>4. agenda' \in Seq(Harmless)
  <2>1. PICK t \in Seq(Harmless) : agenda' = t \o Tail(agenda)
    BY <1>0, <1>3, RanBy
  <2>2. QED
    BY <1>2, <2>1, Joined
<1>5. p'.pending # "autoApply" /\ asked' = asked
  <2>1. p'.pending = p.pending /\ asked' = asked
    BY <1>0, <1>3, RanBy
  <2>2. QED
    BY <1>2, <2>1
<1>6. \A n \in 0..count : Change(op, n) = Owes(op, n)
  <2>1. \A n \in 0..count : n \in Nat
    BY <1>0
  <2>2. QED
    BY <2>1, OwesTyped
<1>7. DryRun => changes' = asked'
  <2>1. count \in 0..count
    BY <1>0
  <2>2. DryRun => changes' = changes \o Change(op, count)
    BY <1>0, OperationDoes
  <2>3. QED
    BY <1>2, <1>5, <1>6, <2>1, <2>2
<1>8. ChangesOnlyAsked'
  <2>1. PICK n \in 0..count : changes' = changes \o Change(op, n)
    BY <1>0, OperationDoes
  <2>2. changes' = changes \o Owes(op, n)
    BY <1>6, <2>1
  <2>3. CASE op \in Mutations
    <3>1. Owes(op, n) = Repeat(op, n) /\ Owes(op, count) = Repeat(op, count)
      BY <2>3 DEF Owes, Mutations
    <3>2. op \in Deeds
      BY <2>3 DEF Deeds, Mutations
    <3>3. changes' = changes \o Repeat(op, n) /\ asked' = changes \o Repeat(op, count)
      BY <1>2, <1>5, <2>2, <3>1
    <3>4. \A j \in DOMAIN (changes \o Repeat(op, n)) :
             /\ j \in DOMAIN (changes \o Repeat(op, count))
             /\ (changes \o Repeat(op, n))[j] = (changes \o Repeat(op, count))[j]
      BY <1>0, <3>2, SaidLess
    <3>5. QED
      BY <3>3, <3>4 DEF ChangesOnlyAsked
  <2>4. CASE op \in {"apply", "init"}
    <3>1. Owes(op, n) = Owes(op, count)
      BY <2>4 DEF Owes, Mutations
    <3>2. changes' = asked'
      BY <1>2, <1>5, <2>2, <3>1
    <3>3. QED
      BY <3>2 DEF ChangesOnlyAsked
  <2>5. QED
    BY <2>3, <2>4
<1>9. DryRun' = DryRun
  BY <1>1 DEF DryRun
<1>10. Even'
  BY <1>4, <1>5, <1>7, <1>8, <1>9 DEF Even
<1>11. QED
  BY <1>10 DEF Balanced

\* One that only reads changes nothing, but for the plan that fires the apply.
LEMMA ReadBalanced ==
    ASSUME Sound, Listed, Balanced, NEW op \in {"plan", "preview", "read"},
           Terraform(op) \/ Record(op)
    PROVE  Balanced'
<1>0. /\ op \in Operations /\ op \in Harmless /\ op \notin Mutations
      /\ count \in Nat /\ changes \in Seq(Deeds)
  BY DEF Operations, Harmless, Mutations, Sound, Shown, Listed
<1>1. Heads(op) /\ in' = in
  BY <1>0, OperationBy
<1>2. agenda # <<>> /\ Head(agenda) = op
  BY <1>1 DEF Heads
<1>3. changes' = changes
  <2>1. PICK n \in 0..count : changes' = changes \o Change(op, n)
    BY <1>0, OperationDoes
  <2>2. n \in Nat
    BY <1>0
  <2>3. Change(op, n) = <<>>
    BY <2>2, OwesTyped
  <2>4. QED
    BY <1>0, <2>1, <2>3, NothingSaid
<1>4. DryRun' = DryRun
  BY <1>1 DEF DryRun
<1>5. CASE p.pending # "autoApply"
  <2>1. PICK answer \in Replies :
           Ran(op, answer) /\ (op = "preview" => answer \in {"failed", "clean", "changes"})
    BY <1>0, OperationBy
  <2>2. PICK t \in Seq(Harmless) : agenda' = t \o Tail(agenda)
    BY <1>0, <1>5, <2>1, RanBy
  <2>3. UNCHANGED <<count, asked>> /\ p'.pending # "autoApply"
    <3>1. UNCHANGED <<count, asked>>
      BY <1>0, <2>1, RanBy
    <3>2. p'.pending \in {p.pending, "none"}
      BY <1>0, <2>1, RanBy
    <3>3. QED
      BY <1>5, <3>1, <3>2
  <2>4. QED
    BY <1>0, <1>1, <1>2, <1>3, <1>5, <2>2, <2>3, StaysOwing
<1>6. CASE p.pending = "autoApply"
  <2>1. Deferred
    BY <1>6, DeferredWaits
  <2>2. /\ DryRun /\ op = "plan" /\ Tail(agenda) \in Seq(Harmless)
        /\ ~in.json /\ Seeded("plan") /\ asked = changes \o <<"apply">>
    BY <1>2, <2>1 DEF Deferred
  <2>3. Ran(op, Recorded(op))
    <3>1. Record(op)
      BY <1>0, <2>2, OperationDoes
    <3>2. QED
      BY <3>1 DEF Record
  <2>4. Recorded(op) = "changes" /\ Recorded(op) \in Replies
    BY <1>0, <2>2, AnswersTyped
  <2>5. /\ agenda' = <<"event", "event", "autoApply">> \o Tail(agenda)
        /\ p'.pending = "none" /\ UNCHANGED <<count, asked>>
    <3>1. PICK t : /\ agenda' = t \o Tail(agenda)
                   /\ op = "plan" /\ p.pending = "autoApply" /\ Recorded(op) = "changes" /\ ~in.json =>
                         t = <<"event", "event", "autoApply">>
      BY <1>0, <2>2, <2>3, <2>4, RanBy
    <3>2. op = "plan" => p'.pending = "none"
      BY <1>0, <2>2, <2>3, <2>4, RanBy
    <3>3. UNCHANGED <<count, asked>>
      BY <1>0, <2>2, <2>3, <2>4, RanBy
    <3>4. QED
      BY <1>6, <2>2, <2>4, <3>1, <3>2, <3>3
  <2>6. Carries(Harmless, "autoApply", agenda')
    <3>1. Carries(Harmless, "autoApply", <<"event", "event", "autoApply">>)
      <4>1. "event" \in Harmless
        BY DEF Harmless
      <4>2. \A a, b \in Harmless : Carries(Harmless, "autoApply", <<a, b, "autoApply">>)
        BY Written, Zenon
      <4>3. QED
        BY <4>1, <4>2, Zenon
    <3>2. QED
      BY <2>2, <2>5, <3>1, CarriedBefore
  <2>7. asked' = changes' \o Owes("autoApply", count')
    BY <1>3, <2>2, <2>5, KeyDebts
  <2>8. "autoApply" \in Weighty /\ "autoApply" # "startup" /\ p'.pending # "autoApply"
    BY <2>5 DEF Weighty
  <2>9. Owing'
    BY <2>6, <2>7, <2>8, Zenon DEF Owing
  <2>10. QED
    BY <2>9 DEF Balanced
<1>7. QED
  BY <1>5, <1>6
\* Every step keeps the balance.
LEMMA BalancedStep ==
    Sound /\ Listed /\ Seeds /\ Balanced /\ [Next]_vars => Listed' /\ Seeds' /\ Balanced'
<1> SUFFICES ASSUME Sound, Listed, Seeds, Balanced, [Next]_vars
             PROVE  Listed' /\ Seeds' /\ Balanced'
  OBVIOUS
<1>1. CASE Next
  <2>1. Listed' /\ Seeds'
    BY <1>1, ListedStep, SeedsStep
  <2>2. Balanced'
    <3>1. CASE Ends \/ Wait \/ Capture
      <4>1. UNCHANGED <<in, p, count, agenda, bound, changes, asked>>
        BY <3>1, EndsKeep, WaitKeeps, CaptureKeeps
      <4>2. DryRun' = DryRun /\ Targets' = Targets
        BY <4>1 DEF DryRun, Targets
      <4>3. (Even' <=> Even) /\ (Deferred' <=> Deferred)
        BY <4>1, <4>2 DEF Even, Deferred, ChangesOnlyAsked, Seeded
      <4>4. Owing => Owing'
        BY <4>1, <4>2, Zenon DEF Owing
      <4>5. QED
        BY <4>3, <4>4 DEF Balanced
    <3>2. CASE Begin
      BY <3>2, OpenedBalanced
    <3>3. CASE Plays
      BY <3>3, TapeBalanced
    <3>4. CASE Driver
      <4>0. agenda # <<>>
        BY <3>4, DriverKeeps
      <4>1. CASE \/ LoadWorkspace \/ PassEvent \/ Invalidate \/ Deactivate \/ PushRunner
                 \/ (PushApply /\ Head(agenda) = "requestApply") \/ OpenPrompt \/ Tick \/ ReadLine
                 \/ ReportRefusal
        BY <4>0, <4>1, MinorBalanced
      <4>2. CASE Startup \/ Submit \/ (PushApply /\ Head(agenda) = "autoApply")
        BY <4>0, <4>2, StartsBalanced
      <4>3. PushApply => Head(agenda) \in {"requestApply", "autoApply"}
        BY DEF PushApply, Heads, Applies
      <4>4. CASE Operates
        <5>1. PICK op \in Operations :
                 (op \in Mutations /\ Mutate(op)) \/ Terraform(op) \/ Record(op)
          BY <4>4, Operation
        <5>2. CASE op \in {"apply", "init"} \cup Mutations
          BY <5>1, <5>2, ChangeBalanced
        <5>3. CASE op \notin {"apply", "init"} \cup Mutations
          <6>1. op \in {"plan", "preview", "read"} /\ op \notin Mutations
            BY <5>3 DEF Operations, Mutations
          <6>2. QED
            BY <5>1, <6>1, ReadBalanced
        <5>4. QED
          BY <5>2, <5>3
      <4>5. QED
        BY <3>4, <4>1, <4>2, <4>3, <4>4 DEF Driver, Operates
    <3>5. QED
      BY <1>1, <3>1, <3>2, <3>3, <3>4, NextIs
  <2>3. QED
    BY <2>1, <2>2
<1>2. CASE UNCHANGED vars
  <2>1. UNCHANGED <<in, phase, p, count, agenda, bound, changes, asked>>
    BY <1>2 DEF vars, app, services, deeds
  <2>2. DryRun' = DryRun /\ Targets' = Targets
    BY <2>1 DEF DryRun, Targets
  <2>3. (Even' <=> Even) /\ (Deferred' <=> Deferred)
    BY <2>1, <2>2 DEF Even, Deferred, ChangesOnlyAsked, Seeded
  <2>4. Owing => Owing'
    BY <2>1, <2>2, Zenon DEF Owing
  <2>5. Listed' /\ Seeds'
    BY <2>1, <2>2 DEF Listed, Seeds, Seeded
  <2>6. QED
    BY <2>3, <2>4, <2>5 DEF Balanced
<1>3. QED
  BY <1>1, <1>2

\* So it is always kept.
LEMMA AlwaysBalanced == Spec => [](Sound /\ Listed /\ Balanced)
<1>1. QED
  BY BeginBalanced, BalancedStep, AlwaysSound, PTL DEF Spec

\* What owes more has changed no more than was asked for.
LEMMA OwesMore ==
    ASSUME NEW s \in Seq(Deeds), NEW t \in Seq(Deeds)
    PROVE  \A k \in DOMAIN s : k \in DOMAIN (s \o t) /\ s[k] = (s \o t)[k]
<1> DEFINE x == s \o t
<1>1. /\ x \in Seq(Deeds) /\ Len(x) = Len(s) + Len(t)
      /\ \A k \in 1..(Len(s) + Len(t)) : x[k] = IF k <= Len(s) THEN s[k] ELSE t[k - Len(s)]
  BY ConcatProperties
<1> HIDE DEF x
<1>2. Len(s) \in Nat /\ Len(t) \in Nat
  BY LenProperties
<1>3. \A k \in DOMAIN s : k \in DOMAIN x /\ s[k] = x[k]
  BY <1>1, <1>2
<1>4. QED
  BY <1>3 DEF x

(* Nothing is changed that was not asked for: the n-th change is the n-th that  *)
(* the command line, a yes, or a key that applies or retries at once, asked     *)
(* for. The argument is the balance: the agenda holds at most one command that  *)
(* leads to a change, and what is asked for and not changed yet is that one's,  *)
(* or the deferred apply's, which the replan at the head of the agenda fires.   *)
THEOREM OnlyAskedChanges == Spec => []ChangesOnlyAsked
<1>1. Sound /\ Listed /\ Balanced => ChangesOnlyAsked
  <2> SUFFICES ASSUME Sound, Listed, Balanced PROVE ChangesOnlyAsked
    OBVIOUS
  <2>1. ASSUME NEW t \in Seq(Deeds), asked = changes \o t PROVE ChangesOnlyAsked
    <3>1. \A k \in DOMAIN changes : k \in DOMAIN (changes \o t) /\ changes[k] = (changes \o t)[k]
      BY OwesMore DEF Listed
    <3>2. QED
      BY <2>1, <3>1 DEF ChangesOnlyAsked
  <2>2. CASE Even
    BY <2>2 DEF Even
  <2>3. CASE Owing
    <3>1. PICK c \in Weighty : asked = changes \o Owes(c, count)
      BY <2>3, Zenon DEF Owing
    <3>2. Owes(c, count) \in Seq(Deeds)
      BY OwesTyped DEF Sound, Shown
    <3>3. QED
      BY <2>1, <3>1, <3>2
  <2>4. CASE Deferred
    <3>1. asked = changes \o <<"apply">> /\ <<"apply">> \in Seq(Deeds)
      BY <2>4 DEF Deferred, Deeds
    <3>2. QED
      BY <2>1, <3>1
  <2>5. QED
    BY <2>2, <2>3, <2>4 DEF Balanced
<1>2. QED
  BY <1>1, AlwaysBalanced, PTL

(* A dry run writes down every change that was asked for, once and in order:    *)
(* whichever keys of TapeKeys are pressed, whatever plugins they push and pop,  *)
(* and whether a plan was current or had to be made again (MacroService).       *)
THEOREM AskedListedOnce == Spec => []AskedRecordedOnce
<1>1. Sound /\ Listed /\ Balanced => AskedRecordedOnce
  <2> SUFFICES ASSUME Sound, Balanced, Over, DryRun PROVE changes = asked
    BY DEF AskedRecordedOnce
  <2>1. agenda = <<>>
    BY DEF Over, Sound, Phased
  <2>2. Even
    BY <2>1, RestsEven
  <2>3. QED
    BY <2>2 DEF Even
<1>2. QED
  BY <1>1, AlwaysBalanced, PTL
-----------------------------------------------------------------------------
(* Live sessions *)

\* What a live command still has to run before it can be settled.
Due(i) ==
    CASE i.verb = "plan"  -> {"plan"}
      [] i.verb = "apply" -> {"apply"}
      [] i.verb = "init"  -> IF i.flags THEN {"submit", "init"} ELSE {}
      [] i.verb \in StateCLI -> IF Refuses(i) THEN {"refused"} ELSE {"mutate"}
      [] i.verb \in Runners  -> {"mutate"}
      [] OTHER -> {"read"}

\* No key is pressed: nothing is pushed, selected, or deferred.
Alone == ~DryRun => over = "none" /\ count = Targets /\ p.pending = "none"

Fresh    == worked = 0 /\ ~failed
Opening  == Fresh /\ p = NewPlugin /\ Carries(Minor(in), "startup", agenda)
Awaiting == /\ Fresh /\ p.data = "none"
            /\ \E c \in Due(in) : Carries(Minor(in), c, agenda) /\ (c = "init" => p.front = "result")

(* How a live command can stand when nothing is left to run: terraform failed   *)
(* and the plugin shows it; all it owes is done; an answer, or the command line *)
(* itself, could not be read; or init was given nothing to do.                  *)
Failing == /\ failed /\ p.status = "Error" /\ p.data = "none"
           /\ in.verb = "init" => p.front = "result"
Working == /\ ~failed /\ worked = Owed /\ p.status = "Done"
           /\ in.verb = "plan" => p.data \in {"clean", "changes"}
Misread == /\ ~failed /\ p.status = "Error"
           /\ in.verb = "plan" \/ (in.verb \in StateCLI /\ Refuses(in))
Unasked == ~failed /\ in.verb = "init" /\ ~in.flags
Outcome == Failing \/ Working \/ Misread \/ Unasked

Reported ==
    /\ Refused(in) => out = Wrote("empty", "error", RefusalCode(in))
    /\ ~Refused(in) /\ DryRun =>
           out = Wrote("commands", "empty", 0) \/ \E code \in {1, 3} : out = Wrote("empty", "error", code)
    /\ ~Refused(in) /\ ~DryRun =>
           /\ Outcome
           /\ Settled  => out = Wrote(Stdout(in, p), Stderr(in, p), ExitCode(in, p))
           /\ ~Settled => out = Wrote("empty", "timeout", 1)

Answering ==
    /\ phase = "start" \/ DryRun \/ Refused(in) => Fresh
    /\ ~DryRun /\ phase = "run" => Opening \/ Awaiting \/ (agenda \in Seq(Minor(in)) /\ Outcome)
    /\ phase = "ended" => Reported

\* What is due tells the verb, and the other way round.
LEMMA DueTells ==
    ASSUME NEW i \in Inputs
    PROVE  /\ Due(i) \subseteq {"plan", "apply", "submit", "init", "refused", "mutate", "read"}
           /\ Due(i) \cap (Minor(i) \cup {"startup"}) = {}
           /\ "submit" \in Due(i) => i.verb = "init" /\ "init" \in Due(i)
           /\ "init" \in Due(i) => i.verb = "init"
           /\ "plan" \in Due(i) => i.verb = "plan"
           /\ "apply" \in Due(i) => i.verb = "apply"
           /\ "refused" \in Due(i) => i.verb \in StateCLI /\ Refuses(i)
           /\ "mutate" \in Due(i) => i.verb \in StateCLI \cup Runners
           /\ i.verb \in StateCLI \cup Runners => Due(i) \subseteq {"refused", "mutate"}
           /\ i.verb = "plan" => Due(i) = {"plan"}
           /\ ~Refused(i) /\ i.tape = "none" =>
                 /\ First(i) \subseteq Due(i) \ {"init"}
                 /\ First(i) = {} => i.verb = "init" /\ ~i.flags
<1>1. i.verb \in Verbs /\ i.auto \in BOOLEAN /\ i.flags \in BOOLEAN
  BY VerbTyped
<1>2. Due(i) \subseteq {"plan", "apply", "submit", "init", "refused", "mutate", "read"}
  BY DEF Due, Runners, StateCLI
<1>3. "startup" \notin Minor(i)
      /\ Minor(i) \cap {"plan", "apply", "submit", "init", "refused", "mutate", "read"} = {}
  BY DEF Minor, Waits
<1>4. /\ "submit" \in Due(i) => i.verb = "init" /\ "init" \in Due(i)
      /\ "init" \in Due(i) => i.verb = "init"
      /\ "plan" \in Due(i) => i.verb = "plan"
      /\ "apply" \in Due(i) => i.verb = "apply"
      /\ "refused" \in Due(i) => i.verb \in StateCLI /\ Refuses(i)
      /\ "mutate" \in Due(i) => i.verb \in StateCLI \cup Runners
      /\ i.verb \in StateCLI \cup Runners => Due(i) \subseteq {"refused", "mutate"}
      /\ i.verb = "plan" => Due(i) = {"plan"}
  BY <1>1 DEF Due, Runners, StateCLI, Verbs
<1>5. ~Refused(i) /\ i.tape = "none" =>
         First(i) \subseteq Due(i) \ {"init"} /\ (First(i) = {} => i.verb = "init" /\ ~i.flags)
  <2> SUFFICES ASSUME ~Refused(i), i.tape = "none"
               PROVE  First(i) \subseteq Due(i) \ {"init"} /\ (First(i) = {} => i.verb = "init" /\ ~i.flags)
    OBVIOUS
  <2>1. i.verb = "apply" => i.auto
    BY DEF Refused, Early, Unconfirmable
  <2>2. CASE i.verb = "plan"
    BY <2>2 DEF First, Due, Runners, StateCLI
  <2>3. CASE i.verb = "apply"
    BY <2>1, <2>3 DEF First, Due, Runners, StateCLI
  <2>4. CASE i.verb = "init"
    BY <1>1, <2>4 DEF First, Due, Runners, StateCLI
  <2>5. CASE i.verb \in StateCLI
    BY <2>5 DEF First, Due, Runners, StateCLI
  <2>6. CASE i.verb \in Runners
    BY <2>6 DEF First, Due, Runners, StateCLI
  <2>7. CASE i.verb \notin {"plan", "apply", "init"} \cup StateCLI \cup Runners
    BY <2>7 DEF First, Due
  <2>8. QED
    BY <2>2, <2>3, <2>4, <2>5, <2>6, <2>7
<1>6. QED
  BY <1>2, <1>3, <1>4, <1>5

\* Of a live session with nothing of consequence left, there is the outcome.
LEMMA Rested ==
    ASSUME Sound, Answering, ~DryRun, phase = "run", agenda = <<>>
    PROVE  Outcome
<1>1. ASSUME NEW c, Carries(Minor(in), c, agenda) PROVE FALSE
  <2>1. agenda # <<>>
    BY <1>1, CarriedOpens
  <2>2. QED
    BY <2>1
<1>2. ~Opening /\ ~Awaiting
  BY <1>1, Zenon DEF Opening, Awaiting
<1>3. QED
  BY <1>2 DEF Answering

\* What the head of a live agenda is: the start, what is due, or nothing of
\* consequence.
LEMMA Heading ==
    ASSUME Sound, Answering, ~DryRun, phase = "run", agenda # <<>>
    PROVE  \/ /\ Head(agenda) = "startup" /\ Tail(agenda) \in Seq(Minor(in))
              /\ Fresh /\ p = NewPlugin
           \/ /\ Head(agenda) \in Due(in) /\ Tail(agenda) \in Seq(Minor(in))
              /\ Fresh /\ p.data = "none" /\ (Head(agenda) = "init" => p.front = "result")
           \/ Head(agenda) \in Minor(in)
<1>1. CASE Opening
  <2>1. Carries(Minor(in), "startup", agenda)
    BY <1>1 DEF Opening
  <2>2. \/ Head(agenda) = "startup" /\ Tail(agenda) \in Seq(Minor(in))
        \/ Head(agenda) \in Minor(in)
    BY <2>1, CarriedOpens
  <2>3. QED
    BY <1>1, <2>2 DEF Opening
<1>2. CASE Awaiting
  <2>1. PICK c \in Due(in) : Carries(Minor(in), c, agenda) /\ (c = "init" => p.front = "result")
    BY <1>2, Zenon DEF Awaiting
  <2>2. \/ Head(agenda) = c /\ Tail(agenda) \in Seq(Minor(in))
        \/ Head(agenda) \in Minor(in)
    BY <2>1, CarriedOpens
  <2>3. QED
    BY <1>2, <2>1, <2>2 DEF Awaiting
<1>3. CASE agenda \in Seq(Minor(in))
  BY <1>3, HeadOfSeq
<1>4. QED
  BY <1>1, <1>2, <1>3 DEF Answering

\* The commands of no consequence leave everything where it was.
LEMMA MinorAnswering ==
    ASSUME Sound, Answering, ~DryRun, phase = "run", agenda # <<>>, Head(agenda) \in Minor(in),
           NEW t \in Seq(Minor(in)), agenda' = t \o Tail(agenda),
           UNCHANGED <<in, p, worked, failed>>
    PROVE  Opening' \/ Awaiting' \/ (agenda' \in Seq(Minor(in)) /\ Outcome')
<1>1. CASE Opening
  <2>1. Carries(Minor(in), "startup", agenda)
    BY <1>1 DEF Opening
  <2>2. Head(agenda) # "startup"
    BY DEF Minor, Waits
  <2>3. Carries(Minor(in), "startup", Tail(agenda))
    BY <2>1, <2>2, CarriedOpens
  <2>4. Carries(Minor(in), "startup", agenda')
    BY <2>3, CarriedBehind
  <2>5. Minor(in)' = Minor(in) /\ Fresh' /\ p' = NewPlugin
    BY <1>1 DEF Opening, Fresh
  <2>6. QED
    BY <2>4, <2>5, Zenon DEF Opening
<1>2. CASE Awaiting
  <2>1. PICK c \in Due(in) : Carries(Minor(in), c, agenda) /\ (c = "init" => p.front = "result")
    BY <1>2, Zenon DEF Awaiting
  <2>2. Head(agenda) # c
    BY DueTells DEF Sound
  <2>3. Carries(Minor(in), c, Tail(agenda))
    BY <2>1, <2>2, CarriedOpens
  <2>4. Carries(Minor(in), c, agenda')
    BY <2>3, CarriedBehind
  <2>5. /\ Minor(in)' = Minor(in) /\ Due(in)' = Due(in)
        /\ Fresh' /\ p'.data = "none" /\ p' = p
    BY <1>2 DEF Awaiting, Fresh
  <2>6. c = "init" => p'.front = "result"
    BY <2>1, <2>5
  <2>7. Awaiting'
    BY <2>4, <2>5, <2>6, Zenon DEF Awaiting
  <2>8. QED
    BY <2>7
<1>3. CASE agenda \in Seq(Minor(in)) /\ Outcome
  <2>1. Tail(agenda) \in Seq(Minor(in))
    BY <1>3, HeadOfSeq
  <2>2. agenda' \in Seq(Minor(in))
    BY <2>1, Joined
  <2>3. Outcome'
    BY <1>3 DEF Outcome, Failing, Working, Misread, Unasked, Owed, Targets
  <2>4. QED
    BY <2>2, <2>3
<1>4. QED
  BY <1>1, <1>2, <1>3 DEF Answering

\* Live, the settled outcomes are all but one.
LEMMA SettledUnlessVersion ==
    ASSUME Sound, Outcome, ~Settled
    PROVE  in.verb = "version" /\ failed
<1>1. in.verb # "init" /\ p.status # "Done"
  BY DEF Settled, Ready
<1>2. p.status = "Error"
  BY <1>1 DEF Outcome, Failing, Working, Misread, Unasked
<1>3. in.verb = "version"
  BY <1>1, <1>2 DEF Settled, Terminal
<1>4. QED
  BY <1>1, <1>3 DEF Outcome, Failing, Working, Misread, Unasked, StateCLI
\* terraform's answer to a live command, failed or not, is its outcome.
LEMMA LiveAnswered ==
    ASSUME Sound, Alone, Answering, ~DryRun, Operates
    PROVE  /\ agenda' \in Seq(Minor(in)) /\ Outcome'
           /\ p'.pending = "none" /\ UNCHANGED <<in, over, count>>
<1>1. PICK op \in Operations : (op \in Mutations /\ Mutate(op)) \/ Terraform(op) \/ Record(op)
  BY Operation
<1>2. Heads(op) /\ in' = in
  BY <1>1, OperationBy
<1>3. /\ phase = "run" /\ agenda # <<>> /\ Head(agenda) = op /\ bound.kind = "exec"
      /\ p \in Plugins /\ in \in Inputs /\ in.verb \in Verbs
  BY <1>2, VerbTyped DEF Heads, Sound, Wired, Kind
<1>4. over = "none" /\ count = Targets /\ p.pending = "none" /\ Targets \in 0..2
  BY <1>3, CommandedIs DEF Alone
<1>5. /\ op \in Due(in) /\ Tail(agenda) \in Seq(Minor(in))
      /\ Fresh /\ p.data = "none" /\ (op = "init" => p.front = "result")
  <2>1. op # "startup" /\ op \notin Minor(in)
    BY DEF Operations, Minor, Waits
  <2>2. QED
    BY <1>3, <2>1, Heading
<1>6. op # "edit" /\ op # "preview" /\ (op = "apply" => in.verb = "apply")
  BY <1>3, <1>5, DueTells
<1>7. Mutate(op) \/ Terraform(op)
  BY <1>1, <1>3 DEF Record
<1>8. ASSUME NEW answer \in Replies, Ran(op, answer)
      PROVE  /\ agenda' \in Seq(Minor(in))
             /\ answer = "failed" => p'.status = "Error" /\ p'.data = "none"
             /\ op = "plan" /\ answer = "garbled" => p'.status = "Error"
             /\ op = "plan" /\ answer \notin {"failed", "garbled"} => p'.status = "Done" /\ p'.data = answer
             /\ op # "plan" /\ answer # "failed" => p'.status = "Done"
             /\ op = "init" => p'.front = "result"
             /\ p'.pending = "none" /\ UNCHANGED <<over, count>>
  <2> DEFINE s == Answer(in, p, op, answer)
  <2>1. agenda' = s.then \o Tail(agenda) /\ p' = s.p /\ UNCHANGED <<over, count>>
    BY <1>4, <1>8 DEF Ran, Queued
  <2>2. s = Answer(in, p, op, answer)
    OBVIOUS
  <2> HIDE DEF s
  <2>3. s.then \in Seq(Minor(in))
    BY <1>3, <1>4, <1>6, <2>2, AnsweredBy
  <2>4. s.p.pending = "none"
    <3>1. s.p.pending \in {p.pending, "none"}
      BY <1>3, <1>6, <2>2, AnsweredBy
    <3>2. QED
      BY <1>4, <3>1
  <2>5. /\ answer = "failed" => s.p.status = "Error" /\ s.p.data = p.data
        /\ op = "plan" /\ answer = "garbled" => s.p.status = "Error"
        /\ op = "plan" /\ answer \notin {"failed", "garbled"} =>
              s.p.status = "Done" /\ s.p.data = answer
        /\ op \notin {"plan", "preview", "edit"} /\ answer # "failed" => s.p.status = "Done"
        /\ op = "init" => s.p.front = p.front
    BY <1>3, <1>6, <2>2, AnsweredBy
  <2>6. agenda' \in Seq(Minor(in))
    BY <1>5, <2>1, <2>3, Joined
  <2>7. QED
    BY <1>5, <1>6, <2>1, <2>4, <2>5, <2>6
<1>9. worked = 0 /\ ~failed /\ Owed' = Owed
  BY <1>2, <1>5 DEF Fresh, Owed, Targets
<1>10. CASE Terraform(op)
  <2>1. PICK answer \in Answers(op) : /\ Ran(op, answer)
                                      /\ failed' = (failed \/ answer = "failed")
                                      /\ worked' = IF answer = "failed" THEN worked ELSE worked + 1
    BY <1>10 DEF Terraform
  <2>2. answer \in Replies /\ op \notin Mutations
    BY <1>10, AnswersTyped DEF Terraform
  <2>3. in.verb \notin StateCLI \cup Runners
    <3>1. op # "refused" /\ op # "mutate"
      BY <2>2 DEF Operations, Mutations
    <3>2. QED
      BY <1>3, <1>5, <3>1, DueTells
  <2>4. Owed = 1
    BY <2>3 DEF Owed
  <2>5. Outcome'
    <3>1. CASE answer = "failed"
      <4>1. failed' /\ p'.status = "Error" /\ p'.data = "none"
        BY <1>8, <2>1, <2>2, <3>1
      <4>2. in'.verb = "init" => p'.front = "result"
        <5>1. in.verb = "init" => op = "init"
          <6>1. in.verb = "init" => Due(in) \subseteq {"submit", "init"}
            BY DEF Due, StateCLI, Runners
          <6>2. op # "submit"
            BY DEF Operations
          <6>3. QED
            BY <1>5, <6>1, <6>2
        <5>2. QED
          BY <1>2, <1>8, <2>1, <2>2, <5>1
      <4>3. QED
        BY <4>1, <4>2 DEF Outcome, Failing
    <3>2. CASE answer = "garbled" /\ op = "plan"
      <4>1. ~failed' /\ p'.status = "Error" /\ in'.verb = "plan"
        BY <1>2, <1>3, <1>5, <1>8, <1>9, <2>1, <2>2, <3>2, DueTells
      <4>2. QED
        BY <4>1 DEF Outcome, Misread
    <3>3. CASE answer # "failed" /\ ~(answer = "garbled" /\ op = "plan")
      <4>1. ~failed' /\ worked' = 1 /\ p'.status = "Done"
        <5>1. worked' = worked + 1 /\ (failed' <=> failed)
          BY <2>1, <3>3
        <5>2. ~failed' /\ worked' = 1
          BY <1>9, <5>1
        <5>3. p'.status = "Done"
          BY <1>8, <2>1, <2>2, <3>3
        <5>4. QED
          BY <5>2, <5>3
      <4>2. in'.verb = "plan" => p'.data \in {"clean", "changes"}
        <5>1. in.verb = "plan" => op = "plan"
          BY <1>3, <1>5, DueTells
        <5>2. op = "plan" => answer \in {"clean", "changes"}
          BY <2>1, <3>3 DEF Answers
        <5>3. op = "plan" => p'.data = answer
          BY <1>8, <2>1, <2>2, <3>3
        <5>4. QED
          BY <1>2, <5>1, <5>2, <5>3
      <4>3. worked' = Owed'
        BY <1>9, <2>4, <4>1
      <4>4. QED
        BY <4>1, <4>2, <4>3 DEF Outcome, Working
    <3>4. QED
      BY <3>1, <3>2, <3>3
  <2>6. QED
    BY <1>2, <1>8, <2>1, <2>2, <2>5
<1>11. CASE Mutate(op) /\ ~Terraform(op)
  <2>0. op \in Mutations
    BY <1>1, <1>3, <1>11 DEF Record
  <2>1. PICK done \in 0..count :
            /\ Ran(op, IF done < count THEN "failed" ELSE "listed")
            /\ worked' = worked + done
            /\ failed' = (failed \/ done < count)
    BY <1>11 DEF Mutate
  <2>2. {"failed", "listed"} \subseteq Replies
    BY DEF Replies, Data
  <2>3. op = "mutate" /\ in.verb \in StateCLI \cup Runners
    BY <1>3, <1>5, <1>6, <2>0, DueTells DEF Mutations
  <2>4. Owed = Targets /\ in.verb # "plan" /\ in.verb # "init"
    BY <2>3 DEF Owed, StateCLI, Runners
  <2>5. Outcome'
    <3>1. CASE done < count
      <4>1. Ran(op, "failed") /\ failed'
        BY <2>1, <3>1
      <4>2. p'.status = "Error" /\ p'.data = "none"
        BY <1>8, <2>2, <4>1
      <4>3. QED
        BY <1>2, <2>4, <4>1, <4>2 DEF Outcome, Failing
    <3>2. CASE ~(done < count)
      <4>1. Ran(op, "listed") /\ ~failed' /\ done = count
        <5>1. Ran(op, "listed") /\ (failed' <=> failed)
          BY <2>1, <3>2
        <5>2. count \in 0..2
          BY <1>4
        <5>3. done = count
          BY <3>2, <5>2
        <5>4. QED
          BY <1>9, <5>1, <5>3
      <4>2. p'.status = "Done"
        BY <1>8, <2>2, <2>3, <4>1
      <4>3. worked' = Owed'
        BY <1>4, <1>9, <2>1, <2>4, <4>1
      <4>4. QED
        BY <1>2, <2>4, <4>1, <4>2, <4>3 DEF Outcome, Working
    <3>3. QED
      BY <3>1, <3>2
  <2>6. \E answer \in Replies : Ran(op, answer)
    BY <2>1, <2>2
  <2>7. QED
    BY <1>2, <1>8, <2>5, <2>6
<1>12. QED
  BY <1>7, <1>10, <1>11
\* A step of a live session's driver leaves it opening, waiting or answered.
LEMMA LiveDriven ==
    ASSUME Sound, Alone, Answering, ~DryRun, Driver
    PROVE  /\ Opening' \/ Awaiting' \/ (agenda' \in Seq(Minor(in))' /\ Outcome')
           /\ p'.pending = "none" /\ UNCHANGED <<over, count>>
<1>0. /\ phase = "run" /\ agenda # <<>> /\ in' = in /\ p \in Plugins /\ in \in Inputs
      /\ in.verb \in Verbs /\ in.auto \in BOOLEAN /\ in.flags \in BOOLEAN
  BY DriverKeeps, VerbTyped DEF Sound
<1>1. over = "none" /\ p.pending = "none" /\ ~Refused(in) /\ in.tape = "none"
  BY <1>0 DEF Alone, Sound, Phased, DryRun
<1>m. Minor(in)' = Minor(in) /\ Due(in)' = Due(in)
  BY <1>0
<1>w. Waits \subseteq Minor(in)
  BY CommandsApart
<1>2. \/ /\ Head(agenda) = "startup" /\ Tail(agenda) \in Seq(Minor(in))
         /\ Fresh /\ p = NewPlugin
      \/ /\ Head(agenda) \in Due(in) /\ Tail(agenda) \in Seq(Minor(in))
         /\ Fresh /\ p.data = "none" /\ (Head(agenda) = "init" => p.front = "result")
      \/ Head(agenda) \in Minor(in)
  BY <1>0, Heading
<1>3. Head(agenda) \in {"startup", "plan", "apply", "submit", "init", "refused", "mutate", "read",
                        "lines", "tick", "event", "workspace", "stale"}
  <2>1. Minor(in) \subseteq {"lines", "tick", "event", "workspace", "stale"}
    BY DEF Minor, Waits
  <2>2. Due(in) \subseteq {"plan", "apply", "submit", "init", "refused", "mutate", "read"}
    BY <1>0, DueTells
  <2>3. QED
    BY <1>2, <2>1, <2>2
<1>4. ~Deactivate /\ ~PushApply /\ ~PushRunner /\ ~OpenPrompt
  BY <1>3 DEF Deactivate, PushApply, PushRunner, OpenPrompt, Heads, Applies, Runners, Prompts
<1>5. CASE LoadWorkspace \/ PassEvent \/ Invalidate \/ Tick \/ ReadLine
  <2>1. Head(agenda) \in {"lines", "tick", "event", "workspace", "stale"}
    BY <1>5 DEF LoadWorkspace, PassEvent, Invalidate, Tick, ReadLine, Heads
  <2>2. Head(agenda) \in Minor(in)
    <3>1. Head(agenda) # "startup" /\ Head(agenda) \notin Due(in)
      BY <1>0, <2>1, DueTells
    <3>2. QED
      BY <1>2, <3>1
  <2>3. UNCHANGED <<worked, failed, over, count>>
    BY <1>5 DEF LoadWorkspace, PassEvent, Invalidate, Tick, ReadLine, deeds, app
  <2>4. p' = p
    <3>1. CASE Invalidate
      <4>1. p' = Emitted(in, p, "stale") /\ Head(agenda) = "stale"
        BY <3>1 DEF Invalidate, Heads
      <4>2. in.verb \in Runners \cup {"apply"}
        BY <2>2, <4>1 DEF Minor, Waits
      <4>3. p \in Plugins
        BY <1>0
      <4>4. PICK event : p' = Emitted(in, p, event)
        BY <4>1
      <4>5. QED
        BY <4>2, <4>3, <4>4, EmittedBy
    <3>2. CASE LoadWorkspace \/ PassEvent \/ Tick \/ ReadLine
      BY <3>2 DEF LoadWorkspace, PassEvent, Tick, ReadLine
    <3>3. QED
      BY <1>5, <3>1, <3>2
  <2>5. \E t \in {<<>>, <<"tick">>, <<"lines">>} : agenda' = t \o Tail(agenda)
    BY <1>5 DEF LoadWorkspace, PassEvent, Invalidate, Tick, ReadLine, Queued
  <2>6. <<>> \in Seq(Minor(in)) /\ <<"tick">> \in Seq(Minor(in)) /\ <<"lines">> \in Seq(Minor(in))
    <3>1. "tick" \in Minor(in) /\ "lines" \in Minor(in)
      BY DEF Minor, Waits
    <3>2. QED
      BY <3>1, Written
  <2>7. PICK t \in Seq(Minor(in)) : agenda' = t \o Tail(agenda)
    BY <2>5, <2>6
  <2>8. Opening' \/ Awaiting' \/ (agenda' \in Seq(Minor(in)) /\ Outcome')
    BY <1>0, <2>2, <2>3, <2>4, <2>7, MinorAnswering
  <2>9. QED
    BY <1>1, <1>m, <2>3, <2>4, <2>8
<1>6. CASE Startup
  <2> DEFINE s == Activated(in, p)
  <2>1. /\ Head(agenda) = "startup" /\ agenda' = s.then \o Tail(agenda) /\ p' = s.p
        /\ UNCHANGED <<worked, failed, over, count>>
    BY <1>6 DEF Startup, Handled, Queued, Heads, deeds, app
  <2>2. s = Activated(in, p)
    OBVIOUS
  <2> HIDE DEF s
  <2>3. Kept(p, s.p)
    BY <1>0, <2>2, ActivatedBy
  <2>4. (First(in) = {} /\ s.then = <<>>) \/ \E c \in First(in) : Carries(Waits, c, s.then)
    BY <1>0, <2>2, ActivatedBy
  <2>5. Tail(agenda) \in Seq(Minor(in)) /\ Fresh /\ p = NewPlugin
    <3>1. Head(agenda) \notin Due(in) /\ Head(agenda) \notin Minor(in)
      BY <1>0, <2>1, DueTells DEF Minor, Waits
    <3>2. QED
      BY <1>2, <3>1
  <2>6. Fresh' /\ p'.data = "none" /\ p'.pending = "none"
    BY <1>1, <2>1, <2>3, <2>5, NewPluginTyped DEF Fresh, Kept
  <2>7. CASE First(in) = {} /\ s.then = <<>>
    <3>1. in.verb = "init" /\ ~in.flags
      BY <1>0, <1>1, <2>7, DueTells
    <3>2. Outcome'
      BY <1>0, <2>6, <3>1 DEF Outcome, Unasked, Fresh
    <3>3. agenda' \in Seq(Minor(in))
      <4>1. <<>> \in Seq(Minor(in))
        OBVIOUS
      <4>2. QED
        BY <2>1, <2>5, <2>7, <4>1, Joined
    <3>4. QED
      BY <1>m, <2>1, <2>6, <3>2, <3>3
  <2>8. CASE \E c \in First(in) : Carries(Waits, c, s.then)
    <3>1. PICK c \in First(in) : Carries(Waits, c, s.then)
      BY <2>8, Zenon
    <3>2. c \in Due(in) /\ c # "init"
      BY <1>0, <1>1, DueTells
    <3>3. Carries(Minor(in), c, s.then)
      BY <1>w, <3>1, CarriedWider
    <3>4. Carries(Minor(in), c, agenda')
      BY <2>1, <2>5, <3>3, CarriedBefore
    <3>5. Awaiting'
      BY <1>m, <2>6, <3>2, <3>4, Zenon DEF Awaiting
    <3>6. QED
      BY <2>1, <2>6, <3>5
  <2>9. QED
    BY <2>4, <2>7, <2>8
<1>7. CASE Submit
  <2>1. /\ Head(agenda) = "submit" /\ agenda' = InitSubmitted(p).then \o Tail(agenda)
        /\ p' = InitSubmitted(p).p /\ UNCHANGED <<worked, failed, over, count>>
    BY <1>7 DEF Submit, Handled, Queued, Heads, deeds, app
  <2>2. /\ Kept(p, InitSubmitted(p).p) /\ Carries(Waits, "init", InitSubmitted(p).then)
        /\ InitSubmitted(p).p.front = "result"
    BY <1>0, SubmittedBy
  <2>3. Head(agenda) \in Due(in) /\ Tail(agenda) \in Seq(Minor(in)) /\ Fresh /\ p.data = "none"
    <3>1. Head(agenda) # "startup" /\ Head(agenda) \notin Minor(in)
      BY <2>1 DEF Minor, Waits
    <3>2. QED
      BY <1>2, <3>1
  <2>4. "init" \in Due(in)
    BY <1>0, <2>1, <2>3, DueTells
  <2>5. Carries(Minor(in), "init", InitSubmitted(p).then)
    BY <1>w, <2>2, CarriedWider
  <2>6. Carries(Minor(in), "init", agenda')
    BY <2>1, <2>3, <2>5, CarriedBefore
  <2>7. Fresh' /\ p'.data = "none" /\ p'.pending = "none" /\ p'.front = "result"
    BY <1>1, <2>1, <2>2, <2>3 DEF Fresh, Kept
  <2>8. Awaiting'
    BY <1>m, <2>4, <2>6, <2>7, Zenon DEF Awaiting
  <2>9. QED
    BY <2>1, <2>7, <2>8
<1>8. CASE ReportRefusal
  <2>1. /\ Head(agenda) = "refused" /\ agenda' = CLIDone(p, "failed").then \o Tail(agenda)
        /\ p' = CLIDone(p, "failed").p /\ UNCHANGED <<worked, failed, over, count>>
    BY <1>8 DEF ReportRefusal, Handled, Queued, Heads, deeds, app
  <2>2. /\ Kept(p, CLIDone(p, "failed").p) /\ CLIDone(p, "failed").then = <<>>
        /\ CLIDone(p, "failed").p.status = "Error"
    BY <1>0, RefusedBy
  <2>3. Head(agenda) \in Due(in) /\ Tail(agenda) \in Seq(Minor(in)) /\ Fresh
    <3>1. Head(agenda) # "startup" /\ Head(agenda) \notin Minor(in)
      BY <2>1 DEF Minor, Waits
    <3>2. QED
      BY <1>2, <3>1
  <2>4. in.verb \in StateCLI /\ Refuses(in)
    BY <1>0, <2>1, <2>3, DueTells
  <2>5. Outcome'
    BY <1>0, <2>1, <2>2, <2>3, <2>4 DEF Outcome, Misread, Fresh
  <2>6. agenda' \in Seq(Minor(in))
    <3>1. <<>> \in Seq(Minor(in))
      OBVIOUS
    <3>2. QED
      BY <2>1, <2>2, <2>3, <3>1, Joined
  <2>7. QED
    BY <1>1, <1>m, <2>1, <2>2, <2>5, <2>6 DEF Kept
<1>9. CASE Operates
  BY <1>9, <1>m, LiveAnswered
<1>10. QED
  BY <1>4, <1>5, <1>6, <1>7, <1>8, <1>9 DEF Driver, Operates

\* Every step of a session keeps what it can answer.
LEMMA AnsweringStep ==
    Sound /\ Seeds /\ Alone /\ Answering /\ [Next]_vars => Alone' /\ Answering'
<1> SUFFICES ASSUME Sound, Seeds, Alone, Answering, [Next]_vars PROVE Alone' /\ Answering'
  OBVIOUS
<1>1. CASE UNCHANGED vars
  BY <1>1 DEF vars, app, services, stream, tape, deeds, Answering, Alone, Opening, Awaiting, Reported,
      Outcome, Failing, Working, Misread, Unasked, Settled, Fresh, Owed, Targets, DryRun
<1>2. CASE Next
  <2>0. /\ in' = in /\ DryRun' = DryRun /\ (Refused(in))' = Refused(in) /\ Targets' = Targets
        /\ Minor(in)' = Minor(in)
    BY <1>2, LineKept DEF Targets
  <2>1. CASE Refuse
    <3>1. Ends /\ phase = "start" /\ Refused(in) /\ out' = Wrote("empty", "error", RefusalCode(in))
      BY <2>1 DEF Ends, Refuse, Ended
    <3>2. phase' = "ended" /\ UNCHANGED <<p, over, count, worked, failed>>
      BY <3>1, EndsKeep
    <3>3. Fresh' /\ Alone'
      BY <2>0, <3>1, <3>2 DEF Answering, Fresh, Alone
    <3>4. Reported'
      BY <2>0, <3>1 DEF Reported
    <3>5. QED
      BY <3>2, <3>3, <3>4 DEF Answering
  <2>2. CASE Begin
    <3>1. /\ phase = "start" /\ ~Refused(in) /\ phase' = "run" /\ agenda' = <<"workspace", "startup">>
          /\ UNCHANGED <<p, over, count, worked, failed>>
      BY <2>2, BeginKeeps
    <3>2. Fresh' /\ p' = NewPlugin
      BY <3>1 DEF Answering, Fresh, Seeds
    <3>3. Carries(Minor(in), "startup", <<"workspace", "startup">>)
      <4>1. "workspace" \in Minor(in)
        BY DEF Minor
      <4>2. \A a \in Minor(in) : Carries(Minor(in), "startup", <<a, "startup">>)
        BY Written, Zenon
      <4>3. QED
        BY <4>1, <4>2, Zenon
    <3>4. Carries(Minor(in)', "startup", agenda')
      BY <2>0, <3>1, <3>3
    <3>5. Opening'
      BY <3>2, <3>4 DEF Opening
    <3>6. Alone'
      BY <2>0, <3>1 DEF Alone
    <3>7. QED
      BY <3>1, <3>2, <3>5, <3>6 DEF Answering
  <2>3. CASE Driver /\ DryRun
    <3>1. Fresh' /\ phase' = "run"
      <4>1. phase = "run" /\ phase' = "run" /\ Fresh
        BY <2>3, DriverKeeps DEF Answering
      <4>2. UNCHANGED <<worked, failed>>
        <5>1. CASE Operates
          <6>1. PICK op \in Operations :
                   (op \in Mutations /\ Mutate(op)) \/ Terraform(op) \/ Record(op)
            BY <5>1, Operation
          <6>2. Record(op)
            BY <2>3, <6>1, OperationDoes
          <6>3. QED
            BY <6>2 DEF Record
        <5>2. CASE ~Operates
          BY <2>3, <5>2 DEF Driver, Operates, LoadWorkspace, Startup, Submit, ReportRefusal, Handled,
               PassEvent, Invalidate, Deactivate, PushApply, PushRunner, Push, OpenPrompt, Tick,
               ReadLine, deeds
        <5>3. QED
          BY <5>1, <5>2
      <4>3. QED
        BY <4>1, <4>2 DEF Fresh
    <3>2. QED
      BY <2>0, <2>3, <3>1 DEF Answering, Alone
  <2>4. CASE Driver /\ ~DryRun
    <3>1. /\ Opening' \/ Awaiting' \/ (agenda' \in Seq(Minor(in))' /\ Outcome')
          /\ p'.pending = "none" /\ UNCHANGED <<over, count>>
      BY <2>4, LiveDriven
    <3>2. phase = "run" /\ phase' = "run" /\ ~Refused(in)
      BY <2>4, DriverKeeps DEF Sound, Phased
    <3>3. Alone'
      BY <2>0, <2>4, <3>1 DEF Alone
    <3>4. QED
      BY <2>0, <2>4, <3>1, <3>2, <3>3 DEF Answering
  <2>5. CASE Wait
    <3>1. /\ phase = "run" /\ phase' = "run" /\ agenda = <<>> /\ agenda' = <<>> /\ ~DryRun
          /\ UNCHANGED <<p, over, count, worked, failed>>
      BY <2>5, WaitKeeps
    <3>2. Outcome /\ ~Refused(in)
      BY <3>1, Rested DEF Sound, Phased
    <3>3. Outcome'
      BY <2>0, <3>1, <3>2 DEF Outcome, Failing, Working, Misread, Unasked, Owed, Targets
    <3>4. agenda' \in Seq(Minor(in))'
      BY <3>1
    <3>5. QED
      BY <2>0, <3>1, <3>2, <3>3, <3>4 DEF Answering, Alone
  <2>6. CASE Deadline \/ PrintResult
    <3>1. Ends /\ phase = "run" /\ ~DryRun /\ agenda = <<>>
      BY <2>6 DEF Ends, Deadline, PrintResult, Idle
    <3>2. phase' = "ended" /\ UNCHANGED <<p, over, count, worked, failed>>
      BY <3>1, EndsKeep
    <3>3. Outcome /\ ~Refused(in)
      BY <3>1, Rested DEF Sound, Phased
    <3>4. Outcome'
      BY <2>0, <3>2, <3>3 DEF Outcome, Failing, Working, Misread, Unasked, Owed, Targets
    <3>5. Settled' <=> Settled
      BY <2>0, <3>2 DEF Settled
    <3>6. /\ Settled  => out' = Wrote(Stdout(in, p), Stderr(in, p), ExitCode(in, p))
          /\ ~Settled => out' = Wrote("empty", "timeout", 1)
      BY <2>6 DEF Deadline, PrintResult, Ended
    <3>7. (Wrote(Stdout(in, p), Stderr(in, p), ExitCode(in, p)))' = Wrote(Stdout(in, p), Stderr(in, p), ExitCode(in, p))
      BY <2>0, <3>2
    <3>8. Reported'
      BY <2>0, <3>1, <3>3, <3>4, <3>5, <3>6, <3>7 DEF Reported
    <3>9. Alone'
      BY <2>0, <3>2 DEF Alone
    <3>10. QED
      BY <2>0, <3>1, <3>2, <3>3, <3>8, <3>9 DEF Answering
  <2>7. CASE Capture \/ Plays
    <3>1. DryRun /\ phase' \in {"tape", "run"} /\ UNCHANGED <<worked, failed>>
      BY <2>7, CaptureKeeps, PlayedKeeps DEF Sound, Phased
    <3>2. Fresh'
      BY <3>1 DEF Answering, Fresh
    <3>3. QED
      BY <2>0, <3>1, <3>2 DEF Answering, Alone
  <2>8. CASE PlayFails \/ EndOfTape
    <3>1. Ends /\ phase = "tape"
      BY <2>8 DEF Ends, PlayFails, EndOfTape, Playing
    <3>2. phase' = "ended" /\ UNCHANGED <<worked, failed>>
      BY <3>1, EndsKeep
    <3>3. DryRun /\ ~Refused(in)
      BY <3>1 DEF Sound, Phased
    <3>4. Fresh'
      BY <3>2, <3>3 DEF Answering, Fresh
    <3>5. out' = Wrote("commands", "empty", 0) \/ \E code \in {1, 3} : out' = Wrote("empty", "error", code)
      BY <2>8 DEF PlayFails, EndOfTape, Ended
    <3>6. Reported'
      BY <2>0, <3>3, <3>5 DEF Reported
    <3>7. QED
      BY <2>0, <3>2, <3>3, <3>4, <3>6 DEF Answering, Alone
  <2>9. QED
    BY <1>2, <2>1, <2>2, <2>3, <2>4, <2>5, <2>6, <2>7, <2>8, NextIs DEF Ends
<1>3. QED
  BY <1>1, <1>2

\* So it always stands at one or the other.
LEMMA AlwaysAnswering == Spec => [](Sound /\ Answering)
<1>1. Init => Alone /\ Answering
  BY NewPluginTyped DEF Init, Alone, Answering, Fresh
<1>2. Init => Sound /\ Listed /\ Seeds /\ Balanced
  BY BeginTyped, BeginBalanced
<1>3. Sound /\ Listed /\ Seeds /\ Balanced /\ Alone /\ Answering /\ [Next]_vars =>
         (Sound /\ Listed /\ Seeds /\ Balanced /\ Alone /\ Answering)'
  BY SoundStep, BalancedStep, AnsweringStep
<1>4. QED
  BY <1>1, <1>2, <1>3, PTL DEF Spec
(* A live command is settled as soon as its commands are run: only a version    *)
(* that terraform failed is waited for (WaitUntil), whatever the deadline.      *)
THEOREM SettlesAtOnce == Spec => []SettlesWithoutDeadline
<1>1. Init => SettlesWithoutDeadline
  BY DEF Init, SettlesWithoutDeadline
<1>2. Sound /\ Answering /\ SettlesWithoutDeadline /\ [Next]_vars => SettlesWithoutDeadline'
  <2> SUFFICES ASSUME Sound, Answering, SettlesWithoutDeadline, [Next]_vars
               PROVE  SettlesWithoutDeadline'
    OBVIOUS
  <2>1. CASE UNCHANGED vars
    BY <2>1 DEF vars, deeds, SettlesWithoutDeadline
  <2>2. CASE Wait
    <3>1. phase = "run" /\ ~DryRun /\ agenda = <<>> /\ ~Settled /\ UNCHANGED <<in, failed>>
      BY <2>2, WaitKeeps
    <3>2. Outcome
      BY <3>1, Rested
    <3>3. in.verb = "version" /\ failed
      BY <3>1, <3>2, SettledUnlessVersion
    <3>4. QED
      BY <3>1, <3>3 DEF SettlesWithoutDeadline
  <2>3. CASE Next /\ ~Wait
    <3>1. in' = in /\ rounds' = rounds
      BY <2>3, NextIs, LineKept, EndsKeep, BeginKeeps, CaptureKeeps, PlayedKeeps, DriverKeeps
    <3>2. failed => failed'
      <4>1. CASE Ends \/ Begin \/ Capture \/ Plays
        BY <4>1, EndsKeep, BeginKeeps, CaptureKeeps, PlayedKeeps
      <4>2. CASE Driver /\ ~Operates
        BY <4>2 DEF Driver, Operates, LoadWorkspace, Startup, Submit, ReportRefusal, Handled,
             PassEvent, Invalidate, Deactivate, PushApply, PushRunner, Push, OpenPrompt, Tick,
             ReadLine, deeds
      <4>3. CASE Operates
        BY <4>3 DEF Operates, Mutate, Terraform, Record
      <4>4. QED
        BY <2>3, <4>1, <4>2, <4>3, NextIs
    <3>3. QED
      BY <3>1, <3>2 DEF SettlesWithoutDeadline
  <2>4. QED
    BY <2>1, <2>2, <2>3
<1>3. QED
  BY <1>1, <1>2, AlwaysAnswering, PTL DEF Spec

(* The failure rows of the output contract, for the commands that keep them:    *)
(* when terraform fails, its error is on stderr, stdout is empty, the exit code *)
(* is 1. A version keeps only the last two: its stderr is the driver's timeout  *)
(* (WaitUntil), and terraform's error is not printed.                           *)
THEOREM FailuresReported == Spec => []FailureIsReported
<1>1. ASSUME Sound, Answering, Over, failed, in.verb # "output",
             ~(in.json /\ in.verb \in {"state"} \cup StateCLI)
      PROVE  out = Wrote("empty", IF in.verb = "version" THEN "timeout" ELSE "error", 1)
  <2>0. in.verb \in Verbs
    BY <1>1, VerbTyped DEF Sound
  <2>1. Reported /\ ~DryRun /\ ~Refused(in)
    BY <1>1 DEF Answering, Over, Fresh
  <2>2. Failing
    BY <1>1, <2>1 DEF Reported, Outcome, Working, Misread, Unasked
  <2>3. CASE ~Settled
    <3>1. in.verb = "version"
      BY <1>1, <2>1, <2>3, SettledUnlessVersion DEF Reported
    <3>2. QED
      BY <2>1, <2>3, <3>1 DEF Reported
  <2>4. CASE Settled
    <3>1. in.verb # "version" /\ p.status = "Error" /\ p.data = "none"
          /\ (in.verb = "init" => p.front = "result")
      BY <2>2, <2>4 DEF Failing, Settled, Ready, Terminal
    <3>2. Stdout(in, p) = "empty"
      BY <1>1, <2>0, <3>1 DEF Stdout, PlanStdout, StateStdout, InitStdout, InitOutcome, ValidateStdout,
                       Verbs, Runners, StateCLI
    <3>3. Stderr(in, p) = "error"
      BY <1>1, <2>0, <3>1 DEF Stderr, ApplyStderr, RunnerStderr, InitOutcome, Verbs, Runners, StateCLI
    <3>4. ExitCode(in, p) = 1
      BY <1>1, <2>0, <3>1 DEF ExitCode, PlanExit, ValidateExit, InitOutcome, Verbs, Runners, StateCLI
    <3>5. QED
      BY <2>1, <2>4, <3>1, <3>2, <3>3, <3>4 DEF Reported
  <2>5. QED
    BY <2>3, <2>4
<1>2. Sound /\ Answering => FailureIsReported
  BY <1>1 DEF FailureIsReported
<1>3. QED
  BY <1>2, AlwaysAnswering, PTL

(* The exit code tells what terraform did: 0 only when everything the command   *)
(* asked for was done and a plan has no change, 2 only for a plan with changes; *)
(* in a dry run 0 means that the tape was played to its end (ExitCode,          *)
(* RunHeadless, RunMacro).                                                      *)
THEOREM ExitsTellOutcomes == Spec => []ExitTellsOutcome
<1>1. ASSUME Sound, Answering, Over, Candid
      PROVE  /\ out.exit = 0 /\ ~DryRun => worked = Owed /\ ~failed
                                           /\ (in.verb = "plan" => p.data = "clean")
             /\ out.exit = 2 /\ ~DryRun => in.verb = "plan" /\ p.data = "changes" /\ ~failed
             /\ out.exit = 0 /\ DryRun  => out.stdout = "commands"
             /\ out.exit # 0 /\ DryRun  => out.stdout = "empty"
  <2>0. in.verb \in Verbs /\ in.flags \in BOOLEAN
    BY <1>1, VerbTyped DEF Sound
  <2>1. Reported
    BY <1>1 DEF Answering, Over
  <2>2. CASE Refused(in)
    <3>1. out.exit \in {1, 2} /\ out.stdout = "empty" /\ out.exit = RefusalCode(in)
      BY <2>1, <2>2, CodesTyped DEF Reported, Wrote
    <3>2. out.exit = 2 => DryRun
      BY <3>1 DEF RefusalCode, DryRun
    <3>3. QED
      BY <3>1, <3>2
  <2>3. CASE ~Refused(in) /\ DryRun
    BY <2>1, <2>3 DEF Reported, Wrote
  <2>4. CASE ~Refused(in) /\ ~DryRun
    <3>0. Outcome
      BY <2>1, <2>4 DEF Reported
    <3>1. CASE ~Settled
      BY <2>1, <2>4, <3>1 DEF Reported, Wrote
    <3>2. CASE Settled
      <4>1. out.exit = ExitCode(in, p)
        BY <2>1, <2>4, <3>2 DEF Reported, Wrote
      <4>2. in.verb # "output" /\ (in.verb = "init" => in.flags)
        BY <1>1 DEF Candid
      <4>3. CASE Failing
        <5>1. in.verb # "version"
          BY <3>2, <4>3 DEF Failing, Settled, Ready, Terminal
        <5>2. ExitCode(in, p) = 1
          BY <2>0, <4>2, <4>3, <5>1 DEF Failing, ExitCode, PlanExit, ValidateExit, InitOutcome,
                                 Verbs, Runners, StateCLI
        <5>3. QED
          BY <2>4, <4>1, <5>2
      <4>4. CASE Working
        <5>1. in.verb = "plan" => /\ ExitCode(in, p) = (IF p.data = "changes" THEN 2 ELSE 0)
                                  /\ p.data \in {"clean", "changes"}
          BY <4>4 DEF Working, ExitCode, PlanExit
        <5>2. in.verb # "plan" => ExitCode(in, p) # 2
          BY <2>0 DEF ExitCode, ValidateExit, Verbs, Runners, StateCLI
        <5>3. QED
          BY <2>4, <4>1, <4>4, <5>1, <5>2 DEF Working
      <4>5. CASE Misread
        <5>1. ExitCode(in, p) = 1
          BY <4>5 DEF Misread, ExitCode, PlanExit, StateCLI
        <5>2. QED
          BY <2>4, <4>1, <5>1
      <4>6. CASE Unasked
        BY <4>2, <4>6 DEF Unasked
      <4>7. QED
        BY <3>0, <4>3, <4>4, <4>5, <4>6 DEF Outcome
    <3>3. QED
      BY <3>1, <3>2
  <2>5. QED
    BY <2>2, <2>3, <2>4
<1>2. Sound /\ Answering => ExitTellsOutcome
  BY <1>1 DEF ExitTellsOutcome
<1>3. QED
  BY <1>2, AlwaysAnswering, PTL
=============================================================================
