-------------------------- MODULE ModelGateway_proofs --------------------------
(***************************************************************************)
(* Proofs about model calls through the gateway, for any operations,       *)
(* invocations, epochs, limits, retries, models and faults: types, the     *)
(* limit of model calls, the answer of an operation, the locks, and what   *)
(* an invocation may assume when it calls the provider.                    *)
(***************************************************************************)
EXTENDS ModelGateway, FiniteSetTheorems, TLAPS

(***************************************************************************)
(* Queues of posts                                                         *)
(***************************************************************************)

\* The order in which the posts of an operation are queued: an attempt is
\* reserved, dispatched, charged, and then the next one is reserved.
Follows(p, q) ==
  \/ p.kind = "reserve" /\ q.kind = "dispatched" /\ q.n = p.n
  \/ p.kind = "dispatched" /\ q.kind = "charge" /\ q.n = p.n
  \/ p.kind = "charge" /\ q.kind = "reserve" /\ q.n = p.n + 1

Last(posts) == posts[Len(posts)]

Chain(posts, n) ==
  /\ \A k \in 1 .. Len(posts) : posts[k].n \in 1 .. n
  /\ \A k \in 1 .. Len(posts) - 1 : Follows(posts[k], posts[k + 1])

\* The queue while attempt n begins, ...
Beginning(posts, n) ==
  /\ posts # <<>> /\ Chain(posts, n)
  /\ Last(posts).kind = "dispatched" /\ Last(posts).n = n

\* ... what may be left of the queue when attempt n is over, ...
Left(posts, n) ==
  posts # <<>> => Chain(posts, n) /\ Last(posts).kind = "charge" /\ Last(posts).n = n

\* ... and the queue while it is charged.
Charged(posts, n) == Len(posts) = 1 /\ posts[1].kind = "charge" /\ posts[1].n = n

LEMMA Ends ==
  ASSUME NEW posts \in Seq(PostType), posts # <<>>
  PROVE  /\ Len(posts) \in Nat \ {0} /\ Head(posts) = posts[1] /\ Head(posts) \in PostType
         /\ Tail(posts) \in Seq(PostType) /\ Len(Tail(posts)) = Len(posts) - 1
         /\ \A k \in 1 .. Len(posts) - 1 : Tail(posts)[k] = posts[k + 1]
         /\ Len(posts) = 1 <=> Tail(posts) = <<>>
<1>1. Len(posts) \in Nat \ {0} /\ Head(posts) = posts[1] /\ Head(posts) \in PostType
      OBVIOUS
<1>2. Tail(posts) \in Seq(PostType) /\ Len(Tail(posts)) = Len(posts) - 1
      OBVIOUS
<1>3. \A k \in 1 .. Len(posts) - 1 : Tail(posts)[k] = posts[k + 1]
      OBVIOUS
<1>4. Len(posts) = 1 <=> Tail(posts) = <<>>
  <2>1. ASSUME NEW s \in Seq(PostType) PROVE Len(s) = 0 <=> s = <<>>
        OBVIOUS
  <2>2. Len(Tail(posts)) = 0 <=> Tail(posts) = <<>>
        BY <1>2, <2>1
  <2>. QED BY <1>1, <1>2, <2>2
<1>. QED BY <1>1, <1>2, <1>3, <1>4

LEMMA ChargedIsLeft ==
  ASSUME NEW posts \in Seq(PostType), NEW n \in Nat \ {0}, Charged(posts, n)
  PROVE  posts # <<>> /\ Left(posts, n)
<1>0. posts = <<>> => Len(posts) = 0
      OBVIOUS
<1>1. posts # <<>> /\ Len(posts) = 1
      BY <1>0 DEF Charged
<1>2. Chain(posts, n)
  <2>1. \A k \in 1 .. Len(posts) : posts[k].n \in 1 .. n
    <3>1. \A k \in 1 .. 1 : k = 1
          OBVIOUS
    <3>. QED BY <1>1, <3>1 DEF Charged
  <2>2. \A k \in 1 .. Len(posts) - 1 : FALSE
        BY <1>1
  <2>. QED BY <2>1, <2>2 DEF Chain
<1>. QED BY <1>1, <1>2 DEF Charged, Left, Last

\* The queue without its first post.
LEMMA TailBegins ==
  ASSUME NEW posts \in Seq(PostType), NEW n \in Nat \ {0}, Beginning(posts, n),
         Tail(posts) # <<>>
  PROVE  /\ Beginning(Tail(posts), n) /\ Tail(posts) \in Seq(PostType)
         /\ Follows(Head(posts), Head(Tail(posts)))
<1>. DEFINE rest == Tail(posts)
<1>1. /\ Len(posts) \in Nat /\ Len(posts) >= 2 /\ Len(rest) = Len(posts) - 1
      /\ rest \in Seq(PostType)
      /\ \A k \in 1 .. Len(posts) - 1 : rest[k] = posts[k + 1]
      /\ Head(posts) = posts[1]
      BY Ends DEF Beginning
<1>2. Head(rest) = rest[1]
      BY <1>1, Ends
<1>3. \A k \in 1 .. Len(rest) : rest[k].n \in 1 .. n
      BY <1>1 DEF Beginning, Chain
<1>4. ASSUME NEW k \in 1 .. Len(rest) - 1
      PROVE  Follows(rest[k], rest[k + 1])
  <2>1. rest[k] = posts[k + 1] /\ rest[k + 1] = posts[(k + 1) + 1] /\ k + 1 \in 1 .. Len(posts) - 1
        BY <1>1
  <2>. QED BY <2>1 DEF Beginning, Chain
<1>5. Last(rest) = Last(posts)
      BY <1>1 DEF Last
<1>6. Follows(posts[1], posts[1 + 1])
      BY <1>1 DEF Beginning, Chain
<1>. QED BY <1>1, <1>2, <1>3, <1>4, <1>5, <1>6 DEF Beginning, Chain

\* A queue whose first post is marked as seen.
Marked(posts) == <<[Head(posts) EXCEPT !.seen = TRUE]>> \o Tail(posts)

LEMMA MarkedQueue ==
  ASSUME NEW posts \in Seq(PostType), posts # <<>>
  PROVE  /\ Marked(posts) \in Seq(PostType) /\ Marked(posts) # <<>>
         /\ Head(Marked(posts)) = [Head(posts) EXCEPT !.seen = TRUE]
         /\ Head(Marked(posts)).seen
         /\ \A n \in Nat \ {0} : /\ Beginning(posts, n) => Beginning(Marked(posts), n)
                                 /\ Charged(posts, n) => Charged(Marked(posts), n)
<1>. DEFINE p == [Head(posts) EXCEPT !.seen = TRUE]
            s == Marked(posts)
<1>1. p \in PostType /\ p.kind = posts[1].kind /\ p.n = posts[1].n /\ p.seen
      BY Ends DEF PostType
<1>2. /\ s \in Seq(PostType) /\ Len(s) = Len(posts) /\ s[1] = p
      /\ Len(s) \in Nat \ {0}
      /\ \A k \in 2 .. Len(s) : s[k] = posts[k]
  <2>1. <<p>> \in Seq(PostType) /\ Len(<<p>>) = 1 /\ <<p>>[1] = p
        BY <1>1
  <2>2. Tail(posts) \in Seq(PostType) /\ Len(Tail(posts)) = Len(posts) - 1 /\ Len(posts) \in Nat \ {0}
        /\ \A k \in 1 .. Len(posts) - 1 : Tail(posts)[k] = posts[k + 1]
        BY Ends
  <2>3. s = <<p>> \o Tail(posts)
        BY DEF Marked
  <2>4. s \in Seq(PostType) /\ Len(s) = Len(posts) /\ s[1] = p
        BY <2>1, <2>2, <2>3
  <2>5. ASSUME NEW k \in 2 .. Len(s) PROVE s[k] = posts[k]
    <3>1. s[k] = Tail(posts)[k - 1]
          BY <2>1, <2>2, <2>3, <2>4, <2>5
    <3>. QED BY <2>2, <2>4, <2>5, <3>1
  <2>. QED BY <2>2, <2>4, <2>5
<1>3. ASSUME NEW k \in 1 .. Len(s)
      PROVE  s[k].kind = posts[k].kind /\ s[k].n = posts[k].n
  <2>1. CASE k = 1
        BY <1>1, <1>2, <2>1
  <2>2. CASE k # 1
    <3>1. k \in 2 .. Len(s)
          BY <1>2, <2>2
    <3>. QED BY <1>2, <3>1
  <2>. QED BY <2>1, <2>2
<1>4. s # <<>> /\ Head(s) = p
      BY <1>2
<1>5. ASSUME NEW n \in Nat \ {0}, Chain(posts, n) PROVE Chain(s, n)
  <2>1. \A k \in 1 .. Len(s) : s[k].n \in 1 .. n
        BY <1>2, <1>3, <1>5 DEF Chain
  <2>2. ASSUME NEW k \in 1 .. Len(s) - 1 PROVE Follows(s[k], s[k + 1])
    <3>1. k \in 1 .. Len(s) /\ k + 1 \in 1 .. Len(s) /\ k \in 1 .. Len(posts) - 1
          BY <1>2
    <3>2. Follows(posts[k], posts[k + 1])
          BY <1>5, <3>1 DEF Chain
    <3>. QED BY <1>3, <3>1, <3>2 DEF Follows
  <2>. QED BY <2>1, <2>2 DEF Chain
<1>6. Last(s).kind = Last(posts).kind /\ Last(s).n = Last(posts).n
      BY <1>2, <1>3 DEF Last
<1>7. \A n \in Nat \ {0} : Beginning(posts, n) => Beginning(s, n)
      BY <1>4, <1>5, <1>6 DEF Beginning
<1>8. \A n \in Nat \ {0} : Charged(posts, n) => Charged(s, n)
      BY <1>2, <1>3 DEF Charged
<1>. QED BY <1>1, <1>2, <1>4, <1>7, <1>8

\* The failure of attempt n is queued, ...
LEMMA FailureQueued ==
  ASSUME NEW posts \in Seq(PostType), NEW n \in Nat \ {0}, Beginning(posts, n)
  PROVE  LET s == Append(posts, Post("charge", n)) IN
           s \in Seq(PostType) /\ s # <<>> /\ Left(s, n) /\ Head(s) = Head(posts)
<1>. DEFINE c == Post("charge", n)
            s == Append(posts, c)
<1>1. c \in PostType /\ c.kind = "charge" /\ c.n = n
      BY DEF Post, PostType, PostKinds
<1>2. /\ s \in Seq(PostType) /\ Len(s) = Len(posts) + 1 /\ Len(posts) \in Nat \ {0}
      /\ s[Len(posts) + 1] = c /\ \A k \in 1 .. Len(posts) : s[k] = posts[k]
      BY <1>1, Ends DEF Beginning
<1>3. s # <<>> /\ Head(s) = Head(posts)
      BY <1>2, Ends DEF Beginning
<1>4. ASSUME NEW k \in 1 .. Len(s) PROVE s[k].n \in 1 .. n
  <2>1. CASE k = Len(posts) + 1
        BY <1>1, <1>2, <2>1
  <2>2. CASE k # Len(posts) + 1
    <3>1. k \in 1 .. Len(posts)
          BY <1>2, <2>2
    <3>. QED BY <1>2, <3>1 DEF Beginning, Chain
  <2>. QED BY <2>1, <2>2
<1>5. ASSUME NEW k \in 1 .. Len(s) - 1 PROVE Follows(s[k], s[k + 1])
  <2>1. CASE k = Len(posts)
        BY <1>1, <1>2, <2>1 DEF Beginning, Last, Follows
  <2>2. CASE k # Len(posts)
    <3>1. k \in 1 .. Len(posts) - 1 /\ k \in 1 .. Len(posts) /\ k + 1 \in 1 .. Len(posts)
          BY <1>2, <2>2
    <3>. QED BY <1>2, <3>1 DEF Beginning, Chain
  <2>. QED BY <2>1, <2>2
<1>. QED BY <1>1, <1>2, <1>3, <1>4, <1>5 DEF Left, Chain, Last

\* ... and the next attempt behind what is left.
LEMMA AttemptQueued ==
  ASSUME NEW posts \in Seq(PostType), NEW n \in Nat, Left(posts, n),
         posts # <<>> => n # 0
  PROVE  LET s == posts \o BeginPosts(n + 1) IN
           /\ s \in Seq(PostType) /\ Beginning(s, n + 1)
           /\ posts # <<>> => Head(s) = Head(posts)
           /\ posts = <<>> => Head(s) = Post("reserve", n + 1)
<1>. DEFINE r == Post("reserve", n + 1)
            d == Post("dispatched", n + 1)
            s == posts \o <<r, d>>
            m == Len(posts)
<1>1. /\ r \in PostType /\ r.kind = "reserve" /\ r.n = n + 1
      /\ d \in PostType /\ d.kind = "dispatched" /\ d.n = n + 1
      BY DEF Post, PostType, PostKinds
<1>2. /\ <<r, d>> \in Seq(PostType) /\ Len(<<r, d>>) = 2 /\ <<r, d>>[1] = r /\ <<r, d>>[2] = d
      /\ m \in Nat
      BY <1>1
<1>3. s \in Seq(PostType) /\ Len(s) = m + 2
      BY <1>2
<1>4. \A k \in 1 .. m : s[k] = posts[k]
      BY <1>2
<1>5. s[m + 1] = r /\ s[m + 2] = d
      BY <1>2
<1>6. s # <<>> /\ Head(s) = s[1]
      BY <1>2, <1>3, Ends
<1>7. posts # <<>> => Head(s) = Head(posts)
      BY <1>2, <1>4, <1>6, Ends
<1>8. posts = <<>> => Head(s) = r
      BY <1>5, <1>6
<1>9. Chain(s, n + 1)
  <2>0. posts # <<>> => m # 0
        BY Ends
  <2>1. ASSUME NEW k \in 1 .. Len(s) PROVE s[k].n \in 1 .. n + 1
    <3>1. CASE k \in 1 .. m
      <4>1. posts # <<>>
            BY <3>1
      <4>. QED BY <1>4, <3>1, <4>1 DEF Left, Chain
    <3>2. CASE k \in {m + 1, m + 2}
          BY <1>1, <1>5, <3>2
    <3>. QED BY <1>2, <1>3, <3>1, <3>2
  <2>2. ASSUME NEW k \in 1 .. Len(s) - 1 PROVE Follows(s[k], s[k + 1])
    <3>1. CASE k \in 1 .. m - 1
      <4>1. posts # <<>> /\ k \in 1 .. m /\ k + 1 \in 1 .. m
            BY <1>2, <3>1
      <4>. QED BY <1>4, <3>1, <4>1 DEF Left, Chain
    <3>2. CASE k = m
      <4>1. posts # <<>> /\ m \in 1 .. m
            BY <1>2, <3>2
      <4>. QED BY <1>1, <1>4, <1>5, <3>2, <4>1 DEF Left, Last, Follows
    <3>3. CASE k = m + 1
      <4>1. s[k + 1] = d
            BY <1>2, <1>5, <3>3
      <4>. QED BY <1>1, <1>5, <3>3, <4>1 DEF Follows
    <3>. QED BY <1>2, <1>3, <3>1, <3>2, <3>3
  <2>. QED BY <2>1, <2>2 DEF Chain
<1>. QED BY <1>1, <1>3, <1>5, <1>6, <1>7, <1>8, <1>9 DEF Beginning, Last, BeginPosts

(***************************************************************************)
(* An invocation                                                           *)
(***************************************************************************)

ErrorType == [retry : BOOLEAN, kind : Kinds]

LEMMA ErrorTypes ==
  /\ NoError \in ErrorType
  /\ \A e \in LostErrors \cup ProviderErrors : e \in ErrorType
  /\ StatusError("unknown") \in ErrorType /\ StatusError("refused") \in ErrorType
  BY DEF NoError, LostErrors, ProviderErrors, StatusError, Error, ErrorType, Kinds

Working(i) == i.pc \notin {"idle", "lookup"}

\* What is known of the numbers and of the queue of an invocation.
Shaped(i) ==
  /\ Working(i) => i.n # 0 /\ i.tries # 0 /\ i.model # 0
  /\ i.pc = "begin" => Beginning(i.posts, i.n)
  /\ i.pc \in {"settle", "fail"} => Charged(i.posts, i.n)

Same(i, j) == j.op = i.op /\ j.fence = i.fence /\ j.ahead = i.ahead

\* An invocation whose fields are set to values of their types: at a failure,
LEMMA OutcomeSet ==
  ASSUME NEW i \in InvocationType, NEW pc \in Places, NEW posts \in Seq(PostType), NEW e \in ErrorType
  PROVE  [i EXCEPT !.pc = pc, !.posts = posts, !.err = e, !.call = 0] \in InvocationType
<1>. DEFINE P == Seq(PostType)
            E == ErrorType
            T == 0 .. TransportAttempts
            M == 0 .. Models
            F == 0 .. MaxFence
            O == Ops \cup {NoOp}
<1>1. InvocationType =
        [pc : Places, op : O, fence : F, ahead : SUBSET Handlers, n : Nat, posts : P,
         tries : T, model : M, err : E, call : Nat]
      BY DEF InvocationType, ErrorType
<1>2. posts \in P /\ e \in E
      OBVIOUS
<1>. HIDE DEF P, E, T, M, F, O
<1>. QED BY <1>1, <1>2

\* with another queue,
LEMMA QueueSet ==
  ASSUME NEW i \in InvocationType, NEW pc \in Places, NEW posts \in Seq(PostType)
  PROVE  [i EXCEPT !.pc = pc, !.posts = posts] \in InvocationType
<1>. DEFINE P == Seq(PostType)
            E == ErrorType
            T == 0 .. TransportAttempts
            M == 0 .. Models
            F == 0 .. MaxFence
            O == Ops \cup {NoOp}
<1>1. InvocationType =
        [pc : Places, op : O, fence : F, ahead : SUBSET Handlers, n : Nat, posts : P,
         tries : T, model : M, err : E, call : Nat]
      BY DEF InvocationType, ErrorType
<1>2. posts \in P
      OBVIOUS
<1>. HIDE DEF P, E, T, M, F, O
<1>. QED BY <1>1, <1>2

\* when the provider is called,
LEMMA CallSet ==
  ASSUME NEW i \in InvocationType, NEW pc \in Places, NEW posts \in Seq(PostType), NEW call \in Nat
  PROVE  [i EXCEPT !.pc = pc, !.posts = posts, !.call = call] \in InvocationType
<1>. DEFINE P == Seq(PostType)
            E == ErrorType
            T == 0 .. TransportAttempts
            M == 0 .. Models
            F == 0 .. MaxFence
            O == Ops \cup {NoOp}
<1>1. InvocationType =
        [pc : Places, op : O, fence : F, ahead : SUBSET Handlers, n : Nat, posts : P,
         tries : T, model : M, err : E, call : Nat]
      BY DEF InvocationType, ErrorType
<1>2. posts \in P
      OBVIOUS
<1>. HIDE DEF P, E, T, M, F, O
<1>. QED BY <1>1, <1>2

\* and when its answer is lost.
LEMMA ErrorSet ==
  ASSUME NEW i \in InvocationType, NEW pc \in Places, NEW e \in ErrorType
  PROVE  [i EXCEPT !.pc = pc, !.err = e, !.call = 0] \in InvocationType
<1>. DEFINE P == Seq(PostType)
            E == ErrorType
            T == 0 .. TransportAttempts
            M == 0 .. Models
            F == 0 .. MaxFence
            O == Ops \cup {NoOp}
<1>1. InvocationType =
        [pc : Places, op : O, fence : F, ahead : SUBSET Handlers, n : Nat, posts : P,
         tries : T, model : M, err : E, call : Nat]
      BY DEF InvocationType, ErrorType
<1>2. e \in E
      OBVIOUS
<1>. HIDE DEF P, E, T, M, F, O
<1>. QED BY <1>1, <1>2

\* The next attempt is queued, ...
LEMMA BegunShape ==
  ASSUME NEW i \in InvocationType, NEW posts \in Seq(PostType),
         NEW tries \in 1 .. TransportAttempts, NEW model \in 1 .. Models,
         Left(posts, i.n), posts # <<>> => i.n # 0
  PROVE  LET j == Begun(i, posts, tries, model) IN
           /\ j \in InvocationType /\ Shaped(j) /\ Same(i, j)
           /\ j.pc = "begin" /\ j.n = i.n + 1
           /\ posts # <<>> => Head(j.posts) = Head(posts)
           /\ posts = <<>> => Head(j.posts) = Post("reserve", i.n + 1)
<1>. DEFINE s == posts \o BeginPosts(i.n + 1)
            j == Begun(i, posts, tries, model)
<1>1. i.n \in Nat
      BY DEF InvocationType
<1>2. /\ s \in Seq(PostType) /\ Beginning(s, i.n + 1)
      /\ posts # <<>> => Head(s) = Head(posts)
      /\ posts = <<>> => Head(s) = Post("reserve", i.n + 1)
      BY <1>1, AttemptQueued
<1>3. j = [i EXCEPT !.pc = "begin", !.n = i.n + 1, !.posts = s, !.tries = tries,
                    !.model = model, !.err = NoError, !.call = 0]
      BY DEF Begun
<1>4. /\ j.pc = "begin" /\ j.n = i.n + 1 /\ j.posts = s /\ j.tries = tries
      /\ j.model = model /\ j.op = i.op /\ j.fence = i.fence /\ j.ahead = i.ahead
      BY <1>3 DEF InvocationType
<1>5. j \in InvocationType
  <2>. DEFINE P == Seq(PostType)
              E == ErrorType
              T == 0 .. TransportAttempts
              M == 0 .. Models
              F == 0 .. MaxFence
              O == Ops \cup {NoOp}
              m == i.n + 1
              e == NoError
  <2>1. InvocationType =
          [pc : Places, op : O, fence : F, ahead : SUBSET Handlers, n : Nat, posts : P,
           tries : T, model : M, err : E, call : Nat]
        BY DEF InvocationType, ErrorType
  <2>2. "begin" \in Places /\ m \in Nat /\ s \in P /\ tries \in T /\ model \in M /\ e \in E
        BY <1>1, <1>2, ModelGatewayAssumption, ErrorTypes DEF Places
  <2>3. j = [i EXCEPT !.pc = "begin", !.n = m, !.posts = s, !.tries = tries,
                      !.model = model, !.err = e, !.call = 0]
        BY <1>3
  <2>. HIDE DEF P, E, T, M, F, O, m, e, s, j
  <2>. QED BY <2>1, <2>2, <2>3
<1>6. Shaped(j)
      BY <1>1, <1>2, <1>4 DEF Shaped, Working
<1>. QED BY <1>2, <1>4, <1>5, <1>6 DEF Same

\* ... or the invocation is over.
LEMMA DecidedShape ==
  ASSUME NEW i \in InvocationType, Shaped(i), Working(i),
         NEW posts \in Seq(PostType), Left(posts, i.n), NEW e \in ErrorType
  PROVE  LET j == Decided(i, posts, e) IN
           /\ j \in InvocationType /\ Shaped(j) /\ Same(i, j)
           /\ j.pc \in {"begin", "end"}
           /\ j.pc = "begin" =>
                /\ j.n = i.n + 1
                /\ posts # <<>> => Head(j.posts) = Head(posts)
                /\ posts = <<>> => Head(j.posts) = Post("reserve", i.n + 1)
<1>. DEFINE j == Decided(i, posts, e)
            over == [i EXCEPT !.pc = "end", !.posts = <<>>, !.err = e, !.call = 0]
<1>1. i.n # 0 /\ i.tries \in 1 .. TransportAttempts /\ i.model \in 1 .. Models
      BY DEF Shaped, InvocationType
<1>2. CASE e.retry /\ i.tries < TransportAttempts
  <2>1. j = Begun(i, posts, i.tries + 1, i.model)
        BY <1>2 DEF Decided
  <2>2. i.tries + 1 \in 1 .. TransportAttempts
        BY <1>1, <1>2, ModelGatewayAssumption
  <2>. QED BY <1>1, <2>1, <2>2, BegunShape
<1>3. CASE ~(e.retry /\ i.tries < TransportAttempts) /\ e.kind = "busy" /\ i.model < Models
  <2>1. j = Begun(i, posts, 1, i.model + 1)
        BY <1>3 DEF Decided
  <2>2. i.model + 1 \in 1 .. Models /\ 1 \in 1 .. TransportAttempts
        BY <1>1, <1>3, ModelGatewayAssumption
  <2>. QED BY <1>1, <2>1, <2>2, BegunShape
<1>4. CASE ~(e.retry /\ i.tries < TransportAttempts) /\ ~(e.kind = "busy" /\ i.model < Models)
  <2>1. j = over
        BY <1>4 DEF Decided
  <2>2. /\ over.pc = "end" /\ over.n = i.n /\ over.tries = i.tries
        /\ over.model = i.model /\ Same(i, over)
        BY DEF InvocationType, Same
  <2>3. over \in InvocationType
    <3>1. "end" \in Places /\ <<>> \in Seq(PostType) /\ 0 \in Nat
          BY DEF Places
    <3>. QED BY <3>1, OutcomeSet
  <2>. QED BY <1>1, <2>1, <2>2, <2>3 DEF Shaped, Working
<1>. QED BY <1>2, <1>3, <1>4

\* An exception raised by flush_pending leaves the queue as it is, up to the
\* mark of its first post; another attempt is begun, or the failure of the
\* answered one is charged, or the invocation is over.
LEMMA RaisedShape ==
  ASSUME NEW i \in InvocationType, Shaped(i), i.pc \in {"begin", "settle", "fail"},
         NEW posts \in Seq(PostType), posts \in {i.posts, Marked(i.posts)},
         NEW e \in ErrorType, NEW j \in Raised(i, posts, e)
  PROVE  /\ j \in InvocationType /\ Shaped(j) /\ Same(i, j) /\ posts # <<>>
         /\ j.pc \in {"begin", "fail", "end"}
         /\ j.pc = "begin" => j.n = i.n + 1 /\ i.pc # "settle"
         /\ j.pc = "fail" => j.n = i.n /\ i.pc = "settle"
         /\ j.pc # "end" => Head(j.posts) = Head(posts)
<1>1. i.n \in Nat \ {0} /\ Working(i) /\ i.posts \in Seq(PostType)
      BY DEF Shaped, Working, InvocationType
<1>2. CASE i.pc = "begin"
  <2>1. Beginning(i.posts, i.n)
        BY <1>2 DEF Shaped
  <2>2. posts # <<>> /\ Beginning(posts, i.n)
        BY <1>1, <2>1, MarkedQueue DEF Beginning
  <2>. DEFINE s == Append(posts, Post("charge", i.n))
  <2>3. s \in Seq(PostType) /\ s # <<>> /\ Left(s, i.n) /\ Head(s) = Head(posts)
        BY <1>1, <2>2, FailureQueued
  <2>4. j = Decided(i, s, e)
        BY <1>2 DEF Raised
  <2>. QED BY <1>1, <1>2, <2>2, <2>3, <2>4, DecidedShape
<1>3. CASE i.pc \in {"settle", "fail"}
  <2>1. Charged(i.posts, i.n)
        BY <1>3 DEF Shaped
  <2>2. Charged(posts, i.n) /\ posts # <<>>
        BY <1>1, <2>1, ChargedIsLeft, MarkedQueue
  <2>3. CASE i.pc = "settle"
    <3>1. j = [i EXCEPT !.pc = "fail", !.posts = posts, !.err = e, !.call = 0]
          BY <2>3 DEF Raised
    <3>2. /\ j.pc = "fail" /\ j.posts = posts /\ j.n = i.n /\ j.tries = i.tries
          /\ j.model = i.model /\ Same(i, j)
          BY <3>1 DEF InvocationType, Same
    <3>3. j \in InvocationType
      <4>1. "fail" \in Places /\ 0 \in Nat
            BY DEF Places
      <4>. QED BY <1>1, <3>1, <4>1, OutcomeSet
    <3>. QED BY <1>1, <2>2, <2>3, <3>2, <3>3 DEF Shaped, Working
  <2>4. CASE i.pc = "fail"
    <3>1. PICK retry \in {e.retry, e.retry \/ i.err.retry} : j = Decided(i, posts, Error(retry, e.kind))
          BY <2>4 DEF Raised
    <3>2. Error(retry, e.kind) \in ErrorType
      <4>1. i.err \in ErrorType
            BY DEF InvocationType, ErrorType
      <4>2. e.retry \in BOOLEAN /\ i.err.retry \in BOOLEAN /\ e.kind \in Kinds
            BY <4>1 DEF ErrorType
      <4>3. retry \in BOOLEAN
            BY <4>2
      <4>. QED BY <4>2, <4>3 DEF Error, ErrorType
    <3>3. Left(posts, i.n)
          BY <1>1, <2>2, ChargedIsLeft
    <3>. QED BY <1>1, <2>2, <2>4, <3>1, <3>2, <3>3, DecidedShape
  <2>. QED BY <1>3, <2>3, <2>4
<1>. QED BY <1>2, <1>3

(***************************************************************************)
(* Types                                                                   *)
(***************************************************************************)

InvocationTypes ==
  /\ inv \in [Handlers -> InvocationType]
  /\ \A h \in Handlers :
       /\ inv[h].fence <= fence
       /\ inv[h].ahead \subseteq Busy \ {h}
       /\ inv[h].pc # "idle" => inv[h].op \in Ops
       /\ Shaped(inv[h])
  /\ listed \subseteq Busy

Books ==
  /\ journal \in [Ops -> RecordType]
  /\ \A op \in Ops : IsFiniteSet(journal[op].attempts)
  /\ DOMAIN ledger \subseteq Ops \X Nat
  /\ IsFiniteSet(DOMAIN ledger)
  /\ \A k \in DOMAIN ledger : ledger[k] \in {"reserved", "settled", "released"}

ApiTypes == Books /\ calls \in [Ops -> Seq(Nat)]

EpochTypes ==
  fence \in 1 .. MaxFence /\ active \in BOOLEAN /\ reg \in 0 .. fence /\ faults \in 0 .. MaxFaults

TypeInv == InvocationTypes /\ ApiTypes /\ EpochTypes

LEMMA ShapedFlushes ==
  ASSUME NEW i \in InvocationType, Shaped(i), i.pc \in {"begin", "settle", "fail"}
  PROVE  i.posts # <<>> /\ i.posts \in Seq(PostType) /\ i.n \in Nat \ {0}
<1>1. i.n \in Nat \ {0} /\ i.posts \in Seq(PostType)
      BY DEF Shaped, Working, InvocationType
<1>2. CASE i.pc = "begin"
      BY <1>1, <1>2 DEF Shaped, Beginning
<1>3. CASE i.pc \in {"settle", "fail"}
      BY <1>1, <1>3, ChargedIsLeft DEF Shaped
<1>. QED BY <1>1, <1>2, <1>3

LEMMA TypeInvImpliesTypeOK == TypeInv => TypeOK
<1>. SUFFICES ASSUME TypeInv PROVE TypeOK
     OBVIOUS
<1>1. \A h \in Handlers : Flushing(h) => inv[h].posts # <<>>
      BY ShapedFlushes DEF TypeInv, InvocationTypes, Flushing
<1>. QED BY <1>1 DEF TypeInv, InvocationTypes, ApiTypes, Books, EpochTypes, TypeOK

\* An invocation goes on, ...
Moved(h, j) ==
  /\ Become(h, j) /\ listed' = listed
  /\ j \in InvocationType /\ Shaped(j) /\ Same(inv[h], j) /\ Working(j)

LEMMA MovedTypes ==
  ASSUME InvocationTypes, NEW h \in Handlers, inv[h].pc # "idle", NEW j, Moved(h, j),
         fence' = fence
  PROVE  InvocationTypes'
<1>1. /\ inv' \in [Handlers -> InvocationType] /\ inv'[h] = j
      /\ \A g \in Handlers \ {h} : inv'[g] = inv[g]
      BY DEF InvocationTypes, Moved, Become
<1>2. j.pc # "idle"
      BY DEF Moved, Working
<1>3. Busy' = Busy
      BY <1>1, <1>2 DEF Busy
<1>4. ASSUME NEW g \in Handlers
      PROVE  /\ inv'[g].fence <= fence /\ inv'[g].ahead \subseteq Busy \ {g}
             /\ inv'[g].pc # "idle" => inv'[g].op \in Ops
             /\ Shaped(inv'[g])
  <2>1. CASE g = h
        BY <1>1, <2>1 DEF InvocationTypes, Moved, Same
  <2>2. CASE g # h
        BY <1>1, <2>2 DEF InvocationTypes
  <2>. QED BY <2>1, <2>2
<1>. QED BY <1>1, <1>3, <1>4 DEF InvocationTypes, Moved

\* ... or some end.
LEMMA IdleShape == Idle \in InvocationType /\ Shaped(Idle) /\ Idle.pc = "idle"
<1>1. NoError \in [retry : BOOLEAN, kind : Kinds]
      BY ErrorTypes DEF ErrorType
<1>2. /\ 0 \in 0 .. MaxFence /\ 0 \in 0 .. TransportAttempts /\ 0 \in 0 .. Models
      /\ <<>> \in Seq(PostType) /\ "idle" \in Places
      BY ModelGatewayAssumption DEF Places
<1>. QED BY <1>1, <1>2 DEF Idle, InvocationType, Shaped, Working

LEMMA AheadSet ==
  ASSUME NEW i \in InvocationType, NEW A \in SUBSET Handlers
  PROVE  LET j == [i EXCEPT !.ahead = A] IN
           /\ j \in InvocationType /\ j.ahead = A /\ (Shaped(i) => Shaped(j))
           /\ j.pc = i.pc /\ j.op = i.op /\ j.fence = i.fence /\ j.n = i.n
           /\ j.posts = i.posts /\ j.tries = i.tries /\ j.model = i.model
           /\ j.err = i.err /\ j.call = i.call
<1>. DEFINE P == Seq(PostType)
            E == [retry : BOOLEAN, kind : Kinds]
            T == 0 .. TransportAttempts
            M == 0 .. Models
            F == 0 .. MaxFence
            O == Ops \cup {NoOp}
            j == [i EXCEPT !.ahead = A]
<1>1. InvocationType =
        [pc : Places, op : O, fence : F, ahead : SUBSET Handlers, n : Nat, posts : P,
         tries : T, model : M, err : E, call : Nat]
      BY DEF InvocationType
<1>. HIDE DEF P, E, T, M, F, O
<1>2. /\ j \in InvocationType /\ j.ahead = A
      /\ j.pc = i.pc /\ j.op = i.op /\ j.fence = i.fence /\ j.n = i.n
      /\ j.posts = i.posts /\ j.tries = i.tries /\ j.model = i.model
      /\ j.err = i.err /\ j.call = i.call
      BY <1>1
<1>. QED BY <1>2 DEF Shaped, Working

\* Who stays keeps everything but the ones ahead of it.
Stays(g, S) == inv'[g] = [inv[g] EXCEPT !.ahead = inv[g].ahead \ S]

LEMMA LeaveEffect ==
  ASSUME InvocationTypes, NEW S \in SUBSET Handlers, Leave(S)
  PROVE  /\ \A g \in S : inv'[g] = Idle
         /\ \A g \in Handlers \ S :
              /\ inv'[g].pc = inv[g].pc /\ inv'[g].op = inv[g].op
              /\ inv'[g].fence = inv[g].fence /\ inv'[g].n = inv[g].n
              /\ inv'[g].posts = inv[g].posts /\ inv'[g].call = inv[g].call
              /\ inv'[g].ahead = inv[g].ahead \ S
              /\ inv'[g] \in InvocationType /\ Shaped(inv'[g])
         /\ inv' \in [Handlers -> InvocationType] /\ Busy' = Busy \ S /\ listed' = listed \ S
<1>1. inv' = [g \in Handlers |-> IF g \in S THEN Idle ELSE [inv[g] EXCEPT !.ahead = inv[g].ahead \ S]]
      BY DEF Leave, Without
<1>2. \A g \in S : inv'[g] = Idle
      BY <1>1
<1>3. ASSUME NEW g \in Handlers \ S
      PROVE  /\ inv'[g].pc = inv[g].pc /\ inv'[g].op = inv[g].op
             /\ inv'[g].fence = inv[g].fence /\ inv'[g].n = inv[g].n
             /\ inv'[g].posts = inv[g].posts /\ inv'[g].call = inv[g].call
             /\ inv'[g].ahead = inv[g].ahead \ S
             /\ inv'[g] \in InvocationType /\ Shaped(inv'[g])
  <2>1. inv'[g] = [inv[g] EXCEPT !.ahead = inv[g].ahead \ S]
        BY <1>1, <1>3
  <2>2. inv[g] \in InvocationType /\ inv[g].ahead \ S \in SUBSET Handlers /\ Shaped(inv[g])
        BY <1>3 DEF InvocationTypes, Busy
  <2>. QED BY <2>1, <2>2, AheadSet
<1>4. inv' \in [Handlers -> InvocationType]
      BY <1>1, <1>2, <1>3, IdleShape
<1>5. Busy' = Busy \ S
      BY <1>2, <1>3, IdleShape DEF Busy
<1>. QED BY <1>2, <1>3, <1>4, <1>5 DEF Leave

LEMMA LeaveTypes ==
  ASSUME InvocationTypes, NEW S \in SUBSET Handlers, Leave(S), fence' = fence, fence \in Nat
  PROVE  InvocationTypes'
<1>1. ASSUME NEW g \in Handlers
      PROVE  /\ inv'[g].fence <= fence /\ inv'[g].ahead \subseteq Busy' \ {g}
             /\ inv'[g].pc # "idle" => inv'[g].op \in Ops
             /\ Shaped(inv'[g])
  <2>1. CASE g \in S
        BY <2>1, LeaveEffect, IdleShape DEF Idle
  <2>2. CASE g \notin S
        BY <2>2, LeaveEffect DEF InvocationTypes
  <2>. QED BY <2>1, <2>2
<1>2. listed' \subseteq Busy'
      BY LeaveEffect DEF InvocationTypes
<1>. QED BY <1>1, <1>2, LeaveEffect DEF InvocationTypes

\* The first attempt of an invocation is the next one of its operation.
LEMMA LookupMoves ==
  ASSUME TypeInv, NEW h \in Handlers, LookupStarts(h)
  PROVE  LET n == Cardinality(journal[inv[h].op].attempts) + 1 IN
         \E j : /\ Moved(h, j) /\ j.pc = "begin" /\ j.n = n
                /\ Head(j.posts) = Post("reserve", n)
<1>. DEFINE m == Cardinality(journal[inv[h].op].attempts)
            i == [inv[h] EXCEPT !.n = m]
            j == Begun(i, <<>>, 1, 1)
<1>1. inv[h] \in InvocationType /\ inv[h].pc = "lookup" /\ inv[h].op \in Ops
      BY DEF TypeInv, InvocationTypes, LookupStarts, Looking
<1>2. m \in Nat
      BY <1>1, FS_CardinalityType DEF TypeInv, ApiTypes, Books
<1>3. i \in InvocationType /\ Same(inv[h], i) /\ i.n = m
  <2>. DEFINE P == Seq(PostType)
              E == [retry : BOOLEAN, kind : Kinds]
              T == 0 .. TransportAttempts
              M == 0 .. Models
              F == 0 .. MaxFence
              O == Ops \cup {NoOp}
  <2>1. InvocationType =
          [pc : Places, op : O, fence : F, ahead : SUBSET Handlers, n : Nat, posts : P,
           tries : T, model : M, err : E, call : Nat]
        BY DEF InvocationType
  <2>. HIDE DEF P, E, T, M, F, O, m
  <2>. QED BY <1>1, <1>2, <2>1 DEF Same
<1>4. 1 \in 1 .. TransportAttempts /\ 1 \in 1 .. Models /\ <<>> \in Seq(PostType) /\ Left(<<>>, i.n)
      BY ModelGatewayAssumption DEF Left
<1>. HIDE DEF i, m
<1>5. /\ j \in InvocationType /\ Shaped(j) /\ Same(i, j)
      /\ j.pc = "begin" /\ j.n = i.n + 1
      /\ Head(j.posts) = Post("reserve", i.n + 1)
      BY <1>3, <1>4, BegunShape
<1>6. Become(h, j) /\ listed' = listed
      BY DEF LookupStarts, i, m
<1>7. Moved(h, j)
      BY <1>3, <1>5, <1>6 DEF Moved, Same, Working
<1>. QED BY <1>3, <1>5, <1>7 DEF m

\* A post that raises an exception.
LEMMA RaiseMoves ==
  ASSUME TypeInv, NEW h \in Handlers, Flushing(h),
         NEW posts \in {inv[h].posts, Burnt(h)}, NEW e \in ErrorType, PostRaises(h, posts, e)
  PROVE  \E j : /\ Moved(h, j) /\ j \in Raised(inv[h], posts, e)
                /\ j.pc \in {"begin", "fail", "end"}
                /\ j.pc = "begin" => j.n = inv[h].n + 1 /\ inv[h].pc # "settle"
                /\ j.pc = "fail" => j.n = inv[h].n /\ inv[h].pc = "settle"
                /\ j.pc # "end" => Head(j.posts) = Head(posts)
<1>1. inv[h] \in InvocationType /\ Shaped(inv[h])
      BY DEF TypeInv, InvocationTypes
<1>2. inv[h].pc \in {"begin", "settle", "fail"}
      BY DEF Flushing
<1>3. inv[h].posts # <<>> /\ inv[h].posts \in Seq(PostType)
      BY <1>1, <1>2, ShapedFlushes
<1>4. Burnt(h) = Marked(inv[h].posts)
      BY DEF Burnt, Marked, First, Rest
<1>5. posts \in Seq(PostType) /\ posts \in {inv[h].posts, Marked(inv[h].posts)}
      BY <1>3, <1>4, MarkedQueue
<1>6. PICK j \in Raised(inv[h], posts, e) : Become(h, j)
      BY DEF PostRaises
<1>7. /\ j \in InvocationType /\ Shaped(j) /\ Same(inv[h], j) /\ posts # <<>>
      /\ j.pc \in {"begin", "fail", "end"}
      /\ j.pc = "begin" => j.n = inv[h].n + 1 /\ inv[h].pc # "settle"
      /\ j.pc = "fail" => j.n = inv[h].n /\ inv[h].pc = "settle"
      /\ j.pc # "end" => Head(j.posts) = Head(posts)
      BY <1>1, <1>2, <1>5, RaisedShape
<1>8. Moved(h, j)
      BY <1>6, <1>7 DEF Moved, Working, PostRaises
<1>. QED BY <1>6, <1>7, <1>8

\* The exceptions of posts: what the API has done shows in the mark.
Raises(h) ==
  \E posts \in {inv[h].posts, Burnt(h)}, e \in ErrorType :
    PostRaises(h, posts, e) /\ (posts = Burnt(h) \/ journal' = journal)

LEMMA PostsRaise ==
  ASSUME NEW h \in Handlers,
         \/ PostAnswerLost(h) \/ PostLost(h) \/ PostRefused(h) \/ PostTooOld(h)
         \/ ReserveHalfDone(h) \/ OtherLimitRefuses(h)
  PROVE  Flushing(h) /\ Raises(h)
<1>1. Flushing(h)
      BY DEF PostAnswerLost, PostLost, PostRefused, PostTooOld, ReserveHalfDone, OtherLimitRefuses
<1>2. CASE PostAnswerLost(h)
      BY <1>2, ErrorTypes DEF PostAnswerLost, Raises
<1>3. CASE PostLost(h)
      BY <1>3, ErrorTypes DEF PostLost, Raises
<1>4. CASE PostRefused(h)
      BY <1>4, ErrorTypes DEF PostRefused, Raises
<1>5. CASE PostTooOld(h)
      BY <1>5, ErrorTypes DEF PostTooOld, Raises
<1>6. CASE ReserveHalfDone(h)
      BY <1>6, ErrorTypes DEF ReserveHalfDone, Raises
<1>7. CASE OtherLimitRefuses(h)
      BY <1>7, ErrorTypes DEF OtherLimitRefuses, Raises
<1>. QED BY <1>1, <1>2, <1>3, <1>4, <1>5, <1>6, <1>7

\* A post that is answered: the next one, the call of the provider, the
\* transition to completed, or what an error leads to.
LEMMA AnswerMoves ==
  ASSUME TypeInv, NEW h \in Handlers, PostAnswered(h)
  PROVE  \E j :
           /\ Moved(h, j)
           /\ \/ /\ Rest(h) # <<>> /\ calls' = calls /\ j.pc = inv[h].pc /\ j.n = inv[h].n
                 /\ inv[h].pc = "begin" /\ j.posts = Rest(h)
                 /\ Follows(First(h), Head(j.posts))
              \/ /\ Rest(h) = <<>> /\ inv[h].pc = "begin" /\ j.pc = "call" /\ j.n = inv[h].n
                 /\ First(h).kind = "dispatched" /\ First(h).n = inv[h].n
                 /\ calls' = [calls EXCEPT ![inv[h].op] = Append(@, inv[h].n)]
              \/ /\ Rest(h) = <<>> /\ inv[h].pc = "settle" /\ j.pc = "complete"
                 /\ calls' = calls
              \/ /\ Rest(h) = <<>> /\ inv[h].pc = "fail" /\ j.pc \in {"begin", "end"}
                 /\ calls' = calls /\ First(h).n = inv[h].n
                 /\ j.pc = "begin" => /\ j.n = inv[h].n + 1
                                      /\ Head(j.posts) = Post("reserve", j.n)
<1>. DEFINE i == inv[h]
<1>1. i \in InvocationType /\ Shaped(i) /\ i.pc \in {"begin", "settle", "fail"} /\ i.op \in Ops
      BY DEF TypeInv, InvocationTypes, PostAnswered, Flushing
<1>2. /\ i.posts # <<>> /\ i.posts \in Seq(PostType) /\ i.n \in Nat \ {0}
      /\ First(h) = Head(i.posts) /\ Rest(h) = Tail(i.posts)
      BY <1>1, ShapedFlushes DEF First, Rest
<1>3. First(h) = i.posts[1] /\ (Len(i.posts) = 1 <=> Rest(h) = <<>>) /\ Rest(h) \in Seq(PostType)
      BY <1>2, Ends
<1>4. CASE Rest(h) # <<>>
  <2>. DEFINE j == [i EXCEPT !.posts = Rest(h)]
  <2>1. i.pc = "begin" /\ Beginning(i.posts, i.n)
        BY <1>1, <1>3, <1>4 DEF Shaped, Charged
  <2>2. Beginning(Rest(h), i.n) /\ Follows(First(h), Head(Rest(h)))
        BY <1>2, <1>4, <2>1, TailBegins
  <2>3. Become(h, j) /\ calls' = calls
        BY <1>4 DEF PostAnswered
  <2>4. j = [i EXCEPT !.pc = "begin", !.posts = Rest(h)]
        BY <1>1, <2>1 DEF InvocationType
  <2>5. j \in InvocationType
    <3>1. "begin" \in Places
          BY DEF Places
    <3>. QED BY <1>1, <1>3, <2>4, <3>1, QueueSet
  <2>6. /\ j.pc = "begin" /\ j.posts = Rest(h) /\ j.n = i.n /\ Same(i, j)
        /\ j.tries = i.tries /\ j.model = i.model
        BY <1>1, <2>1 DEF InvocationType, Same
  <2>. HIDE DEF j
  <2>7. Moved(h, j)
        BY <1>1, <2>1, <2>2, <2>3, <2>5, <2>6 DEF Moved, Shaped, Working, PostAnswered
  <2>. QED BY <1>4, <2>1, <2>2, <2>3, <2>6, <2>7
<1>5. CASE Rest(h) = <<>> /\ i.pc = "begin"
  <2>. DEFINE c == Len(calls[i.op]) + 1
              j == [i EXCEPT !.pc = "call", !.posts = <<>>, !.call = c]
  <2>1. Beginning(i.posts, i.n) /\ Len(i.posts) = 1
        BY <1>1, <1>3, <1>5 DEF Shaped
  <2>2. First(h).kind = "dispatched" /\ First(h).n = i.n
        BY <1>3, <2>1 DEF Beginning, Last
  <2>3. c \in Nat
        BY <1>1 DEF TypeInv, ApiTypes, Books
  <2>4. Become(h, j) /\ calls' = [calls EXCEPT ![inv[h].op] = Append(@, inv[h].n)]
        BY <1>5 DEF PostAnswered
  <2>5. j \in InvocationType
    <3>1. "call" \in Places /\ <<>> \in Seq(PostType)
          BY DEF Places
    <3>. QED BY <1>1, <2>3, <3>1, CallSet
  <2>6. j.pc = "call" /\ j.n = i.n /\ Same(i, j) /\ j.tries = i.tries /\ j.model = i.model
        BY <1>1 DEF InvocationType, Same
  <2>. HIDE DEF j
  <2>7. Moved(h, j)
        BY <1>1, <1>5, <2>4, <2>5, <2>6 DEF Moved, Shaped, Working, PostAnswered
  <2>. QED BY <1>5, <2>2, <2>4, <2>6, <2>7
<1>6. CASE Rest(h) = <<>> /\ i.pc = "settle"
  <2>. DEFINE j == [i EXCEPT !.pc = "complete", !.posts = <<>>]
  <2>1. Become(h, j) /\ calls' = calls
        BY <1>6 DEF PostAnswered
  <2>2. j \in InvocationType
    <3>1. "complete" \in Places /\ <<>> \in Seq(PostType)
          BY DEF Places
    <3>. QED BY <1>1, <3>1, QueueSet
  <2>3. j.pc = "complete" /\ j.n = i.n /\ Same(i, j) /\ j.tries = i.tries /\ j.model = i.model
        BY <1>1 DEF InvocationType, Same
  <2>. HIDE DEF j
  <2>4. Moved(h, j)
        BY <1>1, <1>6, <2>1, <2>2, <2>3 DEF Moved, Shaped, Working, PostAnswered
  <2>. QED BY <1>6, <2>1, <2>3, <2>4
<1>7. CASE Rest(h) = <<>> /\ i.pc = "fail"
  <2>. DEFINE j == Decided(i, <<>>, i.err)
  <2>1. Become(h, j) /\ calls' = calls
        BY <1>7 DEF PostAnswered
  <2>2. i.err \in ErrorType /\ Working(i) /\ <<>> \in Seq(PostType) /\ Left(<<>>, i.n)
        BY <1>1, <1>7 DEF InvocationType, ErrorType, Working, Left
  <2>3. /\ j \in InvocationType /\ Shaped(j) /\ Same(i, j) /\ j.pc \in {"begin", "end"}
        /\ j.pc = "begin" => j.n = i.n + 1 /\ Head(j.posts) = Post("reserve", i.n + 1)
        BY <1>1, <2>2, DecidedShape
  <2>4. First(h).n = i.n
        BY <1>1, <1>3, <1>7 DEF Shaped, Charged
  <2>. HIDE DEF j
  <2>5. Moved(h, j)
        BY <2>1, <2>3 DEF Moved, Working, PostAnswered
  <2>. QED BY <1>7, <2>1, <2>3, <2>4, <2>5
<1>. QED BY <1>1, <1>4, <1>5, <1>6, <1>7

\* The provider answers or fails, and the attempt is to be charged.
LEMMA ProviderMoves ==
  ASSUME TypeInv, NEW h \in Handlers, ProviderAnswers(h) \/ ProviderFails(h)
  PROVE  \E j : /\ Moved(h, j) /\ inv[h].pc = "call" /\ j.pc \in {"settle", "fail"}
                /\ j.n = inv[h].n /\ Head(j.posts) = Post("charge", j.n)
<1>. DEFINE i == inv[h]
            q == <<Post("charge", i.n)>>
<1>1. i \in InvocationType /\ Shaped(i) /\ i.pc = "call"
      BY DEF TypeInv, InvocationTypes, ProviderAnswers, ProviderFails
<1>2. i.n \in Nat \ {0} /\ i.tries # 0 /\ i.model # 0
      BY <1>1 DEF InvocationType, Shaped, Working
<1>3. Post("charge", i.n) \in PostType /\ Post("charge", i.n).kind = "charge" /\ Post("charge", i.n).n = i.n
      BY <1>2 DEF Post, PostType, PostKinds
<1>4. q \in Seq(PostType) /\ Charged(q, i.n) /\ Head(q) = Post("charge", i.n)
      BY <1>3 DEF Charged
<1>5. "settle" \in Places /\ "fail" \in Places
      BY DEF Places
<1>6. CASE ProviderAnswers(h)
  <2>. DEFINE j == [i EXCEPT !.pc = "settle", !.posts = q]
  <2>1. Become(h, j)
        BY <1>6 DEF ProviderAnswers, Charging
  <2>2. j \in InvocationType
        BY <1>1, <1>4, <1>5, QueueSet
  <2>3. /\ j.pc = "settle" /\ j.n = i.n /\ j.posts = q /\ Same(i, j)
        /\ j.tries = i.tries /\ j.model = i.model
        BY <1>1 DEF InvocationType, Same
  <2>. HIDE DEF j, q
  <2>4. Moved(h, j)
        BY <1>2, <1>4, <1>6, <2>1, <2>2, <2>3 DEF Moved, Shaped, Working, ProviderAnswers
  <2>. QED BY <1>1, <1>4, <2>3, <2>4
<1>7. CASE ProviderFails(h)
  <2>1. PICK e \in ProviderErrors : Become(h, [Charging(i, "fail") EXCEPT !.err = e, !.call = 0])
        BY <1>7 DEF ProviderFails
  <2>. DEFINE j == [i EXCEPT !.pc = "fail", !.posts = q, !.err = e, !.call = 0]
  <2>2. Become(h, j)
        BY <2>1 DEF Charging
  <2>3. j \in InvocationType
    <3>1. e \in ErrorType
          BY ErrorTypes
    <3>. QED BY <1>1, <1>4, <1>5, <3>1, OutcomeSet
  <2>4. /\ j.pc = "fail" /\ j.n = i.n /\ j.posts = q /\ Same(i, j)
        /\ j.tries = i.tries /\ j.model = i.model
        BY <1>1 DEF InvocationType, Same
  <2>. HIDE DEF j, q
  <2>5. Moved(h, j)
        BY <1>2, <1>4, <1>7, <2>2, <2>3, <2>4 DEF Moved, Shaped, Working, ProviderFails
  <2>. QED BY <1>1, <1>4, <2>4, <2>5
<1>. QED BY <1>6, <1>7

\* The answer is journaled and given, or the invocation is to fail.
LEMMA CompletionMoves ==
  ASSUME TypeInv, NEW h \in Handlers, CompletedPosted(h) \/ CompletedNotPosted(h)
  PROVE  /\ inv[h].pc = "complete"
         /\ Leave({h}) \/ \E j : Moved(h, j) /\ j.pc = "end"
<1>. DEFINE i == inv[h]
<1>1. i \in InvocationType /\ Shaped(i) /\ i.pc = "complete"
      BY DEF TypeInv, InvocationTypes, CompletedPosted, CompletedNotPosted
<1>2. ASSUME NEW e \in ErrorType, Become(h, [i EXCEPT !.pc = "end", !.err = e, !.call = 0]),
             listed' = listed
      PROVE  \E j : Moved(h, j) /\ j.pc = "end"
  <2>. DEFINE j == [i EXCEPT !.pc = "end", !.err = e, !.call = 0]
  <2>1. j \in InvocationType
    <3>1. "end" \in Places
          BY DEF Places
    <3>. QED BY <1>1, <3>1, ErrorSet
  <2>2. j.pc = "end" /\ j.n = i.n /\ Same(i, j) /\ j.tries = i.tries /\ j.model = i.model
        BY <1>1 DEF InvocationType, Same
  <2>. HIDE DEF j
  <2>3. Moved(h, j)
        BY <1>1, <1>2, <2>1, <2>2 DEF Moved, Shaped, Working, j
  <2>. QED BY <2>2, <2>3
<1>3. CASE CompletedPosted(h)
  <2>1. \/ Leave({h})
        \/ \E e \in LostErrors : /\ Become(h, [i EXCEPT !.pc = "end", !.err = e, !.call = 0])
                                 /\ listed' = listed
        BY <1>3 DEF CompletedPosted
  <2>. QED BY <1>1, <1>2, <2>1, ErrorTypes
<1>4. CASE CompletedNotPosted(h)
  <2>1. \E e \in LostErrors \cup {StatusError("unknown")} :
          Become(h, [i EXCEPT !.pc = "end", !.err = e, !.call = 0]) /\ listed' = listed
        BY <1>4 DEF CompletedNotPosted
  <2>. QED BY <1>1, <1>2, <2>1, ErrorTypes
<1>. QED BY <1>1, <1>3, <1>4

\* What a step makes of its invocation.
LEMMA StepMoves ==
  ASSUME TypeInv, NEW h \in Handlers, Step(h)
  PROVE  inv[h].pc # "idle" /\ (Leave({h}) \/ \E j : Moved(h, j))
<1>1. CASE LookupStarts(h)
      BY <1>1, LookupMoves DEF LookupStarts, Looking
<1>2. CASE LookupAnswers(h) \/ LookupFails(h)
      BY <1>2 DEF LookupAnswers, LookupFails, Looking
<1>3. CASE PostAnswered(h)
      BY <1>3, AnswerMoves DEF PostAnswered, Flushing
<1>4. CASE \/ PostAnswerLost(h) \/ PostLost(h) \/ PostRefused(h) \/ PostTooOld(h)
           \/ ReserveHalfDone(h) \/ OtherLimitRefuses(h)
      BY <1>4, PostsRaise, RaiseMoves DEF Raises, Flushing
<1>5. CASE ProviderAnswers(h) \/ ProviderFails(h)
      BY <1>5, ProviderMoves
<1>6. CASE CompletedPosted(h) \/ CompletedNotPosted(h)
      BY <1>6, CompletionMoves
<1>7. CASE FailurePosted(h) \/ FailureNotPosted(h)
      BY <1>7 DEF FailurePosted, FailureNotPosted
<1>. QED BY <1>1, <1>2, <1>3, <1>4, <1>5, <1>6, <1>7 DEF Step

\* The records that the journal is given.
Listing(op, n) == [NoRecord EXCEPT !.status = "reserved", !.attempts = journal[op].attempts \cup {n}]
Longer(op, n)  == [journal[op] EXCEPT !.attempts = journal[op].attempts \cup {n}]

LEMMA RecordsGiven ==
  ASSUME ApiTypes, NEW op \in Ops
  PROVE  /\ \A n \in Nat :
              /\ Listing(op, n) \in RecordType /\ Longer(op, n) \in RecordType
              /\ Listing(op, n).status = "reserved" /\ Longer(op, n).status = journal[op].status
              /\ Listing(op, n).attempts = journal[op].attempts \cup {n}
              /\ Longer(op, n).attempts = journal[op].attempts \cup {n}
         /\ /\ Dispatched(op) \in RecordType /\ Dispatched(op).status = "dispatched"
            /\ Dispatched(op).attempts = journal[op].attempts
         /\ \A call \in Nat :
              /\ Completed(op, call) \in RecordType /\ Completed(op, call).status = "completed"
              /\ Completed(op, call).attempts = journal[op].attempts
              /\ Completed(op, call).answer = call
         /\ \A e \in ErrorType :
              /\ Failed(op, e) \in RecordType /\ Failed(op, e).status \in {"failed", "uncertain"}
              /\ Failed(op, e).attempts = journal[op].attempts
<1>1. journal[op] \in RecordType
      BY DEF ApiTypes, Books
<1>2. ASSUME NEW n \in Nat
      PROVE  /\ Listing(op, n) \in RecordType /\ Longer(op, n) \in RecordType
             /\ Listing(op, n).status = "reserved" /\ Longer(op, n).status = journal[op].status
             /\ Listing(op, n).attempts = journal[op].attempts \cup {n}
             /\ Longer(op, n).attempts = journal[op].attempts \cup {n}
      BY <1>1 DEF Listing, Longer, NoRecord, RecordType, Statuses
<1>3. /\ Dispatched(op) \in RecordType /\ Dispatched(op).status = "dispatched"
      /\ Dispatched(op).attempts = journal[op].attempts
      BY <1>1 DEF Dispatched, RecordType, Statuses
<1>4. ASSUME NEW call \in Nat
      PROVE  /\ Completed(op, call) \in RecordType /\ Completed(op, call).status = "completed"
             /\ Completed(op, call).attempts = journal[op].attempts
             /\ Completed(op, call).answer = call
      BY <1>1 DEF Completed, RecordType, Statuses
<1>5. ASSUME NEW e \in ErrorType
      PROVE  /\ Failed(op, e) \in RecordType /\ Failed(op, e).status \in {"failed", "uncertain"}
             /\ Failed(op, e).attempts = journal[op].attempts
      BY <1>1 DEF Failed, RecordType, Statuses
<1>. QED BY <1>2, <1>3, <1>4, <1>5

\* The journal after an attempt is listed: it is, at the next place or where it was.
LEMMA ReserveAttemptEffect ==
  ASSUME ApiTypes, NEW op \in Ops, NEW n \in Nat, ReserveAttempt(op, n)
  PROVE  \/ n \in journal[op].attempts /\ journal' = journal
         \/ /\ journal[op].status = "dispatched"
            /\ journal' = [journal EXCEPT ![op] = Longer(op, n)]
         \/ /\ journal[op].status \in {"absent", "reserved", "failed"}
            /\ journal' = [journal EXCEPT ![op] = Listing(op, n)]
<1>1. JournalTakes(op, n)
      BY DEF ReserveAttempt
<1>2. CASE n \in journal[op].attempts
  <2>1. journal' = [journal EXCEPT ![op] = journal[op]]
        BY <1>2 DEF ReserveAttempt
  <2>2. journal' = journal
        BY <2>1 DEF ApiTypes, Books
  <2>. QED BY <1>2, <2>2
<1>3. CASE n \notin journal[op].attempts /\ journal[op].status = "dispatched"
      BY <1>3 DEF ReserveAttempt, Longer
<1>4. CASE n \notin journal[op].attempts /\ journal[op].status # "dispatched"
      BY <1>1, <1>4 DEF ReserveAttempt, JournalTakes, Listing
<1>. QED BY <1>2, <1>3, <1>4

LEMMA RecordPut ==
  ASSUME ApiTypes, NEW op \in Ops, NEW r \in RecordType, IsFiniteSet(r.attempts),
         journal' = [journal EXCEPT ![op] = r]
  PROVE  /\ journal' \in [Ops -> RecordType] /\ journal'[op] = r
         /\ \A x \in Ops \ {op} : journal'[x] = journal[x]
         /\ \A x \in Ops : IsFiniteSet(journal'[x].attempts)
<1>1. /\ journal' \in [Ops -> RecordType] /\ journal'[op] = r
      /\ \A x \in Ops \ {op} : journal'[x] = journal[x]
      BY DEF ApiTypes, Books
<1>. QED BY <1>1 DEF ApiTypes, Books

\* The ledger after a reservation, a release or a charge.
LEMMA LedgerPut ==
  ASSUME NEW k, NEW s, Put(k, s)
  PROVE  /\ DOMAIN ledger' = DOMAIN ledger \cup {k} /\ ledger'[k] = s
         /\ \A x \in DOMAIN ledger \ {k} : ledger'[x] = ledger[x]
  BY DEF Put

LEMMA ReserveBudgetEffect ==
  ASSUME NEW k, ReserveBudget(k)
  PROVE  /\ DOMAIN ledger' = DOMAIN ledger \cup {k}
         /\ \A x \in DOMAIN ledger : ledger'[x] = ledger[x]
         /\ k \notin DOMAIN ledger => ledger'[k] = "reserved"
<1>1. CASE k \in DOMAIN ledger
      BY <1>1 DEF ReserveBudget
<1>2. CASE k \notin DOMAIN ledger
  <2>1. Put(k, "reserved")
        BY <1>2 DEF ReserveBudget
  <2>. QED BY <1>2, <2>1, LedgerPut
<1>. QED BY <1>1, <1>2

\* The journal and the ledger keep their types.
LEMMA JournalKept ==
  ASSUME ApiTypes, NEW op \in Ops, NEW r \in RecordType,
         \E n \in Nat : r.attempts \in {journal[op].attempts, journal[op].attempts \cup {n}},
         journal' = [journal EXCEPT ![op] = r]
  PROVE  /\ journal' \in [Ops -> RecordType]
         /\ \A x \in Ops : IsFiniteSet(journal'[x].attempts)
<1>1. IsFiniteSet(r.attempts)
  <2>1. PICK n \in Nat : r.attempts \in {journal[op].attempts, journal[op].attempts \cup {n}}
        OBVIOUS
  <2>2. IsFiniteSet(journal[op].attempts)
        BY DEF ApiTypes, Books
  <2>3. IsFiniteSet(journal[op].attempts \cup {n})
        BY <2>2, FS_AddElement
  <2>. QED BY <2>1, <2>2, <2>3
<1>. QED BY <1>1, RecordPut

LEMMA LedgerKept ==
  ASSUME ApiTypes, NEW k \in Ops \X Nat, NEW s \in {"reserved", "settled", "released"},
         \/ ReserveBudget(k) \/ Put(k, s) \/ ledger' = [ledger EXCEPT ![k] = s] \/ ledger' = ledger
  PROVE  /\ DOMAIN ledger' \subseteq Ops \X Nat /\ IsFiniteSet(DOMAIN ledger')
         /\ \A x \in DOMAIN ledger' : ledger'[x] \in {"reserved", "settled", "released"}
<1>1. IsFiniteSet(DOMAIN ledger \cup {k})
      BY FS_AddElement DEF ApiTypes, Books
<1>2. CASE ReserveBudget(k)
  <2>1. /\ DOMAIN ledger' = DOMAIN ledger \cup {k}
        /\ \A x \in DOMAIN ledger : ledger'[x] = ledger[x]
        /\ k \notin DOMAIN ledger => ledger'[k] = "reserved"
        BY <1>2, ReserveBudgetEffect
  <2>. QED BY <1>1, <2>1 DEF ApiTypes, Books
<1>3. CASE Put(k, s)
  <2>1. /\ DOMAIN ledger' = DOMAIN ledger \cup {k} /\ ledger'[k] = s
        /\ \A x \in DOMAIN ledger \ {k} : ledger'[x] = ledger[x]
        BY <1>3, LedgerPut
  <2>. QED BY <1>1, <2>1 DEF ApiTypes, Books
<1>4. CASE ledger' = [ledger EXCEPT ![k] = s]
      BY <1>4 DEF ApiTypes, Books
<1>5. CASE ledger' = ledger
      BY <1>5 DEF ApiTypes, Books
<1>. QED BY <1>2, <1>3, <1>4, <1>5

LEMMA FirstPost ==
  ASSUME TypeInv, NEW h \in Handlers, Flushing(h)
  PROVE  /\ First(h) \in PostType /\ First(h).kind \in PostKinds /\ First(h).n \in 1 .. inv[h].n
         /\ First(h).n \in Nat
         /\ inv[h].op \in Ops /\ inv[h].n \in Nat /\ Key(h, First(h).n) \in Ops \X Nat
         /\ inv[h].posts # <<>> /\ inv[h].posts \in Seq(PostType)
         /\ inv[h].pc = "begin" => Beginning(inv[h].posts, inv[h].n)
         /\ inv[h].pc \in {"settle", "fail"} => First(h).kind = "charge" /\ First(h).n = inv[h].n
<1>. DEFINE i == inv[h]
<1>1. i \in InvocationType /\ Shaped(i) /\ i.pc \in {"begin", "settle", "fail"} /\ i.op \in Ops
      BY DEF TypeInv, InvocationTypes, Flushing
<1>2. i.posts # <<>> /\ i.posts \in Seq(PostType) /\ i.n \in Nat \ {0} /\ First(h) = Head(i.posts)
      BY <1>1, ShapedFlushes DEF First
<1>3. First(h) = i.posts[1] /\ First(h) \in PostType /\ Len(i.posts) \in Nat \ {0}
      BY <1>2, Ends
<1>4. First(h).n \in 1 .. i.n
  <2>1. CASE i.pc = "begin"
        BY <1>1, <1>3, <2>1 DEF Shaped, Beginning, Chain
  <2>2. CASE i.pc \in {"settle", "fail"}
        BY <1>1, <1>2, <1>3, <2>2 DEF Shaped, Charged
  <2>. QED BY <1>1, <2>1, <2>2
<1>5. i.pc \in {"settle", "fail"} => First(h).kind = "charge" /\ First(h).n = i.n
      BY <1>1, <1>3 DEF Shaped, Charged
<1>6. i.pc = "begin" => Beginning(i.posts, i.n)
      BY <1>1 DEF Shaped
<1>. QED BY <1>1, <1>2, <1>3, <1>4, <1>5, <1>6 DEF PostType, Key

\* What the API does with a post, by its kind.
LEMMA AppliedEffect ==
  ASSUME TypeInv, NEW h \in Handlers, Flushing(h), Applied(h, First(h))
  PROVE  \/ /\ First(h).kind = "reserve"
            /\ ReserveBudget(Key(h, First(h).n)) /\ ReserveAttempt(inv[h].op, First(h).n)
         \/ /\ First(h).kind = "dispatched"
            /\ Transition(inv[h].op, {"reserved"}, Dispatched(inv[h].op))
            /\ UNCHANGED <<ledger, reused>>
         \/ /\ First(h).kind = "charge"
            /\ ledger' = [ledger EXCEPT ![Key(h, First(h).n)] = "settled"]
            /\ Reuse(Key(h, First(h).n)) /\ UNCHANGED journal
<1>1. First(h).kind \in {"reserve", "dispatched", "charge"}
      BY FirstPost DEF PostKinds
<1>2. CASE First(h).kind = "reserve"
      BY <1>2 DEF Applied
<1>3. CASE First(h).kind = "dispatched"
      BY <1>3 DEF Applied
<1>4. CASE First(h).kind = "charge"
      BY <1>4 DEF Applied
<1>. QED BY <1>1, <1>2, <1>3, <1>4

LEMMA AppliedTypes ==
  ASSUME TypeInv, NEW h \in Handlers, Flushing(h), Applied(h, First(h))
  PROVE  Books'
<1>. DEFINE k  == Key(h, First(h).n)
            op == inv[h].op
            n  == First(h).n
<1>0. k \in Ops \X Nat /\ op \in Ops /\ n \in Nat /\ ApiTypes
      BY FirstPost DEF TypeInv
<1>. HIDE DEF k, op, n
<1>1. CASE ReserveBudget(k) /\ ReserveAttempt(op, n)
  <2>1. /\ DOMAIN ledger' \subseteq Ops \X Nat /\ IsFiniteSet(DOMAIN ledger')
        /\ \A x \in DOMAIN ledger' : ledger'[x] \in {"reserved", "settled", "released"}
        BY <1>0, <1>1, LedgerKept
  <2>2. /\ Listing(op, n) \in RecordType /\ Longer(op, n) \in RecordType
        /\ Listing(op, n).attempts = journal[op].attempts \cup {n}
        /\ Longer(op, n).attempts = journal[op].attempts \cup {n}
        BY <1>0, RecordsGiven
  <2>3. \/ journal' = journal
        \/ journal' = [journal EXCEPT ![op] = Longer(op, n)]
        \/ journal' = [journal EXCEPT ![op] = Listing(op, n)]
        BY <1>0, <1>1, ReserveAttemptEffect
  <2>4. /\ journal' \in [Ops -> RecordType]
        /\ \A x \in Ops : IsFiniteSet(journal'[x].attempts)
    <3>1. CASE journal' = journal
          BY <1>0, <3>1 DEF ApiTypes, Books
    <3>2. CASE journal' = [journal EXCEPT ![op] = Longer(op, n)]
          BY <1>0, <2>2, <3>2, JournalKept
    <3>3. CASE journal' = [journal EXCEPT ![op] = Listing(op, n)]
          BY <1>0, <2>2, <3>3, JournalKept
    <3>. QED BY <2>3, <3>1, <3>2, <3>3
  <2>. QED BY <1>0, <2>1, <2>4 DEF ApiTypes, Books
<1>2. CASE Transition(op, {"reserved"}, Dispatched(op)) /\ ledger' = ledger
  <2>1. Dispatched(op) \in RecordType /\ Dispatched(op).attempts = journal[op].attempts
        BY <1>0, RecordsGiven
  <2>2. /\ journal' \in [Ops -> RecordType]
        /\ \A x \in Ops : IsFiniteSet(journal'[x].attempts)
        BY <1>0, <1>2, <2>1, JournalKept DEF Transition
  <2>. QED BY <1>0, <1>2, <2>2 DEF ApiTypes, Books
<1>3. CASE ledger' = [ledger EXCEPT ![k] = "settled"] /\ journal' = journal
  <2>1. /\ DOMAIN ledger' \subseteq Ops \X Nat /\ IsFiniteSet(DOMAIN ledger')
        /\ \A x \in DOMAIN ledger' : ledger'[x] \in {"reserved", "settled", "released"}
        BY <1>0, <1>3, LedgerKept
  <2>. QED BY <1>0, <1>3, <2>1 DEF ApiTypes, Books
<1>. QED BY <1>1, <1>2, <1>3, AppliedEffect DEF k, op, n

\* A step of an invocation keeps the types of the API.
LEMMA StepKeepsApi ==
  ASSUME TypeInv, NEW h \in Handlers, Step(h)
  PROVE  ApiTypes'
<1>0. ApiTypes
      BY DEF TypeInv
<1>1. CASE \/ LookupStarts(h) \/ LookupAnswers(h) \/ LookupFails(h)
           \/ PostLost(h) \/ PostRefused(h) \/ PostTooOld(h)
           \/ ProviderAnswers(h) \/ ProviderFails(h) \/ CompletedNotPosted(h) \/ FailureNotPosted(h)
  <2>1. journal' = journal /\ ledger' = ledger /\ calls' = calls
        BY <1>1 DEF LookupStarts, LookupAnswers, LookupFails, PostLost, PostRefused, PostTooOld,
          ProviderAnswers, ProviderFails, CompletedNotPosted, FailureNotPosted, PostRaises, api, history
  <2>. QED BY <1>0, <2>1 DEF ApiTypes, Books
<1>2. CASE PostAnswered(h)
  <2>1. Flushing(h) /\ Applied(h, First(h))
        BY <1>2 DEF PostAnswered
  <2>2. inv[h].op \in Ops /\ inv[h].n \in Nat
        BY <2>1, FirstPost
  <2>3. \/ calls' = calls
        \/ calls' = [calls EXCEPT ![inv[h].op] = Append(@, inv[h].n)]
        BY <1>2, AnswerMoves
  <2>4. calls' \in [Ops -> Seq(Nat)]
    <3>1. calls[inv[h].op] \in Seq(Nat) /\ calls \in [Ops -> Seq(Nat)]
          BY <1>0, <2>2 DEF ApiTypes
    <3>2. Append(calls[inv[h].op], inv[h].n) \in Seq(Nat)
          BY <2>2, <3>1
    <3>. QED BY <2>3, <3>1, <3>2
  <2>. QED BY <2>1, <2>4, AppliedTypes DEF ApiTypes
<1>3. CASE PostAnswerLost(h)
      BY <1>0, <1>3, AppliedTypes DEF PostAnswerLost, PostRaises, ApiTypes
<1>4. CASE ReserveHalfDone(h) \/ OtherLimitRefuses(h)
  <2>. DEFINE k == Key(h, First(h).n)
  <2>1. k \in Ops \X Nat
        BY <1>4, FirstPost DEF ReserveHalfDone, OtherLimitRefuses
  <2>2. journal' = journal /\ calls' = calls
        BY <1>4 DEF ReserveHalfDone, OtherLimitRefuses, PostRaises
  <2>3. ReserveBudget(k) \/ Put(k, "released") \/ ledger' = ledger
        BY <1>4 DEF ReserveHalfDone, OtherLimitRefuses
  <2>. HIDE DEF k
  <2>4. /\ DOMAIN ledger' \subseteq Ops \X Nat /\ IsFiniteSet(DOMAIN ledger')
        /\ \A x \in DOMAIN ledger' : ledger'[x] \in {"reserved", "settled", "released"}
        BY <1>0, <2>1, <2>3, LedgerKept
  <2>. QED BY <1>0, <2>2, <2>4 DEF ApiTypes, Books
<1>5. CASE CompletedPosted(h) \/ FailurePosted(h)
  <2>. DEFINE op == inv[h].op
  <2>1. inv[h] \in InvocationType /\ op \in Ops
        BY <1>5 DEF TypeInv, InvocationTypes, CompletedPosted, FailurePosted
  <2>2. inv[h].call \in Nat /\ inv[h].err \in ErrorType
        BY <2>1 DEF InvocationType, ErrorType
  <2>3. ledger' = ledger /\ calls' = calls
        BY <1>5 DEF CompletedPosted, FailurePosted, history
  <2>4. \/ journal' = [journal EXCEPT ![op] = Completed(op, inv[h].call)]
        \/ journal' = [journal EXCEPT ![op] = Failed(op, inv[h].err)]
        BY <1>5 DEF CompletedPosted, FailurePosted, Transition
  <2>5. /\ Completed(op, inv[h].call) \in RecordType
        /\ Completed(op, inv[h].call).attempts = journal[op].attempts
        /\ Failed(op, inv[h].err) \in RecordType
        /\ Failed(op, inv[h].err).attempts = journal[op].attempts
        BY <1>0, <2>1, <2>2, RecordsGiven
  <2>. HIDE DEF op
  <2>6. /\ journal' \in [Ops -> RecordType]
        /\ \A x \in Ops : IsFiniteSet(journal'[x].attempts)
        BY <1>0, <2>1, <2>4, <2>5, JournalKept DEF op
  <2>. QED BY <1>0, <2>3, <2>6 DEF ApiTypes, Books
<1>. QED BY <1>1, <1>2, <1>3, <1>4, <1>5 DEF Step

LEMMA StepKeepsEpoch ==
  ASSUME TypeInv, NEW h \in Handlers, Step(h)
  PROVE  EpochTypes' /\ fence' = fence /\ reg' = reg
<1>1. fence' = fence /\ active' = active /\ reg' = reg
      BY DEF Step, LookupStarts, LookupAnswers, LookupFails, PostAnswered, PostAnswerLost,
        PostLost, PostRefused, PostTooOld, ReserveHalfDone, OtherLimitRefuses, ProviderAnswers,
        ProviderFails, CompletedPosted, CompletedNotPosted, FailurePosted, FailureNotPosted,
        PostRaises, api
<1>2. faults' = faults \/ Fault
  <2>1. CASE \/ LookupStarts(h) \/ LookupAnswers(h) \/ LookupFails(h) \/ PostAnswered(h)
             \/ PostAnswerLost(h) \/ PostLost(h) \/ PostRefused(h) \/ PostTooOld(h)
        BY <2>1 DEF LookupStarts, LookupAnswers, LookupFails, PostAnswered, PostAnswerLost,
          PostLost, PostRefused, PostTooOld
  <2>2. CASE ReserveHalfDone(h) \/ OtherLimitRefuses(h)
        BY <2>2 DEF ReserveHalfDone, OtherLimitRefuses
  <2>3. CASE \/ ProviderAnswers(h) \/ ProviderFails(h) \/ CompletedPosted(h)
             \/ CompletedNotPosted(h) \/ FailurePosted(h) \/ FailureNotPosted(h)
        BY <2>3 DEF ProviderAnswers, ProviderFails, CompletedPosted, CompletedNotPosted,
          FailurePosted, FailureNotPosted
  <2>. QED BY <2>1, <2>2, <2>3 DEF Step
<1>. QED BY <1>1, <1>2, ModelGatewayAssumption DEF TypeInv, EpochTypes, Fault

\* The invocation that enters waits for those whose lock is listed.
LEMMA InvokeTypes ==
  ASSUME TypeInv, NEW h \in Handlers, NEW op \in Ops, Invoke(h, op)
  PROVE  InvocationTypes'
<1>. DEFINE A == {g \in listed : inv[g].op = op}
            j == [Idle EXCEPT !.pc = "lookup", !.op = op, !.fence = reg, !.ahead = A]
<1>0. inv[h].pc = "idle" /\ h \notin Busy
      BY DEF Invoke, Busy
<1>1. A \in SUBSET Handlers /\ A \subseteq Busy \ {h}
      BY <1>0 DEF TypeInv, InvocationTypes, Busy
<1>2. reg \in 0 .. MaxFence /\ reg <= fence
      BY ModelGatewayAssumption DEF TypeInv, EpochTypes
<1>3. j \in InvocationType /\ j.pc = "lookup" /\ j.op = op /\ j.fence = reg /\ j.ahead = A
  <2>. DEFINE P == Seq(PostType)
              E == [retry : BOOLEAN, kind : Kinds]
              T == 0 .. TransportAttempts
              M == 0 .. Models
              F == 0 .. MaxFence
              O == Ops \cup {NoOp}
  <2>1. InvocationType =
          [pc : Places, op : O, fence : F, ahead : SUBSET Handlers, n : Nat, posts : P,
           tries : T, model : M, err : E, call : Nat]
        BY DEF InvocationType
  <2>2. "lookup" \in Places /\ op \in O /\ reg \in F
        BY <1>2 DEF Places
  <2>3. Idle \in InvocationType
        BY IdleShape
  <2>. HIDE DEF P, E, T, M, F, O, A
  <2>. QED BY <1>1, <2>1, <2>2, <2>3
<1>. HIDE DEF j, A
<1>4. inv' = [inv EXCEPT ![h] = j] /\ listed' = listed \cup {h} /\ fence' = fence
      BY DEF Invoke, Become, j, A, api
<1>5. /\ inv' \in [Handlers -> InvocationType] /\ inv'[h] = j
      /\ \A g \in Handlers \ {h} : inv'[g] = inv[g]
      BY <1>3, <1>4 DEF TypeInv, InvocationTypes
<1>6. Busy' = Busy \cup {h}
      BY <1>3, <1>5 DEF Busy
<1>7. Shaped(j)
      BY <1>3 DEF Shaped, Working
<1>8. ASSUME NEW g \in Handlers
      PROVE  /\ inv'[g].fence <= fence /\ inv'[g].ahead \subseteq Busy' \ {g}
             /\ inv'[g].pc # "idle" => inv'[g].op \in Ops
             /\ Shaped(inv'[g])
  <2>1. CASE g = h
        BY <1>1, <1>2, <1>3, <1>5, <1>6, <1>7, <2>1
  <2>2. CASE g # h
        BY <1>5, <1>6, <2>2 DEF TypeInv, InvocationTypes
  <2>. QED BY <2>1, <2>2
<1>. QED BY <1>4, <1>5, <1>6, <1>8 DEF TypeInv, InvocationTypes

LEMMA TypeInit == Init => TypeInv
<1>. SUFFICES ASSUME Init PROVE TypeInv
     OBVIOUS
<1>1. InvocationTypes
  <2>1. \A h \in Handlers : inv[h] = Idle
        BY DEF Init
  <2>2. inv \in [Handlers -> InvocationType]
        BY IdleShape DEF Init
  <2>3. Idle.fence = 0 /\ Idle.ahead = {} /\ fence = 1
        BY DEF Idle, Init
  <2>. QED BY <2>1, <2>2, <2>3, IdleShape DEF Init, InvocationTypes, Busy
<1>2. ApiTypes
  <2>1. NoRecord \in RecordType /\ NoRecord.attempts = {}
        BY DEF NoRecord, RecordType, Statuses
  <2>2. journal \in [Ops -> RecordType] /\ \A op \in Ops : IsFiniteSet(journal[op].attempts)
        BY <2>1, FS_EmptySet DEF Init
  <2>3. DOMAIN ledger = {}
        BY DEF Init
  <2>4. calls \in [Ops -> Seq(Nat)]
    <3>1. <<>> \in Seq(Nat)
          OBVIOUS
    <3>. QED BY <3>1 DEF Init
  <2>. QED BY <2>2, <2>3, <2>4, FS_EmptySet DEF ApiTypes, Books
<1>3. EpochTypes
      BY ModelGatewayAssumption DEF Init, EpochTypes
<1>. QED BY <1>1, <1>2, <1>3 DEF TypeInv

LEMMA TypeStep == TypeInv /\ [Next]_vars => TypeInv'
<1>. SUFFICES ASSUME TypeInv, [Next]_vars PROVE TypeInv'
     OBVIOUS
<1>. USE DEF TypeInv
<1>0. fence \in Nat
      BY ModelGatewayAssumption DEF EpochTypes
<1>1. ASSUME NEW h \in Handlers, NEW op \in Ops, Invoke(h, op)
      PROVE  TypeInv'
  <2>1. UNCHANGED <<fence, active, reg, journal, ledger, calls, faults>>
        BY <1>1 DEF Invoke, api
  <2>. QED BY <1>1, <2>1, InvokeTypes DEF ApiTypes, Books, EpochTypes
<1>2. ASSUME NEW h \in Handlers, Step(h)
      PROVE  TypeInv'
  <2>1. EpochTypes' /\ fence' = fence /\ ApiTypes'
        BY <1>2, StepKeepsEpoch, StepKeepsApi
  <2>2. InvocationTypes'
    <3>1. CASE Leave({h})
          BY <1>0, <2>1, <3>1, LeaveTypes
    <3>2. CASE \E j : Moved(h, j)
          BY <1>2, <2>1, <3>2, StepMoves, MovedTypes
    <3>. QED BY <1>2, <3>1, <3>2, StepMoves
  <2>. QED BY <2>1, <2>2
<1>3. ASSUME NEW S \in SUBSET Handlers, Abandon(S), reg' \in {0, reg}
      PROVE  TypeInv'
  <2>1. InvocationTypes'
        BY <1>0, <1>3, LeaveTypes DEF Abandon, api
  <2>2. ApiTypes'
        BY <1>3 DEF Abandon, api, ApiTypes, Books
  <2>3. EpochTypes'
        BY <1>0, <1>3, ModelGatewayAssumption DEF Abandon, api, EpochTypes, Fault
  <2>. QED BY <2>1, <2>2, <2>3
<1>4. ASSUME TakeOver \/ EngineLeaves \/ Evict \/ \E token \in 1 .. MaxFence : Register(token)
      PROVE  TypeInv'
  <2>1. ApiTypes'
        BY <1>4 DEF TakeOver, EngineLeaves, Evict, Register, api, history, ApiTypes, Books
  <2>2. EpochTypes'
    <3>1. CASE TakeOver
          BY <3>1, ModelGatewayAssumption DEF TakeOver, EpochTypes, Fault
    <3>2. CASE EngineLeaves
      <4>1. fence' = fence /\ reg' = reg /\ active' = FALSE /\ faults < MaxFaults /\ faults' = faults + 1
            BY <3>2 DEF EngineLeaves, Fault
      <4>2. active' \in BOOLEAN
            BY <4>1
      <4>3. faults' \in 0 .. MaxFaults
            BY <4>1, ModelGatewayAssumption DEF EpochTypes
      <4>. QED BY <4>1, <4>2, <4>3 DEF EpochTypes
    <3>3. CASE Evict
          BY <1>0, <3>3, ModelGatewayAssumption DEF Evict, EpochTypes, Fault, api
    <3>4. CASE \E token \in 1 .. MaxFence : Register(token)
          BY <1>0, <3>4, ModelGatewayAssumption DEF Register, EpochTypes, api
    <3>. QED BY <1>4, <3>1, <3>2, <3>3, <3>4
  <2>3. inv' = inv /\ fence' \in Nat /\ fence <= fence' /\ listed' \subseteq listed
        BY <1>0, <1>4 DEF TakeOver, EngineLeaves, Evict, Register, api
  <2>4. Busy' = Busy
        BY <2>3 DEF Busy
  <2>5. \A h \in Handlers : inv[h].fence \in Nat
        BY ModelGatewayAssumption DEF InvocationTypes, InvocationType
  <2>6. \A h \in Handlers : inv'[h].fence <= fence'
        BY <1>0, <2>3, <2>5 DEF InvocationTypes
  <2>7. InvocationTypes'
        BY <2>3, <2>4, <2>6 DEF InvocationTypes
  <2>. QED BY <2>1, <2>2, <2>7
<1>5. CASE UNCHANGED vars
      BY <1>5 DEF vars, api, history, InvocationTypes, ApiTypes, Books, EpochTypes, Busy
<1>6. ASSUME NEW h \in Handlers, Cancel(h)
      PROVE  TypeInv'
      BY <1>3, <1>6 DEF Cancel
<1>7. CASE GatewayRestart
      BY <1>3, <1>7 DEF GatewayRestart
<1>. QED BY <1>1, <1>2, <1>4, <1>5, <1>6, <1>7 DEF Next

LEMMA TypeAlways == Spec => []TypeInv
BY TypeInit, TypeStep, PTL DEF Spec

\* The types, the bounds on retries and fallbacks, that no invocation is of a
\* later epoch than the newest engine or waits for one that is gone, and that
\* one which flushes has a post to send.
THEOREM TypeCorrect == Spec => []TypeOK
BY TypeAlways, TypeInvImpliesTypeOK, PTL

(***************************************************************************)
(* The limit of model calls                                                *)
(***************************************************************************)

\* The steps that write to the journal or to the ledger.
LEMMA StepWrites ==
  ASSUME NEW h \in Handlers, Step(h)
  PROVE  \/ UNCHANGED <<journal, ledger, reused>>
         \/ Flushing(h) /\ Authority(h) /\ ~First(h).seen /\ Applied(h, First(h))
         \/ ReserveHalfDone(h) \/ OtherLimitRefuses(h)
         \/ CompletedPosted(h) \/ FailurePosted(h)
<1>1. CASE \/ LookupStarts(h) \/ LookupAnswers(h) \/ LookupFails(h)
           \/ PostLost(h) \/ PostRefused(h) \/ PostTooOld(h)
           \/ ProviderAnswers(h) \/ ProviderFails(h) \/ CompletedNotPosted(h) \/ FailureNotPosted(h)
      BY <1>1 DEF LookupStarts, LookupAnswers, LookupFails, PostLost, PostRefused, PostTooOld,
        ProviderAnswers, ProviderFails, CompletedNotPosted, FailureNotPosted, api, history
<1>2. CASE PostAnswered(h) \/ PostAnswerLost(h)
      BY <1>2 DEF PostAnswered, PostAnswerLost
<1>. QED BY <1>1, <1>2 DEF Step

LEMMA Writers ==
  ASSUME [Next]_vars
  PROVE  \/ UNCHANGED <<journal, ledger, reused>>
         \/ \E h \in Handlers : Flushing(h) /\ Applied(h, First(h))
         \/ \E h \in Handlers : ReserveHalfDone(h) \/ OtherLimitRefuses(h)
         \/ \E h \in Handlers : CompletedPosted(h) \/ FailurePosted(h)
<1>1. CASE \E h \in Handlers : Step(h)
      BY <1>1, StepWrites
<1>2. CASE \E h \in Handlers : Cancel(h) \/ \E op \in Ops : Invoke(h, op)
      BY <1>2 DEF Cancel, Abandon, Invoke, api
<1>3. CASE \/ TakeOver \/ EngineLeaves \/ Evict \/ GatewayRestart
           \/ \E token \in 1 .. MaxFence : Register(token)
      BY <1>3 DEF TakeOver, EngineLeaves, Evict, GatewayRestart, Abandon, Register, api, history
<1>4. CASE UNCHANGED vars
      BY <1>4 DEF vars, api, history
<1>. QED BY <1>1, <1>2, <1>3, <1>4 DEF Next

\* A reservation is counted once, and only below the limit; a charge of one
\* that had been released is noted in reused.
LEMMA CountSteps ==
  ASSUME TypeInv, [Next]_vars
  PROVE  \/ (Counted \ reused)' \subseteq Counted \ reused
         \/ /\ Cardinality(Counted) < CallLimit
            /\ \E k : (Counted \ reused)' \subseteq Counted \cup {k}
<1>1. ASSUME NEW k, ReserveBudget(k)
      PROVE  \/ (Counted \ reused)' \subseteq Counted \ reused
             \/ /\ Cardinality(Counted) < CallLimit
                /\ (Counted \ reused)' \subseteq Counted \cup {k}
  <2>1. reused \subseteq reused'
        BY <1>1 DEF ReserveBudget, Reuse
  <2>2. CASE k \in DOMAIN ledger
        BY <1>1, <2>1, <2>2 DEF ReserveBudget, Counted
  <2>3. CASE k \notin DOMAIN ledger
    <3>1. Cardinality(Counted) < CallLimit
          BY <1>1, <2>3 DEF ReserveBudget, BudgetAllows
    <3>2. /\ DOMAIN ledger' = DOMAIN ledger \cup {k}
          /\ \A x \in DOMAIN ledger : ledger'[x] = ledger[x]
          BY <1>1, ReserveBudgetEffect
    <3>3. Counted' \subseteq Counted \cup {k}
          BY <3>2 DEF Counted
    <3>. QED BY <3>1, <3>3
  <2>. QED BY <2>2, <2>3
<1>2. ASSUME NEW k, ledger' = [ledger EXCEPT ![k] = "settled"], Reuse(k)
      PROVE  (Counted \ reused)' \subseteq Counted \ reused
  <2>1. /\ DOMAIN ledger' = DOMAIN ledger
        /\ \A x \in DOMAIN ledger \ {k} : ledger'[x] = ledger[x]
        BY <1>2
  <2>2. reused \subseteq reused' /\ (k \in DOMAIN ledger /\ ledger[k] = "released" => k \in reused')
        BY <1>2 DEF Reuse
  <2>. QED BY <2>1, <2>2 DEF Counted
<1>3. ASSUME NEW h \in Handlers, Flushing(h), Applied(h, First(h))
      PROVE  \/ (Counted \ reused)' \subseteq Counted \ reused
             \/ /\ Cardinality(Counted) < CallLimit
                /\ \E k : (Counted \ reused)' \subseteq Counted \cup {k}
  <2>1. CASE ReserveBudget(Key(h, First(h).n))
        BY <1>1, <2>1
  <2>2. CASE ledger' = [ledger EXCEPT ![Key(h, First(h).n)] = "settled"] /\ Reuse(Key(h, First(h).n))
        BY <1>2, <2>2
  <2>3. CASE UNCHANGED <<ledger, reused>>
        BY <2>3 DEF Counted
  <2>. QED BY <1>3, <2>1, <2>2, <2>3, AppliedEffect
<1>4. ASSUME NEW h \in Handlers, ReserveHalfDone(h)
      PROVE  \/ (Counted \ reused)' \subseteq Counted \ reused
             \/ /\ Cardinality(Counted) < CallLimit
                /\ \E k : (Counted \ reused)' \subseteq Counted \cup {k}
      BY <1>1, <1>4 DEF ReserveHalfDone
<1>5. ASSUME NEW h \in Handlers, OtherLimitRefuses(h)
      PROVE  (Counted \ reused)' \subseteq Counted \ reused
  <2>. DEFINE k == Key(h, First(h).n)
  <2>1. reused' = reused /\ (ledger' = ledger \/ Put(k, "released"))
        BY <1>5 DEF OtherLimitRefuses
  <2>. HIDE DEF k
  <2>2. CASE ledger' = ledger
        BY <2>1, <2>2 DEF Counted
  <2>3. CASE Put(k, "released")
    <3>1. /\ DOMAIN ledger' = DOMAIN ledger \cup {k} /\ ledger'[k] = "released"
          /\ \A x \in DOMAIN ledger \ {k} : ledger'[x] = ledger[x]
          BY <2>3, LedgerPut
    <3>. QED BY <2>1, <3>1 DEF Counted
  <2>. QED BY <2>1, <2>2, <2>3
<1>6. ASSUME UNCHANGED <<ledger, reused>>
      PROVE  (Counted \ reused)' \subseteq Counted \ reused
      BY <1>6 DEF Counted
<1>7. ASSUME NEW h \in Handlers, CompletedPosted(h) \/ FailurePosted(h)
      PROVE  UNCHANGED <<ledger, reused>>
      BY <1>7 DEF CompletedPosted, FailurePosted, history
<1>. QED BY <1>3, <1>4, <1>5, <1>6, <1>7, Writers

LEMMA CountedFinite ==
  ASSUME TypeInv
  PROVE  IsFiniteSet(Counted) /\ IsFiniteSet(Counted \ reused)
<1>1. Counted \subseteq DOMAIN ledger /\ IsFiniteSet(DOMAIN ledger)
      BY DEF Counted, TypeInv, ApiTypes, Books
<1>. QED BY <1>1, FS_Subset

\* The limit on model calls holds for the reservations that count, however
\* many invocations reserve, retry, lose answers and are taken over, but for
\* those that were released and used all the same (budgets.py:139-229).
THEOREM CallsAlwaysWithinLimit == Spec => []CallsWithinLimit
<1>1. Init => CallsWithinLimit
  <2>. SUFFICES ASSUME Init PROVE CallsWithinLimit
       OBVIOUS
  <2>1. Counted \ reused = {}
        BY DEF Init, Counted
  <2>. QED BY <2>1, FS_EmptySet, ModelGatewayAssumption DEF CallsWithinLimit
<1>2. TypeInv /\ CallsWithinLimit /\ [Next]_vars => CallsWithinLimit'
  <2>. SUFFICES ASSUME TypeInv, CallsWithinLimit, [Next]_vars PROVE CallsWithinLimit'
       OBVIOUS
  <2>1. IsFiniteSet(Counted) /\ IsFiniteSet(Counted \ reused)
        BY CountedFinite
  <2>. DEFINE C == (Counted \ reused)'
  <2>2. CASE C \subseteq Counted \ reused
    <3>1. Cardinality(C) <= Cardinality(Counted \ reused) /\ IsFiniteSet(C)
          BY <2>1, <2>2, FS_Subset
    <3>2. Cardinality(C) \in Nat /\ Cardinality(Counted \ reused) \in Nat
          BY <2>1, <3>1, FS_CardinalityType
    <3>. QED BY <3>1, <3>2, ModelGatewayAssumption DEF CallsWithinLimit
  <2>3. ASSUME NEW k, Cardinality(Counted) < CallLimit, C \subseteq Counted \cup {k}
        PROVE  CallsWithinLimit'
    <3>1. /\ IsFiniteSet(Counted \cup {k}) /\ Cardinality(Counted) \in Nat
          /\ Cardinality(Counted \cup {k}) \in {Cardinality(Counted), Cardinality(Counted) + 1}
          BY <2>1, FS_AddElement, FS_CardinalityType
    <3>2. Cardinality(C) <= Cardinality(Counted \cup {k}) /\ IsFiniteSet(C)
          BY <2>3, <3>1, FS_Subset
    <3>3. Cardinality(C) \in Nat
          BY <3>2, FS_CardinalityType
    <3>. QED BY <2>3, <3>1, <3>2, <3>3, ModelGatewayAssumption DEF CallsWithinLimit
  <2>. QED BY <2>2, <2>3, CountSteps
<1>. QED BY <1>1, <1>2, TypeAlways, PTL DEF Spec

(***************************************************************************)
(* The answer of an operation                                              *)
(***************************************************************************)

\* What is written under an operation that is not completed is neither a first
\* answer, nor does anything but a completion replace an answer.
SameAnswers == \A op \in Ops : Answers(op)' = Answers(op)

LEMMA RecordReplaced ==
  ASSUME ApiTypes, NEW op \in Ops, journal[op].status # "completed",
         NEW r \in RecordType, r.status # "completed", journal' = [journal EXCEPT ![op] = r]
  PROVE  SameAnswers
<1>1. journal'[op] = r /\ \A x \in Ops \ {op} : journal'[x] = journal[x]
      BY DEF ApiTypes, Books
<1>2. \A x \in Ops \ {op} : Answers(x)' = Answers(x)
      BY <1>1 DEF Answers
<1>3. Answers(op)' = {} /\ Answers(op) = {}
      BY <1>1 DEF Answers
<1>. QED BY <1>2, <1>3 DEF SameAnswers

LEMMA JournalUnchanged == journal' = journal => SameAnswers
BY DEF SameAnswers, Answers

LEMMA AppliedKeepsAnswers ==
  ASSUME TypeInv, NEW h \in Handlers, Flushing(h), Applied(h, First(h))
  PROVE  SameAnswers
<1>. DEFINE op == inv[h].op
            n  == First(h).n
<1>0. op \in Ops /\ n \in Nat /\ ApiTypes
      BY FirstPost DEF TypeInv
<1>. HIDE DEF op, n
<1>1. CASE ReserveAttempt(op, n)
  <2>1. /\ Listing(op, n) \in RecordType /\ Longer(op, n) \in RecordType
        /\ Listing(op, n).status = "reserved" /\ Longer(op, n).status = journal[op].status
        BY <1>0, RecordsGiven
  <2>2. CASE journal' = journal
        BY <2>2, JournalUnchanged
  <2>3. CASE journal[op].status = "dispatched" /\ journal' = [journal EXCEPT ![op] = Longer(op, n)]
        BY <1>0, <2>1, <2>3, RecordReplaced
  <2>4. CASE /\ journal[op].status \in {"absent", "reserved", "failed"}
             /\ journal' = [journal EXCEPT ![op] = Listing(op, n)]
        BY <1>0, <2>1, <2>4, RecordReplaced
  <2>. QED BY <1>0, <1>1, <2>2, <2>3, <2>4, ReserveAttemptEffect
<1>2. CASE Transition(op, {"reserved"}, Dispatched(op))
  <2>1. Dispatched(op) \in RecordType /\ Dispatched(op).status = "dispatched"
        BY <1>0, RecordsGiven
  <2>2. journal[op].status # "completed" /\ journal' = [journal EXCEPT ![op] = Dispatched(op)]
        BY <1>2, <2>1 DEF Transition
  <2>. QED BY <1>0, <2>1, <2>2, RecordReplaced
<1>3. CASE journal' = journal
      BY <1>3, JournalUnchanged
<1>. QED BY <1>1, <1>2, <1>3, AppliedEffect DEF op, n

\* The two steps that change answers or tell them.
LEMMA AnswerSteps ==
  ASSUME TypeInv, [Next]_vars
  PROVE  \/ SameAnswers /\ told' = told
         \/ \E h \in Handlers : LookupAnswers(h) /\ SameAnswers
         \/ \E h \in Handlers : CompletedPosted(h)
<1>0. ApiTypes
      BY DEF TypeInv
<1>1. SameAnswers \/ \E h \in Handlers : CompletedPosted(h)
  <2>1. ASSUME NEW h \in Handlers, FailurePosted(h)
        PROVE  SameAnswers
    <3>. DEFINE op == inv[h].op
                r  == Failed(op, inv[h].err)
    <3>1. inv[h] \in InvocationType /\ op \in Ops
          BY <2>1 DEF TypeInv, InvocationTypes, FailurePosted
    <3>2. inv[h].err \in ErrorType
          BY <3>1 DEF InvocationType, ErrorType
    <3>3. r \in RecordType /\ r.status \in {"failed", "uncertain"}
          BY <1>0, <3>1, <3>2, RecordsGiven
    <3>4. /\ journal[op].status \in {"reserved", "dispatched"} \/ journal[op] = r
          /\ journal' = [journal EXCEPT ![op] = r]
          BY <2>1 DEF FailurePosted, Transition
    <3>. HIDE DEF op, r
    <3>. QED BY <1>0, <3>1, <3>3, <3>4, RecordReplaced
  <2>2. ASSUME NEW h \in Handlers, ReserveHalfDone(h) \/ OtherLimitRefuses(h)
        PROVE  SameAnswers
        BY <2>2, JournalUnchanged DEF ReserveHalfDone, OtherLimitRefuses
  <2>. QED BY <2>1, <2>2, Writers, AppliedKeepsAnswers, JournalUnchanged
<1>2. told' = told \/ \E h \in Handlers : CompletedPosted(h) \/ LookupAnswers(h)
  <2>1. CASE \E h \in Handlers : Step(h)
    <3>1. PICK h \in Handlers : Step(h)
          BY <2>1
    <3>2. CASE \/ LookupStarts(h) \/ LookupFails(h) \/ PostAnswered(h) \/ PostAnswerLost(h)
               \/ PostLost(h) \/ PostRefused(h) \/ PostTooOld(h) \/ ReserveHalfDone(h)
               \/ OtherLimitRefuses(h) \/ ProviderAnswers(h) \/ ProviderFails(h)
               \/ CompletedNotPosted(h) \/ FailurePosted(h) \/ FailureNotPosted(h)
          BY <3>2 DEF LookupStarts, LookupFails, PostAnswered, PostAnswerLost, PostLost,
            PostRefused, PostTooOld, ReserveHalfDone, OtherLimitRefuses, ProviderAnswers,
            ProviderFails, CompletedNotPosted, FailurePosted, FailureNotPosted, PostRaises, history
    <3>. QED BY <3>1, <3>2 DEF Step
  <2>2. CASE \E h \in Handlers : Cancel(h) \/ \E op \in Ops : Invoke(h, op)
        BY <2>2 DEF Cancel, Abandon, Invoke
  <2>3. CASE \/ TakeOver \/ EngineLeaves \/ Evict \/ GatewayRestart
             \/ \E token \in 1 .. MaxFence : Register(token)
        BY <2>3 DEF TakeOver, EngineLeaves, Evict, GatewayRestart, Abandon, Register, history
  <2>4. CASE UNCHANGED vars
        BY <2>4 DEF vars, history
  <2>. QED BY <2>1, <2>2, <2>3, <2>4 DEF Next
<1>3. ASSUME NEW h \in Handlers, LookupAnswers(h)
      PROVE  SameAnswers
      BY <1>3, JournalUnchanged DEF LookupAnswers, api
<1>. QED BY <1>1, <1>2, <1>3

\* Callers, old engines, repeated posts and two locks on one operation can
\* neither give it a second answer nor hear another one (operations.py:111-144).
THEOREM GatewayImplementsAnswer == Spec => ImplementsAnswer
<1>. DEFINE dec == [op \in Ops |-> Answers(op)]
<1>1. Init => Answer!Init
  <2>. SUFFICES ASSUME Init PROVE Answer!Init
       OBVIOUS
  <2>1. \A op \in Ops : Answers(op) = {}
        BY DEF Init, Answers, NoRecord
  <2>. QED BY <2>1 DEF Init, Answer!Init
<1>2. TypeInv /\ [Next]_vars => [Answer!Next]_(Answer!vars)
  <2>. SUFFICES ASSUME TypeInv, [Next]_vars
                PROVE  [Answer!Next]_(Answer!vars)
       OBVIOUS
  <2>1. SameAnswers => dec' = dec
        BY DEF SameAnswers
  <2>2. CASE SameAnswers /\ told' = told
        BY <2>1, <2>2 DEF Answer!vars
  <2>3. ASSUME NEW h \in Handlers, LookupAnswers(h), SameAnswers
        PROVE  [Answer!Next]_(Answer!vars)
    <3>. DEFINE op == inv[h].op
    <3>1. op \in Ops
          BY <2>3 DEF TypeInv, InvocationTypes, LookupAnswers, Looking
    <3>2. CASE journal[op].status = "completed"
      <4>1. Answers(op) = {journal[op].answer} /\ told' = told \cup {<<op, journal[op].answer>>}
            BY <2>3, <3>2 DEF Answers, LookupAnswers
      <4>2. Answer!Tell(op)
            BY <2>1, <2>3, <3>1, <4>1 DEF Answer!Tell, Answer!Tells
      <4>. QED BY <3>1, <4>2 DEF Answer!Next
    <3>3. CASE journal[op].status # "completed"
      <4>1. told' = told
            BY <2>3, <3>3 DEF LookupAnswers
      <4>. QED BY <2>1, <2>3, <4>1 DEF Answer!vars
    <3>. QED BY <3>2, <3>3
  <2>4. ASSUME NEW h \in Handlers, CompletedPosted(h)
        PROVE  [Answer!Next]_(Answer!vars)
    <3>1. PICK op \in Ops, c \in Nat :
            /\ Transition(op, {"dispatched"}, Completed(op, c))
            /\ told' = told \cup {<<op, c>>} \/ told' = told
      <4>1. inv[h] \in InvocationType /\ inv[h].op \in Ops
            BY <2>4 DEF TypeInv, InvocationTypes, CompletedPosted
      <4>2. inv[h].call \in Nat
            BY <4>1 DEF InvocationType
      <4>. QED BY <2>4, <4>1, <4>2 DEF CompletedPosted
    <3>2. PICK r \in RecordType :
            /\ r.status = "completed" /\ r.answer = c
            /\ journal[op].status = "dispatched" \/ journal[op] = r
            /\ journal' = [journal EXCEPT ![op] = r]
      <4>1. ApiTypes
            BY DEF TypeInv
      <4>2. Completed(op, c) \in RecordType /\ Completed(op, c).status = "completed"
            /\ Completed(op, c).answer = c
            BY <4>1, RecordsGiven
      <4>. QED BY <3>1, <4>2 DEF Transition
    <3>4. journal'[op] = r /\ \A x \in Ops \ {op} : journal'[x] = journal[x]
          BY <3>2 DEF TypeInv, ApiTypes, Books
    <3>5. Answers(op)' = {c} /\ \A x \in Ops \ {op} : Answers(x)' = Answers(x)
          BY <3>2, <3>4 DEF Answers
    <3>6. dec' = [dec EXCEPT ![op] = {c}]
          BY <3>1, <3>5
    <3>7. CASE journal[op].status = "dispatched"
      <4>1. Answers(op) = {}
            BY <3>7 DEF Answers
      <4>2. Answer!Decide(op)
            BY <3>1, <3>5, <3>6, <4>1 DEF Answer!Decide, Answer!Tells
      <4>. QED BY <3>1, <4>2 DEF Answer!Next
    <3>8. CASE journal[op] = r
      <4>1. Answers(op) = {c}
            BY <3>2, <3>8 DEF Answers
      <4>2. dec' = dec
            BY <3>5, <4>1
      <4>3. CASE told' = told
            BY <4>2, <4>3 DEF Answer!vars
      <4>4. CASE told' = told \cup {<<op, c>>}
        <5>1. Answer!Tell(op)
              BY <3>1, <4>1, <4>2, <4>4 DEF Answer!Tell, Answer!Tells
        <5>. QED BY <3>1, <5>1 DEF Answer!Next
      <4>. QED BY <3>1, <4>3, <4>4
    <3>. QED BY <3>2, <3>7, <3>8
  <2>. QED BY <2>2, <2>3, <2>4, AnswerSteps
<1>. QED BY <1>1, <1>2, TypeAlways, PTL DEF Spec, ImplementsAnswer, Answer!Spec

(***************************************************************************)
(* The locks, and the attempts that are open                               *)
(***************************************************************************)

\* A step of an invocation: whoever takes one has nobody ahead of it.
LEMMA StepWorks ==
  ASSUME TypeInv, NEW h \in Handlers, Step(h)
  PROVE  /\ exposed' = exposed /\ abandoned' = abandoned
         /\ Looking(h) \/ Working(inv[h])
<1>1. CASE \/ LookupStarts(h) \/ LookupAnswers(h) \/ LookupFails(h)
      BY <1>1 DEF LookupStarts, LookupAnswers, LookupFails, history
<1>2. CASE \/ PostAnswered(h) \/ PostAnswerLost(h) \/ PostLost(h) \/ PostRefused(h)
           \/ PostTooOld(h) \/ ReserveHalfDone(h) \/ OtherLimitRefuses(h)
      BY <1>2 DEF PostAnswered, PostAnswerLost, PostLost, PostRefused, PostTooOld,
        ReserveHalfDone, OtherLimitRefuses, PostRaises, Flushing, Working
<1>3. CASE \/ ProviderAnswers(h) \/ ProviderFails(h) \/ CompletedPosted(h)
           \/ CompletedNotPosted(h) \/ FailurePosted(h) \/ FailureNotPosted(h)
      BY <1>3 DEF ProviderAnswers, ProviderFails, CompletedPosted, CompletedNotPosted,
        FailurePosted, FailureNotPosted, history, Working
<1>. QED BY <1>1, <1>2, <1>3 DEF Step

\* An attempt is opened by an invocation with authority, for which the record
\* says so.
LEMMA OpenMoves ==
  ASSUME TypeInv, NEW h \in Handlers, Step(h)
  PROVE  \/ Leave({h})
         \/ \E j : /\ Moved(h, j)
                   /\ \/ /\ Looking(h) /\ Authority(h) /\ Startable(inv[h].op)
                         /\ j.pc = "begin" /\ journal' = journal
                      \/ Working(inv[h])
                   /\ j.pc \in Underway =>
                        \/ inv[h].pc \in Underway
                        \/ /\ inv[h].pc = "begin" /\ j.pc = "call" /\ Authority(h)
                           /\ journal'[inv[h].op].status = "dispatched"
                   /\ inv[h].pc = "begin" /\ j.pc = "call" => Authority(h)
<1>. USE DEF Underway
<1>1. CASE LookupStarts(h)
      BY <1>1, LookupMoves DEF LookupStarts, Looking, api
<1>2. CASE LookupAnswers(h) \/ LookupFails(h)
      BY <1>2 DEF LookupAnswers, LookupFails
<1>3. CASE PostAnswered(h)
  <2>1. Working(inv[h]) /\ Flushing(h) /\ Authority(h) /\ Applied(h, First(h)) /\ inv[h].op \in Ops
        BY <1>3, FirstPost DEF PostAnswered, Flushing, Working
  <2>2. First(h).kind = "dispatched" => journal'[inv[h].op].status = "dispatched"
    <3>1. ASSUME First(h).kind = "dispatched" PROVE journal'[inv[h].op].status = "dispatched"
      <4>1. journal' = [journal EXCEPT ![inv[h].op] = Dispatched(inv[h].op)]
            BY <2>1, <3>1, AppliedEffect DEF Transition
      <4>2. Dispatched(inv[h].op).status = "dispatched"
            BY <2>1, RecordsGiven DEF TypeInv
      <4>. QED BY <2>1, <4>1, <4>2 DEF TypeInv, ApiTypes, Books
    <3>. QED BY <3>1
  <2>. QED BY <1>3, <2>1, <2>2, AnswerMoves
<1>4. CASE \/ PostAnswerLost(h) \/ PostLost(h) \/ PostRefused(h) \/ PostTooOld(h)
           \/ ReserveHalfDone(h) \/ OtherLimitRefuses(h)
      BY <1>4, PostsRaise, RaiseMoves DEF Raises, Flushing, Working
<1>5. CASE ProviderAnswers(h) \/ ProviderFails(h)
      BY <1>5, ProviderMoves DEF Working
<1>6. CASE CompletedPosted(h) \/ CompletedNotPosted(h)
      BY <1>6, CompletionMoves DEF Working
<1>7. CASE FailurePosted(h) \/ FailureNotPosted(h)
      BY <1>7 DEF FailurePosted, FailureNotPosted
<1>. QED BY <1>1, <1>2, <1>3, <1>4, <1>5, <1>6, <1>7 DEF Step

\* A dispatched record changes its status at the end of an invocation with
\* authority only.
LEMMA Closes ==
  ASSUME TypeInv, NEW h \in Handlers, Step(h), NEW op \in Ops,
         journal[op].status = "dispatched", journal'[op].status # "dispatched"
  PROVE  inv[h].op = op /\ Authority(h) /\ Working(inv[h]) /\ inv'[h].pc \in {"idle", "end"}
<1>0. ApiTypes
      BY DEF TypeInv
<1>1. ASSUME Flushing(h), Applied(h, First(h))
      PROVE  FALSE
  <2>. DEFINE o == inv[h].op
              n == First(h).n
  <2>1. o \in Ops /\ n \in Nat
        BY <1>1, FirstPost
  <2>. HIDE DEF o, n
  <2>2. /\ Longer(o, n) \in RecordType /\ Longer(o, n).status = journal[o].status
        /\ Dispatched(o).status = "dispatched"
        BY <1>0, <2>1, RecordsGiven
  <2>3. CASE ReserveAttempt(o, n)
    <3>1. CASE journal' = [journal EXCEPT ![o] = Longer(o, n)]
          BY <1>0, <2>1, <2>2, <3>1 DEF ApiTypes, Books
    <3>2. CASE /\ journal[o].status \in {"absent", "reserved", "failed"}
               /\ journal' = [journal EXCEPT ![o] = Listing(o, n)]
          BY <1>0, <2>1, <3>2 DEF ApiTypes, Books
    <3>. QED BY <1>0, <2>1, <2>3, <3>1, <3>2, ReserveAttemptEffect
  <2>4. CASE Transition(o, {"reserved"}, Dispatched(o))
        BY <1>0, <2>1, <2>2, <2>4 DEF Transition, ApiTypes, Books
  <2>. QED BY <1>1, <2>3, <2>4, AppliedEffect DEF o, n
<1>2. CompletedPosted(h) \/ FailurePosted(h)
      BY <1>1, StepWrites DEF ReserveHalfDone, OtherLimitRefuses
<1>3. inv[h].op = op
  <2>1. \E r : journal' = [journal EXCEPT ![inv[h].op] = r]
        BY <1>2 DEF CompletedPosted, FailurePosted, Transition
  <2>. QED BY <1>0, <2>1 DEF ApiTypes, Books
<1>4. Authority(h) /\ Working(inv[h])
      BY <1>2 DEF CompletedPosted, FailurePosted, Working
<1>5. CASE Leave({h})
  <2>1. inv'[h].pc = "idle"
        BY <1>5, LeaveEffect, IdleShape DEF TypeInv
  <2>. QED BY <1>3, <1>4, <2>1
<1>6. CASE \E j : Moved(h, j) /\ j.pc = "end"
  <2>1. inv'[h].pc = "end"
        BY <1>6 DEF Moved, Become, TypeInv, InvocationTypes
  <2>. QED BY <1>3, <1>4, <2>1
<1>. QED BY <1>2, <1>5, <1>6, CompletionMoves DEF FailurePosted

LockInv ==
  /\ \A h \in Handlers : Working(inv[h]) => inv[h].ahead = {}
  /\ \A g, h \in Busy :
       /\ g # h /\ inv[g].op = inv[h].op /\ inv[g].fence = inv[h].fence
       /\ inv[g].op \notin exposed
       => g \in inv[h].ahead \/ h \in inv[g].ahead

\* Where the steps of Next come from.
LEMMA Actors ==
  ASSUME [Next]_vars
  PROVE  \/ \E h \in Handlers : Step(h)
         \/ \E h \in Handlers, op \in Ops : Invoke(h, op)
         \/ \E S \in SUBSET Handlers : Abandon(S)
         \/ /\ TakeOver \/ EngineLeaves \/ Evict \/ \E token \in 1 .. MaxFence : Register(token)
            /\ UNCHANGED <<inv, journal, ledger, history>>
         \/ UNCHANGED vars
<1>1. CASE \E h \in Handlers : Cancel(h)
      BY <1>1 DEF Cancel
<1>2. CASE GatewayRestart
      BY <1>2 DEF GatewayRestart
<1>3. CASE TakeOver \/ EngineLeaves \/ Evict \/ \E token \in 1 .. MaxFence : Register(token)
      BY <1>3 DEF TakeOver, EngineLeaves, Evict, Register, api
<1>. QED BY <1>1, <1>2, <1>3 DEF Next

LEMMA LockInit == Init => LockInv
BY IdleShape DEF Init, LockInv, Busy, Working

LEMMA InvokeEffect ==
  ASSUME TypeInv, NEW h \in Handlers, NEW op \in Ops, Invoke(h, op)
  PROVE  /\ \A g \in Handlers \ {h} : inv'[g] = inv[g]
         /\ inv'[h].pc = "lookup" /\ inv'[h].op = op /\ inv'[h].fence = reg
         /\ inv'[h].ahead = {g \in listed : inv[g].op = op}
         /\ Busy' = Busy \cup {h} /\ exposed \subseteq exposed'
         /\ UNCHANGED <<fence, active, journal, ledger, calls, told, abandoned, reused>>
<1>1. inv' = [inv EXCEPT ![h] = [Idle EXCEPT !.pc = "lookup", !.op = op, !.fence = reg,
                                             !.ahead = {g \in listed : inv[g].op = op}]]
      BY DEF Invoke, Become
<1>2. /\ \A g \in Handlers \ {h} : inv'[g] = inv[g]
      /\ inv'[h].pc = "lookup" /\ inv'[h].op = op /\ inv'[h].fence = reg
      /\ inv'[h].ahead = {g \in listed : inv[g].op = op}
      BY <1>1 DEF TypeInv, InvocationTypes, Idle
<1>3. Busy' = Busy \cup {h}
      BY <1>2 DEF Busy
<1>4. exposed \subseteq exposed'
      BY DEF Invoke
<1>. QED BY <1>2, <1>3, <1>4 DEF Invoke, api

LEMMA LockStep == TypeInv /\ LockInv /\ [Next]_vars => LockInv'
<1>. SUFFICES ASSUME TypeInv, LockInv, [Next]_vars PROVE LockInv'
     OBVIOUS
<1>1. ASSUME NEW S \in SUBSET Handlers, Leave(S), exposed' = exposed
      PROVE  LockInv'
  <2>1. /\ Busy' = Busy \ S /\ \A g \in S : inv'[g] = Idle
        /\ \A g \in Handlers \ S :
             /\ inv'[g].pc = inv[g].pc /\ inv'[g].op = inv[g].op
             /\ inv'[g].fence = inv[g].fence /\ inv'[g].ahead = inv[g].ahead \ S
        BY <1>1, LeaveEffect DEF TypeInv
  <2>2. ASSUME NEW h \in Handlers, Working(inv'[h]) PROVE inv'[h].ahead = {}
        BY <2>1, <2>2, IdleShape DEF LockInv, Working
  <2>3. ASSUME NEW g \in Busy', NEW h \in Busy', g # h, inv'[g].op = inv'[h].op,
               inv'[g].fence = inv'[h].fence, inv'[g].op \notin exposed'
        PROVE  g \in inv'[h].ahead \/ h \in inv'[g].ahead
        BY <1>1, <2>1, <2>3 DEF LockInv, Busy
  <2>. QED BY <2>2, <2>3 DEF LockInv
<1>2. ASSUME NEW h \in Handlers, Step(h)
      PROVE  LockInv'
  <2>1. exposed' = exposed /\ inv[h].ahead = {} /\ inv[h].pc # "idle"
        BY <1>2, StepWorks, StepMoves DEF Looking, LockInv
  <2>2. ASSUME NEW j, Moved(h, j) PROVE LockInv'
    <3>1. /\ \A g \in Handlers \ {h} : inv'[g] = inv[g]
          /\ inv'[h].op = inv[h].op /\ inv'[h].fence = inv[h].fence
          /\ inv'[h].ahead = inv[h].ahead /\ inv'[h].pc # "idle"
          BY <2>2 DEF Moved, Become, Same, Working, TypeInv, InvocationTypes
    <3>2. Busy' = Busy
          BY <2>1, <3>1 DEF Busy
    <3>3. \A g \in Handlers : /\ inv'[g].op = inv[g].op /\ inv'[g].fence = inv[g].fence
                              /\ inv'[g].ahead = inv[g].ahead
          BY <3>1
    <3>4. \A g \in Handlers : Working(inv'[g]) => inv'[g].ahead = {}
          BY <2>1, <3>1 DEF LockInv
    <3>. QED BY <2>1, <3>2, <3>3, <3>4 DEF LockInv, Busy
  <2>. QED BY <1>1, <1>2, <2>1, <2>2, StepMoves
<1>3. ASSUME NEW h \in Handlers, NEW op \in Ops, Invoke(h, op)
      PROVE  LockInv'
  <2>1. /\ \A g \in Handlers \ {h} : inv'[g] = inv[g]
        /\ inv'[h].pc = "lookup" /\ inv'[h].op = op /\ inv'[h].fence = reg
        /\ inv'[h].ahead = {g \in listed : inv[g].op = op}
        /\ Busy' = Busy \cup {h} /\ exposed \subseteq exposed'
        BY <1>3, InvokeEffect
  <2>2. ASSUME NEW g \in Handlers, Working(inv'[g]) PROVE inv'[g].ahead = {}
        BY <2>1, <2>2 DEF LockInv, Working
  <2>3. ASSUME NEW g \in Busy, g # h, inv[g].op = op, inv[g].fence = reg, op \notin exposed'
        PROVE  g \in inv'[h].ahead
        BY <1>3, <2>1, <2>3 DEF Invoke
  <2>4. ASSUME NEW g \in Busy', NEW k \in Busy', g # k, inv'[g].op = inv'[k].op,
               inv'[g].fence = inv'[k].fence, inv'[g].op \notin exposed'
        PROVE  g \in inv'[k].ahead \/ k \in inv'[g].ahead
    <3>1. CASE k = h
          BY <2>1, <2>3, <2>4, <3>1 DEF Busy
    <3>2. CASE g = h
          BY <2>1, <2>3, <2>4, <3>2 DEF Busy
    <3>3. CASE g # h /\ k # h
          BY <2>1, <2>4, <3>3 DEF LockInv, Busy
    <3>. QED BY <3>1, <3>2, <3>3
  <2>. QED BY <2>2, <2>4 DEF LockInv
<1>4. CASE \E S \in SUBSET Handlers : Abandon(S)
      BY <1>1, <1>4 DEF Abandon
<1>5. CASE UNCHANGED <<inv, exposed>>
      BY <1>5 DEF LockInv, Busy
<1>. QED BY <1>2, <1>3, <1>4, <1>5, Actors DEF history, vars

\* At work on an operation in the newest epoch.
InCharge(h) == Working(inv[h]) /\ inv[h].fence = fence /\ inv[h].op \notin exposed

OpenInv ==
  /\ \A h \in Handlers :
       inv[h].pc \in Underway /\ inv[h].op \notin exposed => journal[inv[h].op].status = "dispatched"
  /\ \A op \in Ops : op \in abandoned /\ op \notin exposed => journal[op].status = "dispatched"
  /\ \A h \in Handlers : InCharge(h) =>
       /\ inv[h].op \notin abandoned
       /\ \A g \in Handlers \ {h} : inv[g].op = inv[h].op => inv[g].pc \notin Underway

LEMMA OneInCharge ==
  ASSUME LockInv, NEW h \in Handlers, InCharge(h), NEW g \in Handlers, Working(inv[g]),
         inv[g].op = inv[h].op, inv[g].fence = fence
  PROVE  g = h
BY DEF LockInv, InCharge, Busy, Working

LEMMA OpenInit == Init => OpenInv
BY IdleShape DEF Init, OpenInv, Underway, InCharge, Working

LEMMA OpenStep == TypeInv /\ LockInv /\ OpenInv /\ [Next]_vars => OpenInv'
<1>. SUFFICES ASSUME TypeInv, LockInv, OpenInv, [Next]_vars PROVE OpenInv'
     OBVIOUS
<1>0. /\ \A h \in Handlers : inv[h].pc \in Underway => inv[h].op \in Ops /\ Working(inv[h])
      /\ \A h \in Handlers : Working(inv[h]) => inv[h].op \in Ops
      BY DEF TypeInv, InvocationTypes, Underway, Working
<1>1. ASSUME NEW h \in Handlers, Step(h)
      PROVE  OpenInv'
  <2>1. /\ exposed' = exposed /\ abandoned' = abandoned /\ fence' = fence
        /\ inv[h].op \in Ops /\ inv[h].pc # "idle"
        BY <1>1, StepWorks, StepMoves, StepKeepsEpoch DEF TypeInv, InvocationTypes
  <2>2. \A g \in Handlers \ {h} : /\ inv'[g].pc = inv[g].pc /\ inv'[g].op = inv[g].op
                                  /\ inv'[g].fence = inv[g].fence
    <3>1. CASE Leave({h})
          BY <3>1, LeaveEffect DEF TypeInv
    <3>2. CASE \E j : Moved(h, j)
          BY <3>2 DEF Moved, Become, TypeInv, InvocationTypes
    <3>. QED BY <1>1, <3>1, <3>2, StepMoves
  \* what the step does to its own invocation
  <2>3. /\ \/ inv'[h].pc = "idle"
           \/ /\ inv'[h].op = inv[h].op /\ inv'[h].fence = inv[h].fence
              /\ \/ Working(inv[h])
                 \/ /\ Authority(h) /\ Startable(inv[h].op)
                    /\ inv'[h].pc = "begin" /\ journal' = journal
        /\ inv'[h].pc \in Underway =>
             \/ inv[h].pc \in Underway
             \/ Working(inv[h]) /\ Authority(h) /\ journal'[inv[h].op].status = "dispatched"
    <3>1. CASE Leave({h})
      <4>1. inv'[h].pc = "idle"
            BY <3>1, LeaveEffect, IdleShape DEF TypeInv
      <4>. QED BY <4>1 DEF Underway
    <3>2. ASSUME NEW j, Moved(h, j) PROVE inv'[h] = j /\ j.op = inv[h].op /\ j.fence = inv[h].fence
          BY <3>2 DEF Moved, Become, Same, TypeInv, InvocationTypes
    <3>. QED BY <1>1, <3>1, <3>2, OpenMoves DEF Working, Underway
  \* nobody else has an open attempt when one with authority ends
  <2>4. ASSUME NEW op \in Ops, op \notin exposed, journal[op].status = "dispatched",
               journal'[op].status # "dispatched"
        PROVE  /\ op \notin abandoned /\ inv[h].op = op /\ inv'[h].pc \in {"idle", "end"}
               /\ \A g \in Handlers \ {h} : inv[g].op = op => inv[g].pc \notin Underway
    <3>1. inv[h].op = op /\ Authority(h) /\ Working(inv[h]) /\ inv'[h].pc \in {"idle", "end"}
          BY <1>1, <2>4, Closes
    <3>2. InCharge(h)
          BY <2>4, <3>1 DEF InCharge, Authority
    <3>. QED BY <3>1, <3>2 DEF OpenInv
  <2>5. ASSUME NEW g \in Handlers, inv'[g].pc \in Underway, inv'[g].op \notin exposed'
        PROVE  journal'[inv'[g].op].status = "dispatched"
    <3>1. CASE g # h
          BY <1>0, <2>1, <2>2, <2>4, <2>5, <3>1 DEF OpenInv
    <3>2. CASE g = h
      <4>1. inv'[h].pc \notin {"idle", "end"} /\ inv'[h].op = inv[h].op
            BY <2>3, <2>5, <3>2 DEF Underway
      <4>2. CASE inv[h].pc \in Underway
            BY <2>1, <2>4, <2>5, <3>2, <4>1, <4>2 DEF OpenInv
      <4>. QED BY <2>3, <2>5, <3>2, <4>1, <4>2
    <3>. QED BY <3>1, <3>2
  <2>6. ASSUME NEW op \in Ops, op \in abandoned', op \notin exposed'
        PROVE  journal'[op].status = "dispatched"
        BY <2>1, <2>4, <2>6 DEF OpenInv
  <2>7. ASSUME NEW k \in Handlers, InCharge(k)'
        PROVE  /\ inv'[k].op \notin abandoned'
               /\ \A g \in Handlers \ {k} : inv'[g].op = inv'[k].op => inv'[g].pc \notin Underway
    <3>. DEFINE op == inv'[k].op
    <3>1. op \notin exposed /\ inv'[k].fence = fence /\ Working(inv'[k])
          BY <2>1, <2>7 DEF InCharge
    <3>2. CASE k # h
      <4>1. InCharge(k) /\ op = inv[k].op
            BY <2>1, <2>2, <3>1, <3>2 DEF InCharge, Working
      <4>2. op \notin abandoned' /\ \A g \in Handlers \ {k} : inv[g].op = op => inv[g].pc \notin Underway
            BY <2>1, <4>1 DEF OpenInv
      <4>3. ASSUME inv'[h].op = op, inv'[h].pc \in Underway PROVE FALSE
        <5>1. inv'[h].op = inv[h].op
              BY <2>3, <4>3 DEF Underway
        <5>2. Working(inv[h]) /\ Authority(h)
              BY <2>3, <3>2, <4>2, <4>3, <5>1
        <5>. QED BY <3>2, <4>1, <4>3, <5>1, <5>2, OneInCharge DEF Authority
      <4>. QED BY <2>2, <4>2, <4>3
    <3>3. CASE k = h
      <4>1. op = inv[h].op /\ inv[h].fence = fence /\ inv'[h].pc # "idle"
            BY <2>3, <3>1, <3>3 DEF Working
      <4>2. CASE Working(inv[h])
        <5>1. InCharge(h)
              BY <3>1, <4>1, <4>2 DEF InCharge
        <5>. QED BY <2>1, <2>2, <3>3, <4>1, <5>1 DEF OpenInv
      <4>3. CASE Startable(inv[h].op)
        <5>1. journal[op].status # "dispatched"
              BY <4>1, <4>3 DEF Startable
        <5>. QED BY <2>1, <2>2, <3>1, <3>3, <4>1, <5>1 DEF OpenInv
      <4>. QED BY <2>3, <4>1, <4>2, <4>3
    <3>. QED BY <3>2, <3>3
  <2>. QED BY <2>5, <2>6, <2>7 DEF OpenInv
<1>2. ASSUME NEW h \in Handlers, NEW op \in Ops, Invoke(h, op)
      PROVE  OpenInv'
  <2>1. /\ \A g \in Handlers \ {h} : inv'[g] = inv[g]
        /\ inv'[h].pc = "lookup" /\ exposed \subseteq exposed'
        /\ UNCHANGED <<fence, journal, abandoned>>
        BY <1>2, InvokeEffect
  <2>2. \A g \in Handlers : /\ inv'[g].pc \in Underway => g # h
                            /\ InCharge(g)' => g # h /\ InCharge(g)
        BY <2>1 DEF Underway, InCharge, Working
  <2>. QED BY <2>1, <2>2 DEF OpenInv
<1>3. ASSUME NEW S \in SUBSET Handlers, Abandon(S)
      PROVE  OpenInv'
  <2>1. /\ exposed' = exposed /\ fence' = fence /\ journal' = journal
        /\ abandoned' = abandoned \cup {inv[h].op : h \in {g \in S : inv[g].pc \in Underway}}
        BY <1>3 DEF Abandon, api
  <2>2. /\ \A g \in S : inv'[g].pc = "idle"
        /\ \A g \in Handlers \ S : /\ inv'[g].pc = inv[g].pc /\ inv'[g].op = inv[g].op
                                   /\ inv'[g].fence = inv[g].fence
        BY <1>3, LeaveEffect, IdleShape DEF Abandon, TypeInv
  <2>3. \A g \in Handlers : /\ inv'[g].pc \in Underway => g \notin S /\ inv[g].pc \in Underway
                            /\ InCharge(g)' => g \notin S /\ InCharge(g)
        BY <2>1, <2>2 DEF Underway, InCharge, Working
  <2>. QED BY <1>0, <2>1, <2>2, <2>3 DEF OpenInv
<1>4. ASSUME \/ TakeOver \/ EngineLeaves \/ Evict \/ \E token \in 1 .. MaxFence : Register(token),
             UNCHANGED <<inv, journal, ledger, history>>
      PROVE  OpenInv'
  <2>1. fence' = fence \/ fence' = fence + 1
        BY <1>4 DEF TakeOver, EngineLeaves, Evict, Register, api
  <2>2. \A h \in Handlers : InCharge(h)' => InCharge(h)
    <3>1. \A h \in Handlers : inv[h].fence <= fence /\ inv[h].fence \in Nat /\ fence \in Nat
          BY ModelGatewayAssumption DEF TypeInv, InvocationTypes, InvocationType, EpochTypes
    <3>. QED BY <1>4, <2>1, <3>1 DEF InCharge, history
  <2>. QED BY <1>4, <2>2 DEF OpenInv, history
<1>5. CASE UNCHANGED vars
      BY <1>5 DEF OpenInv, InCharge, vars, api, history
<1>. QED BY <1>1, <1>2, <1>3, <1>4, <1>5, Actors

LEMMA OpenAlways == Spec => [](TypeInv /\ LockInv /\ OpenInv)
<1>1. Init => TypeInv /\ LockInv /\ OpenInv
      BY TypeInit, LockInit, OpenInit
<1>2. TypeInv /\ LockInv /\ OpenInv /\ [Next]_vars => (TypeInv /\ LockInv /\ OpenInv)'
      BY TypeStep, LockStep, OpenStep
<1>. QED BY <1>1, <1>2, PTL DEF Spec

\* An invocation calls the provider when no other one is between its call and
\* its outcome, and when none was left there (gateway.py:1133-1140).  The lock
\* keeps apart the invocations of an epoch, the token of the newest engine the
\* epochs, and what is left open shows as a dispatched record.
THEOREM NoBlindRepeatEver == Spec => NoBlindRepeat
<1>. DEFINE Careful ==
       \A h \in Handlers : LET op == inv[h].op IN
         inv[h].pc = "begin" /\ inv'[h].pc = "call" /\ op \notin exposed =>
           /\ op \notin abandoned
           /\ \A g \in Handlers \ {h} : inv[g].op = op => inv[g].pc \notin Underway
<1>1. TypeInv /\ LockInv /\ OpenInv /\ [Next]_vars => [Careful]_vars
  <2>. SUFFICES ASSUME TypeInv, LockInv, OpenInv, [Next]_vars, NEW h \in Handlers,
                       inv[h].pc = "begin", inv'[h].pc = "call", inv[h].op \notin exposed
                PROVE  /\ inv[h].op \notin abandoned
                       /\ \A g \in Handlers \ {h} : inv[g].op = inv[h].op => inv[g].pc \notin Underway
       OBVIOUS
  <2>1. ASSUME NEW S \in SUBSET Handlers, Leave(S) PROVE FALSE
    <3>1. inv'[h].pc \in {"idle", "begin"}
          BY <2>1, LeaveEffect, IdleShape DEF TypeInv
    <3>. QED BY <3>1
  <2>2. ASSUME NEW k \in Handlers, Step(k) PROVE k = h /\ Authority(h)
    <3>1. PICK j : /\ Moved(k, j)
                   /\ inv[k].pc = "begin" /\ j.pc = "call" => Authority(k)
          BY <2>1, <2>2, OpenMoves
    <3>2. inv'[k] = j /\ \A g \in Handlers \ {k} : inv'[g] = inv[g]
          BY <3>1 DEF Moved, Become, TypeInv, InvocationTypes
    <3>. QED BY <3>1, <3>2
  <2>3. ASSUME NEW k \in Handlers, NEW op \in Ops, Invoke(k, op) PROVE FALSE
    <3>1. inv'[k].pc = "lookup" /\ \A g \in Handlers \ {k} : inv'[g] = inv[g]
          BY <2>3, InvokeEffect
    <3>. QED BY <3>1
  <2>4. Authority(h)
        BY <2>1, <2>2, <2>3, Actors DEF Abandon, vars
  <2>5. InCharge(h)
        BY <2>4 DEF InCharge, Authority, Working
  <2>. QED BY <2>5 DEF OpenInv
<1>. QED BY <1>1, OpenAlways, PTL DEF Spec, NoBlindRepeat

(***************************************************************************)
(* Attempts: listed, paid for, and called once                             *)
(***************************************************************************)

\* The post at the head of the queue of h is taken by the API.
Taken(h) == Flushing(h) /\ Authority(h) /\ ~First(h).seen /\ Applied(h, First(h))

\* Only a reservation that is taken lists an attempt.
LEMMA AttemptsMove ==
  ASSUME TypeInv, NEW h \in Handlers, Step(h), NEW x \in Ops
  PROVE  \/ journal'[x].attempts = journal[x].attempts
         \/ /\ x = inv[h].op /\ Taken(h) /\ First(h).kind = "reserve"
            /\ journal'[x].attempts = journal[x].attempts \cup {First(h).n}
<1>0. ApiTypes
      BY DEF TypeInv
<1>1. ASSUME NEW o \in Ops, NEW r \in RecordType, r.attempts = journal[o].attempts,
             journal' = [journal EXCEPT ![o] = r]
      PROVE  journal'[x].attempts = journal[x].attempts
      BY <1>0, <1>1 DEF ApiTypes, Books
<1>2. CASE Taken(h)
  <2>. DEFINE o == inv[h].op
              n == First(h).n
  <2>1. o \in Ops /\ n \in Nat /\ Flushing(h) /\ Applied(h, First(h))
        BY <1>2, FirstPost DEF Taken
  <2>. HIDE DEF o, n
  <2>2. /\ Listing(o, n).attempts = journal[o].attempts \cup {n}
        /\ Longer(o, n).attempts = journal[o].attempts \cup {n}
        /\ Dispatched(o) \in RecordType /\ Dispatched(o).attempts = journal[o].attempts
        BY <1>0, <2>1, RecordsGiven
  <2>3. CASE ReserveAttempt(o, n) /\ First(h).kind = "reserve"
    <3>1. \/ journal' = journal
          \/ journal' = [journal EXCEPT ![o] = Longer(o, n)]
          \/ journal' = [journal EXCEPT ![o] = Listing(o, n)]
          BY <1>0, <2>1, <2>3, ReserveAttemptEffect
    <3>2. x # o => journal'[x] = journal[x]
          BY <1>0, <3>1 DEF ApiTypes, Books
    <3>3. journal' = journal \/ journal'[o].attempts = journal[o].attempts \cup {n}
          BY <1>0, <2>1, <2>2, <3>1 DEF ApiTypes, Books
    <3>. QED BY <1>2, <2>3, <3>2, <3>3 DEF o, n
  <2>4. CASE Transition(o, {"reserved"}, Dispatched(o))
        BY <1>1, <2>1, <2>2, <2>4 DEF Transition
  <2>5. CASE journal' = journal
        BY <2>5
  <2>. QED BY <2>1, <2>3, <2>4, <2>5, AppliedEffect DEF o, n
<1>3. CASE CompletedPosted(h) \/ FailurePosted(h)
  <2>1. inv[h] \in InvocationType /\ inv[h].op \in Ops
        BY <1>3 DEF TypeInv, InvocationTypes, CompletedPosted, FailurePosted
  <2>2. inv[h].call \in Nat /\ inv[h].err \in ErrorType
        BY <2>1 DEF InvocationType, ErrorType
  <2>3. PICK r \in {Completed(inv[h].op, inv[h].call), Failed(inv[h].op, inv[h].err)} :
          journal' = [journal EXCEPT ![inv[h].op] = r]
        BY <1>3 DEF CompletedPosted, FailurePosted, Transition
  <2>4. r \in RecordType /\ r.attempts = journal[inv[h].op].attempts
        BY <1>0, <2>1, <2>2, <2>3, RecordsGiven
  <2>. QED BY <1>1, <2>1, <2>3, <2>4
<1>4. CASE journal' = journal
      BY <1>4
<1>. QED BY <1>2, <1>3, <1>4, StepWrites DEF Taken, ReserveHalfDone, OtherLimitRefuses

\* What the attempt has been paid for with.
Paid(op, n) ==
  /\ <<op, n>> \in DOMAIN ledger
  /\ ledger[<<op, n>>] = "released" => <<op, n>> \in reused

\* A reservation that is taken pays, and what is paid stays paid, but for a
\* reservation that another limit refuses.
LEMMA PaidMoves ==
  ASSUME TypeInv, NEW h \in Handlers, Step(h)
  PROVE  /\ Taken(h) /\ First(h).kind = "reserve" =>
              \A x \in Ops, m \in Nat : x = inv[h].op /\ m = First(h).n => Paid(x, m)'
         /\ \A x \in Ops, m \in Nat :
              \/ Paid(x, m) => Paid(x, m)'
              \/ /\ Flushing(h) /\ Authority(h) /\ ~First(h).seen
                 /\ First(h).kind = "reserve" /\ x = inv[h].op /\ m = First(h).n
<1>. DEFINE k == Key(h, First(h).n)
<1>1. ASSUME ReserveBudget(k)
      PROVE  /\ k \in DOMAIN ledger' /\ (ledger'[k] = "released" => k \in reused')
             /\ \A x \in Ops, m \in Nat : Paid(x, m) => Paid(x, m)'
  <2>. HIDE DEF k
  <2>1. /\ DOMAIN ledger' = DOMAIN ledger \cup {k}
        /\ \A y \in DOMAIN ledger : ledger'[y] = ledger[y]
        /\ k \notin DOMAIN ledger => ledger'[k] = "reserved"
        BY <1>1, ReserveBudgetEffect
  <2>2. reused \subseteq reused' /\ (k \in DOMAIN ledger /\ ledger[k] = "released" => k \in reused')
        BY <1>1 DEF ReserveBudget, Reuse
  <2>3. k \in DOMAIN ledger' /\ (ledger'[k] = "released" => k \in reused')
        BY <2>1, <2>2
  <2>4. \A x \in Ops, m \in Nat : Paid(x, m) => Paid(x, m)'
        BY <2>1, <2>2 DEF Paid
  <2>. QED BY <2>3, <2>4
<1>2. ASSUME ledger' = [ledger EXCEPT ![k] = "settled"], Reuse(k)
      PROVE  \A x \in Ops, m \in Nat : Paid(x, m) => Paid(x, m)'
  <2>. HIDE DEF k
  <2>1. /\ DOMAIN ledger' = DOMAIN ledger
        /\ \A y \in DOMAIN ledger : ledger'[y] = ledger[y] \/ ledger'[y] = "settled"
        BY <1>2
  <2>2. reused \subseteq reused'
        BY <1>2 DEF Reuse
  <2>. QED BY <2>1, <2>2 DEF Paid
<1>3. ASSUME UNCHANGED <<ledger, reused>>
      PROVE  \A x \in Ops, m \in Nat : Paid(x, m) => Paid(x, m)'
      BY <1>3 DEF Paid
<1>4. CASE Taken(h)
  <2>1. CASE First(h).kind = "reserve" /\ ReserveBudget(k)
    <3>1. k \in DOMAIN ledger' /\ (ledger'[k] = "released" => k \in reused')
          BY <1>1, <2>1
    <3>2. ASSUME NEW o \in Ops, NEW n \in Nat, o = inv[h].op, n = First(h).n
          PROVE  Paid(o, n)'
          BY <3>1, <3>2 DEF Key, Paid
    <3>. QED BY <1>1, <2>1, <3>2
  <2>2. CASE First(h).kind = "dispatched" /\ UNCHANGED <<ledger, reused>>
        BY <1>3, <2>2
  <2>3. CASE /\ First(h).kind = "charge"
             /\ ledger' = [ledger EXCEPT ![k] = "settled"] /\ Reuse(k)
        BY <1>2, <2>3
  <2>. QED BY <1>4, <2>1, <2>2, <2>3, AppliedEffect DEF Taken
<1>5. CASE ~Taken(h)
  <2>1. CASE ReserveHalfDone(h)
        BY <1>1, <1>5, <2>1 DEF ReserveHalfDone
  <2>2. CASE OtherLimitRefuses(h)
    <3>1. /\ Flushing(h) /\ Authority(h) /\ ~First(h).seen /\ First(h).kind = "reserve"
          /\ reused' = reused /\ (ledger' = ledger \/ Put(k, "released"))
          BY <2>2 DEF OtherLimitRefuses
    <3>2. ASSUME NEW x \in Ops, NEW m \in Nat, ~(x = inv[h].op /\ m = First(h).n), Paid(x, m)
          PROVE  Paid(x, m)'
      <4>1. <<x, m>> # k
            BY <3>2 DEF Key
      <4>. HIDE DEF k
      <4>2. CASE Put(k, "released")
        <5>1. /\ DOMAIN ledger' = DOMAIN ledger \cup {k}
              /\ \A y \in DOMAIN ledger \ {k} : ledger'[y] = ledger[y]
              BY <4>2, LedgerPut
        <5>. QED BY <3>1, <3>2, <4>1, <5>1 DEF Paid
      <4>3. CASE ledger' = ledger
            BY <3>1, <3>2, <4>3 DEF Paid
      <4>. QED BY <3>1, <4>2, <4>3
    <3>. QED BY <1>5, <3>1, <3>2
  <2>3. CASE CompletedPosted(h) \/ FailurePosted(h)
        BY <1>3, <1>5, <2>3 DEF CompletedPosted, FailurePosted, history
  <2>. QED BY <1>3, <1>5, <2>1, <2>2, <2>3, StepWrites DEF Taken
<1>. QED BY <1>4, <1>5

LEMMA AttemptListed ==
  ASSUME TypeInv, NEW h \in Handlers, Taken(h), First(h).kind = "reserve"
  PROVE  journal'[inv[h].op].attempts = journal[inv[h].op].attempts \cup {First(h).n}
<1>. DEFINE o == inv[h].op
            n == First(h).n
<1>0. o \in Ops /\ n \in Nat /\ ApiTypes /\ ReserveAttempt(o, n)
      BY FirstPost, AppliedEffect DEF Taken, TypeInv
<1>1. \/ n \in journal[o].attempts /\ journal' = journal
      \/ journal' = [journal EXCEPT ![o] = Longer(o, n)]
      \/ journal' = [journal EXCEPT ![o] = Listing(o, n)]
      BY <1>0, ReserveAttemptEffect
<1>2. /\ Listing(o, n).attempts = journal[o].attempts \cup {n}
      /\ Longer(o, n).attempts = journal[o].attempts \cup {n}
      BY <1>0, RecordsGiven
<1>. QED BY <1>0, <1>1, <1>2 DEF ApiTypes, Books

\* Only the last post of a beginning attempt calls the provider.
LEMMA CallsMove ==
  ASSUME TypeInv, NEW h \in Handlers, Step(h)
  PROVE  \/ calls' = calls
         \/ /\ Taken(h) /\ inv[h].pc = "begin"
            /\ First(h).kind = "dispatched" /\ First(h).n = inv[h].n
            /\ calls' = [calls EXCEPT ![inv[h].op] = Append(@, inv[h].n)]
<1>1. CASE PostAnswered(h)
      BY <1>1, AnswerMoves DEF PostAnswered, Taken
<1>2. CASE \/ LookupStarts(h) \/ LookupAnswers(h) \/ LookupFails(h) \/ PostAnswerLost(h)
           \/ PostLost(h) \/ PostRefused(h) \/ PostTooOld(h) \/ ReserveHalfDone(h)
           \/ OtherLimitRefuses(h)
      BY <1>2 DEF LookupStarts, LookupAnswers, LookupFails, PostAnswerLost, PostLost,
        PostRefused, PostTooOld, ReserveHalfDone, OtherLimitRefuses, PostRaises, history
<1>3. CASE \/ ProviderAnswers(h) \/ ProviderFails(h) \/ CompletedPosted(h)
           \/ CompletedNotPosted(h) \/ FailurePosted(h) \/ FailureNotPosted(h)
      BY <1>3 DEF ProviderAnswers, ProviderFails, CompletedPosted, CompletedNotPosted,
        FailurePosted, FailureNotPosted, history
<1>. QED BY <1>1, <1>2, <1>3 DEF Step

\* How many attempts are listed when post p is to be sent.
Listed(p) == IF p.kind = "reserve" THEN p.n - 1 ELSE p.n

\* The attempts that are listed, and that were called, as h counts them.
Calling == {"begin", "call", "settle", "fail"}
Counts(h) ==
  /\ inv[h].pc \in Calling =>
       \A m \in 1 .. Len(calls[inv[h].op]) :
         /\ calls[inv[h].op][m] <= inv[h].n
         /\ inv[h].pc = "begin" => calls[inv[h].op][m] # inv[h].n
  /\ Flushing(h) /\ ~First(h).seen => journal[inv[h].op].attempts = 1 .. Listed(First(h))
  /\ inv[h].pc = "call" => journal[inv[h].op].attempts = 1 .. inv[h].n

CountInv == \A h \in Handlers : InCharge(h) => Counts(h)

Accounts(op) ==
  /\ \E k \in Nat : journal[op].attempts = 1 .. k
  /\ \A n \in journal[op].attempts : Paid(op, n)
  /\ \A i \in 1 .. Len(calls[op]) : calls[op][i] \in journal[op].attempts
  /\ \A i, j \in 1 .. Len(calls[op]) : calls[op][i] = calls[op][j] => i = j

JournalInv == \A op \in Ops : op \notin exposed => Accounts(op)

LEMMA CountInit == Init => CountInv /\ JournalInv
<1>. SUFFICES ASSUME Init PROVE CountInv /\ JournalInv
     OBVIOUS
<1>1. CountInv
      BY IdleShape DEF Init, CountInv, InCharge, Working
<1>2. ASSUME NEW op \in Ops PROVE Accounts(op)
  <2>1. journal[op].attempts = {} /\ calls[op] = <<>>
        BY DEF Init, NoRecord
  <2>2. journal[op].attempts = 1 .. 0 /\ 0 \in Nat
        BY <2>1
  <2>. QED BY <2>1, <2>2 DEF Accounts
<1>. QED BY <1>1, <1>2 DEF JournalInv

\* The accounts of an operation after a step.
LEMMA AccountsStep ==
  ASSUME TypeInv, CountInv, JournalInv, NEW h \in Handlers, Step(h),
         NEW op \in Ops, op \notin exposed
  PROVE  Accounts(op)'
<1>0. Accounts(op) /\ journal[op].attempts \subseteq Nat
      BY DEF JournalInv, TypeInv, ApiTypes, Books, RecordType
<1>1. ASSUME inv[h].op = op, Flushing(h), Authority(h), ~First(h).seen
      PROVE  /\ Counts(h) /\ journal[op].attempts = 1 .. Listed(First(h))
             /\ First(h).n \in Nat \ {0} /\ First(h).n <= inv[h].n /\ inv[h].n \in Nat
  <2>1. InCharge(h)
        BY <1>1 DEF InCharge, Authority, Flushing, Working
  <2>. QED BY <1>1, <2>1, FirstPost DEF CountInv, Counts
<1>2. PICK n \in Nat : Flushing(h) => n = First(h).n
  <2>1. CASE Flushing(h)
        BY <2>1, FirstPost
  <2>2. CASE ~Flushing(h)
        BY <2>2
  <2>. QED BY <2>1, <2>2
<1>3. ASSUME NEW m \in journal[op].attempts
      PROVE  Paid(op, m)'
  <2>1. m \in Nat /\ Paid(op, m)
        BY <1>0 DEF Accounts
  <2>2. ASSUME Flushing(h), Authority(h), ~First(h).seen, First(h).kind = "reserve",
               op = inv[h].op, m = First(h).n
        PROVE  FALSE
        BY <1>1, <2>2 DEF Listed
  <2>. QED BY <2>1, <2>2, PaidMoves
\* an attempt is listed
<1>4. CASE op = inv[h].op /\ Taken(h) /\ First(h).kind = "reserve"
  <2>1. journal[op].attempts = 1 .. n - 1 /\ n \in Nat \ {0}
        BY <1>1, <1>2, <1>4 DEF Taken, Listed
  <2>2. journal'[op].attempts = journal[op].attempts \cup {n}
        BY <1>2, <1>4, AttemptListed DEF Taken
  <2>3. journal'[op].attempts = 1 .. n
        BY <2>1, <2>2
  <2>4. Paid(op, n)'
        BY <1>2, <1>4, PaidMoves DEF Taken
  <2>5. calls'[op] = calls[op]
        BY <1>4, CallsMove
  <2>6. /\ \E k \in Nat : journal'[op].attempts = 1 .. k
        /\ \A m \in journal'[op].attempts : Paid(op, m)'
        BY <1>3, <2>1, <2>2, <2>3, <2>4
  <2>7. /\ \A i \in 1 .. Len(calls'[op]) : calls'[op][i] \in journal'[op].attempts
        /\ \A i, j \in 1 .. Len(calls'[op]) : calls'[op][i] = calls'[op][j] => i = j
        BY <1>0, <2>2, <2>5 DEF Accounts
  <2>. QED BY <2>6, <2>7 DEF Accounts
\* or not
<1>5. CASE ~(op = inv[h].op /\ Taken(h) /\ First(h).kind = "reserve")
  <2>1. journal'[op].attempts = journal[op].attempts
        BY <1>5, AttemptsMove
  <2>2. /\ \E k \in Nat : journal'[op].attempts = 1 .. k
        /\ \A m \in journal'[op].attempts : Paid(op, m)'
        BY <1>0, <1>3, <2>1 DEF Accounts
  <2>3. CASE calls'[op] = calls[op]
    <3>1. /\ \A i \in 1 .. Len(calls'[op]) : calls'[op][i] \in journal'[op].attempts
          /\ \A i, j \in 1 .. Len(calls'[op]) : calls'[op][i] = calls'[op][j] => i = j
          BY <1>0, <2>1, <2>3 DEF Accounts
    <3>. QED BY <2>2, <3>1 DEF Accounts
  <2>4. CASE /\ op = inv[h].op /\ Taken(h) /\ inv[h].pc = "begin"
             /\ First(h).kind = "dispatched" /\ First(h).n = inv[h].n
             /\ calls' = [calls EXCEPT ![inv[h].op] = Append(@, inv[h].n)]
    <3>1. /\ Counts(h) /\ journal[op].attempts = 1 .. n /\ n = inv[h].n /\ n \in Nat \ {0}
          BY <1>1, <1>2, <2>4 DEF Taken, Listed
    <3>2. calls[op] \in Seq(Nat) /\ calls'[op] = Append(calls[op], n)
          BY <2>4, <3>1 DEF TypeInv, ApiTypes
    <3>3. /\ Len(calls[op]) \in Nat /\ Len(calls'[op]) = Len(calls[op]) + 1
          /\ calls'[op][Len(calls[op]) + 1] = n
          /\ \A i \in 1 .. Len(calls[op]) : calls'[op][i] = calls[op][i]
          BY <3>2
    <3>4. \A i \in 1 .. Len(calls[op]) : calls[op][i] # n
          BY <2>4, <3>1 DEF Counts, Calling
    <3>5. \A i \in 1 .. Len(calls'[op]) : calls'[op][i] \in journal'[op].attempts
      <4>1. n \in journal[op].attempts
            BY <3>1
      <4>2. ASSUME NEW i \in 1 .. Len(calls'[op]) PROVE calls'[op][i] \in journal[op].attempts
        <5>1. i \in 1 .. Len(calls[op]) \/ i = Len(calls[op]) + 1
              BY <3>3
        <5>. QED BY <1>0, <3>3, <4>1, <5>1 DEF Accounts
      <4>. QED BY <2>1, <4>2
    <3>6. ASSUME NEW i \in 1 .. Len(calls'[op]), NEW j \in 1 .. Len(calls'[op]),
                 calls'[op][i] = calls'[op][j]
          PROVE  i = j
      <4>1. /\ i \in 1 .. Len(calls[op]) \/ i = Len(calls[op]) + 1
            /\ j \in 1 .. Len(calls[op]) \/ j = Len(calls[op]) + 1
            BY <3>3
      <4>2. CASE i \in 1 .. Len(calls[op]) /\ j \in 1 .. Len(calls[op])
            BY <1>0, <3>3, <3>6, <4>2 DEF Accounts
      <4>. QED BY <3>3, <3>4, <3>6, <4>1, <4>2
    <3>. QED BY <2>2, <3>5, <3>6 DEF Accounts
  <2>5. CASE op # inv[h].op
        BY <1>0, <2>3, <2>5, CallsMove DEF TypeInv, ApiTypes
  <2>. QED BY <2>3, <2>4, <2>5, CallsMove
<1>. QED BY <1>4, <1>5

\* The count of the invocation that takes the step ...
LEMMA OwnCountStep ==
  ASSUME TypeInv, CountInv, JournalInv, NEW h \in Handlers, Step(h), InCharge(h)'
  PROVE  Counts(h)'
<1>. DEFINE i == inv[h]
<1>0. /\ exposed' = exposed /\ fence' = fence /\ inv[h].op \in Ops /\ inv[h] \in InvocationType
      /\ i.n \in Nat /\ inv'[h].pc # "idle"
      BY StepWorks, StepKeepsEpoch, StepMoves
      DEF TypeInv, InvocationTypes, InvocationType, InCharge, Working
<1>1. ASSUME Leave({h}) PROVE FALSE
  <2>1. inv'[h].pc = "idle"
        BY <1>1, LeaveEffect, IdleShape DEF TypeInv
  <2>. QED BY <1>0, <2>1
<1>2. ASSUME NEW j, Moved(h, j)
      PROVE  /\ inv'[h] = j /\ j.op = i.op /\ j.fence = i.fence
             /\ i.op \notin exposed /\ (Working(i) => InCharge(h) /\ Counts(h))
             /\ j \in InvocationType /\ j.n \in Nat
  <2>1. inv'[h] = j /\ j.op = i.op /\ j.fence = i.fence /\ j \in InvocationType
        BY <1>2 DEF Moved, Become, Same, TypeInv, InvocationTypes
  <2>. QED BY <1>0, <2>1 DEF InCharge, CountInv, InvocationType
<1>3. \* what is called, in terms of the new state
      ASSUME NEW j, Moved(h, j),
             j.pc \in Calling =>
               \A m \in 1 .. Len(calls'[i.op]) :
                 /\ calls'[i.op][m] <= j.n
                 /\ j.pc = "begin" => calls'[i.op][m] # j.n,
             j.pc \in {"begin", "settle", "fail"} /\ ~Head(j.posts).seen =>
               journal'[i.op].attempts = 1 .. Listed(Head(j.posts)),
             j.pc = "call" => journal'[i.op].attempts = 1 .. j.n
      PROVE  Counts(h)'
  <2>1. inv'[h] = j /\ j.op = i.op
        BY <1>2, <1>3
  <2>2. /\ Flushing(h)' <=> j.pc \in {"begin", "settle", "fail"}
        /\ First(h)' = Head(j.posts)
        BY <2>1 DEF Flushing, First
  <2>. QED BY <1>3, <2>1, <2>2 DEF Counts
<1>. DEFINE op == i.op
<1>4. CASE LookupStarts(h)
  <2>. DEFINE n == Cardinality(journal[op].attempts) + 1
  <2>1. PICK j : Moved(h, j) /\ j.pc = "begin" /\ j.n = n /\ Head(j.posts) = Post("reserve", n)
        BY <1>4, LookupMoves
  <2>2. journal' = journal /\ calls' = calls
        BY <1>4 DEF LookupStarts, api, history
  <2>3. Accounts(op)
        BY <1>0, <1>2, <2>1 DEF JournalInv
  <2>4. PICK k \in Nat : journal[op].attempts = 1 .. k
        BY <2>3 DEF Accounts
  <2>5. n = k + 1
    <3>1. Cardinality(1 .. k) = k
      <4>1. 1 \in Int /\ k \in Int
            OBVIOUS
      <4>2. Cardinality(1 .. k) = IF 1 > k THEN 0 ELSE k - 1 + 1
            BY <4>1, FS_Interval
      <4>. QED BY <4>2
    <3>. QED BY <2>4, <3>1
  <2>6. \A m \in 1 .. Len(calls[op]) : calls[op][m] \in 1 .. k
        BY <2>3, <2>4 DEF Accounts
  <2>7. Listed(Head(j.posts)) = k
        BY <2>1, <2>4, <2>5 DEF Listed, Post
  <2>. QED BY <1>3, <2>1, <2>2, <2>4, <2>5, <2>6, <2>7
<1>5. CASE PostAnswered(h)
  <2>0. Working(i) /\ Taken(h) /\ Flushing(h)
        BY <1>5 DEF PostAnswered, Flushing, Working, Taken
  <2>1. PICK j :
          /\ Moved(h, j)
          /\ \/ /\ Rest(h) # <<>> /\ calls' = calls /\ j.pc = i.pc /\ j.n = i.n
                /\ i.pc = "begin" /\ j.posts = Rest(h)
                /\ Follows(First(h), Head(j.posts))
             \/ /\ Rest(h) = <<>> /\ i.pc = "begin" /\ j.pc = "call" /\ j.n = i.n
                /\ First(h).kind = "dispatched" /\ First(h).n = i.n
                /\ calls' = [calls EXCEPT ![op] = Append(@, i.n)]
             \/ /\ Rest(h) = <<>> /\ i.pc = "settle" /\ j.pc = "complete"
                /\ calls' = calls
             \/ /\ Rest(h) = <<>> /\ i.pc = "fail" /\ j.pc \in {"begin", "end"}
                /\ calls' = calls /\ First(h).n = i.n
                /\ j.pc = "begin" => /\ j.n = i.n + 1
                                     /\ Head(j.posts) = Post("reserve", j.n)
        BY <1>5, AnswerMoves
  <2>2. /\ Counts(h) /\ journal[op].attempts = 1 .. Listed(First(h))
        /\ First(h).n \in 1 .. i.n /\ First(h).kind \in PostKinds
        BY <1>2, <2>0, <2>1, FirstPost DEF Taken, Counts
  <2>3. journal'[op].attempts = 1 .. First(h).n
    <3>1. CASE First(h).kind = "reserve"
      <4>1. journal'[op].attempts = journal[op].attempts \cup {First(h).n}
            BY <2>0, <3>1, AttemptListed
      <4>. QED BY <1>0, <2>2, <3>1, <4>1 DEF Listed
    <3>2. CASE First(h).kind # "reserve"
          BY <1>0, <2>2, <3>2, AttemptsMove DEF Listed
    <3>. QED BY <3>1, <3>2
  <2>4. CASE /\ calls' = calls /\ j.pc = i.pc /\ j.n = i.n /\ i.pc = "begin"
             /\ Follows(First(h), Head(j.posts))
    <3>1. Listed(Head(j.posts)) = First(h).n
          BY <1>0, <2>2, <2>4 DEF Follows, Listed
    <3>. QED BY <1>3, <2>1, <2>2, <2>3, <2>4, <3>1 DEF Counts, Calling
  <2>5. CASE /\ i.pc = "begin" /\ j.pc = "call" /\ j.n = i.n
             /\ First(h).kind = "dispatched" /\ First(h).n = i.n
             /\ calls' = [calls EXCEPT ![op] = Append(@, i.n)]
    <3>1. calls[op] \in Seq(Nat) /\ calls'[op] = Append(calls[op], i.n)
          BY <1>0, <2>5 DEF TypeInv, ApiTypes
    <3>2. ASSUME NEW m \in 1 .. Len(calls'[op]) PROVE calls'[op][m] <= i.n
      <4>1. \/ m \in 1 .. Len(calls[op]) /\ calls'[op][m] = calls[op][m]
            \/ calls'[op][m] = i.n
            BY <1>0, <3>1
      <4>. QED BY <1>0, <2>2, <2>5, <4>1 DEF Counts, Calling
    <3>. QED BY <1>3, <2>1, <2>3, <2>5, <3>2
  <2>6. CASE j.pc \in {"complete", "end"}
        BY <1>3, <2>1, <2>6 DEF Calling
  <2>7. CASE /\ i.pc = "fail" /\ j.pc = "begin" /\ calls' = calls /\ First(h).n = i.n
             /\ j.n = i.n + 1 /\ Head(j.posts) = Post("reserve", j.n)
    <3>1. Listed(Head(j.posts)) = i.n
          BY <1>0, <2>7 DEF Listed, Post
    <3>2. \A m \in 1 .. Len(calls[op]) : calls[op][m] <= i.n /\ calls[op][m] \in Nat
      <4>1. calls[op] \in Seq(Nat)
            BY <1>0 DEF TypeInv, ApiTypes
      <4>2. \A m \in 1 .. Len(calls[op]) : calls[op][m] <= i.n
            BY <2>2, <2>7 DEF Counts, Calling
      <4>. QED BY <4>1, <4>2
    <3>3. \A m \in 1 .. Len(calls[op]) : calls[op][m] <= j.n /\ calls[op][m] # j.n
          BY <1>0, <2>7, <3>2
    <3>. QED BY <1>3, <2>1, <2>3, <2>7, <3>1, <3>3
  <2>. QED BY <2>1, <2>4, <2>5, <2>6, <2>7
<1>6. CASE \/ PostAnswerLost(h) \/ PostLost(h) \/ PostRefused(h) \/ PostTooOld(h)
           \/ ReserveHalfDone(h) \/ OtherLimitRefuses(h)
  <2>0. Flushing(h) /\ Working(i)
        BY <1>6, PostsRaise DEF Flushing, Working
  <2>1. PICK posts \in {i.posts, Burnt(h)}, e \in ErrorType :
          PostRaises(h, posts, e) /\ (posts = Burnt(h) \/ journal' = journal)
        BY <1>6, PostsRaise DEF Raises
  <2>2. PICK j : /\ Moved(h, j) /\ j.pc \in {"begin", "fail", "end"}
                 /\ j.pc = "begin" => j.n = i.n + 1 /\ i.pc # "settle"
                 /\ j.pc = "fail" => j.n = i.n /\ i.pc = "settle"
                 /\ j.pc # "end" => Head(j.posts) = Head(posts)
        BY <2>0, <2>1, RaiseMoves
  <2>3. Counts(h) /\ calls' = calls
        BY <1>2, <2>0, <2>1, <2>2 DEF PostRaises
  <2>4. \A m \in 1 .. Len(calls[op]) : calls[op][m] <= i.n /\ calls[op][m] \in Nat
    <3>1. calls[op] \in Seq(Nat)
          BY <1>0 DEF TypeInv, ApiTypes
    <3>2. \A m \in 1 .. Len(calls[op]) : calls[op][m] <= i.n
          BY <2>0, <2>3 DEF Counts, Calling, Flushing
    <3>. QED BY <3>1, <3>2
  <2>5. j.pc \in Calling =>
          \A m \in 1 .. Len(calls[op]) :
            calls[op][m] <= j.n /\ (j.pc = "begin" => calls[op][m] # j.n)
        BY <1>0, <2>2, <2>4 DEF Calling
  <2>6. ASSUME j.pc \in {"begin", "settle", "fail"}, ~Head(j.posts).seen
        PROVE  journal'[op].attempts = 1 .. Listed(Head(j.posts))
    <3>1. Head(j.posts) = Head(posts) /\ ~Head(posts).seen
          BY <2>2, <2>6
    <3>2. Head(Burnt(h)).seen
      <4>1. i.posts # <<>> /\ i.posts \in Seq(PostType)
            BY <2>0, FirstPost
      <4>. QED BY <4>1, MarkedQueue DEF Burnt, Marked, First, Rest
    <3>3. posts = i.posts /\ journal' = journal /\ Head(posts) = First(h)
          BY <2>1, <3>1, <3>2 DEF First
    <3>. QED BY <2>0, <2>3, <3>1, <3>3 DEF Counts
  <2>. QED BY <1>3, <2>2, <2>3, <2>5, <2>6
<1>7. CASE ProviderAnswers(h) \/ ProviderFails(h)
  <2>1. PICK j : /\ Moved(h, j) /\ i.pc = "call" /\ j.pc \in {"settle", "fail"}
                 /\ j.n = i.n /\ Head(j.posts) = Post("charge", j.n)
        BY <1>7, ProviderMoves
  <2>2. journal' = journal /\ calls' = calls
        BY <1>7 DEF ProviderAnswers, ProviderFails, api, history
  <2>3. Counts(h)
        BY <1>2, <2>1 DEF Working
  <2>4. Listed(Head(j.posts)) = i.n
        BY <2>1 DEF Listed, Post
  <2>. QED BY <1>3, <2>1, <2>2, <2>3, <2>4 DEF Counts, Calling
<1>8. CASE CompletedPosted(h) \/ CompletedNotPosted(h)
      BY <1>1, <1>3, <1>8, CompletionMoves DEF Calling
<1>9. CASE \/ LookupAnswers(h) \/ LookupFails(h) \/ FailurePosted(h) \/ FailureNotPosted(h)
      BY <1>1, <1>9 DEF LookupAnswers, LookupFails, FailurePosted, FailureNotPosted
<1>. QED BY <1>4, <1>5, <1>6, <1>7, <1>8, <1>9 DEF Step

\* ... and of another one: only h counts attempts and calls of its operation.
LEMMA OtherCountStep ==
  ASSUME TypeInv, LockInv, CountInv, NEW h \in Handlers, Step(h),
         NEW g \in Handlers, g # h, InCharge(g)'
  PROVE  Counts(g)'
<1>1. exposed' = exposed /\ fence' = fence
      BY StepWorks, StepKeepsEpoch
<1>2. /\ inv'[g].pc = inv[g].pc /\ inv'[g].op = inv[g].op /\ inv'[g].fence = inv[g].fence
      /\ inv'[g].n = inv[g].n /\ inv'[g].posts = inv[g].posts
  <2>1. CASE Leave({h})
        BY <2>1, LeaveEffect DEF TypeInv
  <2>2. CASE \E j : Moved(h, j)
        BY <2>2 DEF Moved, Become, TypeInv, InvocationTypes
  <2>. QED BY <2>1, <2>2, StepMoves
<1>3. InCharge(g) /\ Counts(g) /\ inv[g].op \in Ops
      BY <1>1, <1>2 DEF InCharge, Working, CountInv, TypeInv, InvocationTypes
<1>4. ASSUME inv[h].op = inv[g].op, Taken(h) PROVE FALSE
      BY <1>3, <1>4, OneInCharge DEF Taken, Flushing, Authority, Working
<1>5. journal'[inv[g].op].attempts = journal[inv[g].op].attempts
      BY <1>3, <1>4, AttemptsMove
<1>6. calls'[inv[g].op] = calls[inv[g].op]
      BY <1>3, <1>4, CallsMove DEF TypeInv, ApiTypes
<1>. QED BY <1>2, <1>3, <1>5, <1>6 DEF Counts, Flushing, First

LEMMA CountStep ==
  TypeInv /\ LockInv /\ CountInv /\ JournalInv /\ [Next]_vars => (CountInv /\ JournalInv)'
<1>. SUFFICES ASSUME TypeInv, LockInv, CountInv, JournalInv, [Next]_vars
              PROVE  CountInv' /\ JournalInv'
     OBVIOUS
<1>1. ASSUME NEW h \in Handlers, Step(h)
      PROVE  CountInv' /\ JournalInv'
  <2>1. CountInv'
    <3>1. ASSUME NEW g \in Handlers, InCharge(g)' PROVE Counts(g)'
          BY <1>1, <3>1, OwnCountStep, OtherCountStep
    <3>. QED BY <3>1 DEF CountInv
  <2>2. JournalInv'
    <3>1. exposed' = exposed
          BY <1>1, StepWorks
    <3>. QED BY <1>1, <3>1, AccountsStep DEF JournalInv
  <2>. QED BY <2>1, <2>2
\* the other steps leave the books alone, and nobody becomes in charge
<1>2. ASSUME UNCHANGED <<journal, ledger, calls, reused>>, exposed \subseteq exposed'
      PROVE  JournalInv'
      BY <1>2 DEF JournalInv, Accounts, Paid
<1>3. ASSUME UNCHANGED <<journal, calls>>, exposed \subseteq exposed',
             \A g \in Handlers : InCharge(g)' =>
               /\ InCharge(g)
               /\ inv'[g].pc = inv[g].pc /\ inv'[g].op = inv[g].op
               /\ inv'[g].n = inv[g].n /\ inv'[g].posts = inv[g].posts
      PROVE  CountInv'
  <2>1. ASSUME NEW g \in Handlers, InCharge(g)' PROVE Counts(g)'
    <3>1. /\ Counts(g) /\ inv'[g].pc = inv[g].pc /\ inv'[g].op = inv[g].op
          /\ inv'[g].n = inv[g].n /\ inv'[g].posts = inv[g].posts
          BY <1>3, <2>1 DEF CountInv
    <3>. QED BY <1>3, <3>1 DEF Counts, Flushing, First
  <2>. QED BY <2>1 DEF CountInv
<1>4. ASSUME NEW h \in Handlers, NEW op \in Ops, Invoke(h, op)
      PROVE  CountInv' /\ JournalInv'
  <2>1. /\ \A g \in Handlers \ {h} : inv'[g] = inv[g]
        /\ inv'[h].pc = "lookup" /\ exposed \subseteq exposed'
        /\ UNCHANGED <<fence, journal, ledger, calls, reused>>
        BY <1>4, InvokeEffect
  <2>2. \A g \in Handlers : InCharge(g)' => InCharge(g) /\ g # h
        BY <2>1 DEF InCharge, Working
  <2>. QED BY <1>2, <1>3, <2>1, <2>2
<1>5. ASSUME NEW S \in SUBSET Handlers, Abandon(S)
      PROVE  CountInv' /\ JournalInv'
  <2>1. UNCHANGED <<fence, journal, ledger, calls, reused, exposed>>
        BY <1>5 DEF Abandon, api
  <2>2. /\ \A g \in S : inv'[g].pc = "idle"
        /\ \A g \in Handlers \ S :
             /\ inv'[g].pc = inv[g].pc /\ inv'[g].op = inv[g].op
             /\ inv'[g].fence = inv[g].fence /\ inv'[g].n = inv[g].n
             /\ inv'[g].posts = inv[g].posts
        BY <1>5, LeaveEffect, IdleShape DEF Abandon, TypeInv
  <2>3. \A g \in Handlers : InCharge(g)' => g \notin S /\ InCharge(g)
        BY <2>1, <2>2 DEF InCharge, Working
  <2>. QED BY <1>2, <1>3, <2>1, <2>2, <2>3
<1>6. ASSUME \/ TakeOver \/ EngineLeaves \/ Evict \/ \E token \in 1 .. MaxFence : Register(token),
             UNCHANGED <<inv, journal, ledger, history>>
      PROVE  CountInv' /\ JournalInv'
  <2>1. fence' = fence \/ fence' = fence + 1
        BY <1>6 DEF TakeOver, EngineLeaves, Evict, Register, api
  <2>2. \A h \in Handlers : InCharge(h)' => InCharge(h)
    <3>1. \A h \in Handlers : inv[h].fence <= fence /\ inv[h].fence \in Nat /\ fence \in Nat
          BY ModelGatewayAssumption DEF TypeInv, InvocationTypes, InvocationType, EpochTypes
    <3>. QED BY <1>6, <2>1, <3>1 DEF InCharge, history
  <2>. QED BY <1>2, <1>3, <1>6, <2>2 DEF history
<1>7. CASE UNCHANGED vars
  <2>1. \A h \in Handlers : InCharge(h)' => InCharge(h)
        BY <1>7 DEF InCharge, vars, api, history
  <2>. QED BY <1>2, <1>3, <1>7, <2>1 DEF vars, api, history
<1>. QED BY <1>1, <1>4, <1>5, <1>6, <1>7, Actors

LEMMA CountAlways == Spec => [](TypeInv /\ LockInv /\ CountInv /\ JournalInv)
<1>1. Init => TypeInv /\ LockInv /\ CountInv /\ JournalInv
      BY TypeInit, LockInit, CountInit
<1>2. TypeInv /\ LockInv /\ CountInv /\ JournalInv /\ [Next]_vars
        => (TypeInv /\ LockInv /\ CountInv /\ JournalInv)'
      BY TypeStep, LockStep, CountStep
<1>. QED BY <1>1, <1>2, PTL DEF Spec

\* An attempt of an operation reaches the provider once (gateway.py:159-172):
\* the attempts that are listed are counted right by whoever is in charge, and
\* the lock and the epochs leave one in charge.
THEOREM AttemptAlwaysCalledOnce == Spec => []AttemptCalledOnce
<1>1. JournalInv => AttemptCalledOnce
      BY DEF JournalInv, Accounts, AttemptCalledOnce
<1>. QED BY <1>1, CountAlways, PTL

\* What the provider was called for is listed and paid, at the call and ever
\* after (internal_api.py:202-227, budgets.py:139-229).
THEOREM CalledIsAlwaysPaid == Spec => []CalledIsPaid
<1>1. JournalInv => CalledIsPaid
      BY DEF JournalInv, Accounts, Paid, CalledIsPaid
<1>. QED BY <1>1, CountAlways, PTL
================================================================================
