------------------------- MODULE Descriptors_proofs -------------------------
(***************************************************************************)
(* Proofs about Waiting, AprOutput and Socket: the poll set follows        *)
(* the client, for any number of descriptors, sizes of the poll set and    *)
(* additions; what is printed arrives once and in its place, for any texts *)
(* and a buffer of any size; nothing of a socket or an address dangles,    *)
(* for any sockets, addresses, ports and number of calls; epoll reports    *)
(* every event once, for any descriptors; and SIGIO calls the function of  *)
(* every descriptor that is ready once, for any descriptors and functions. *)
(***************************************************************************)
EXTENDS Waiting, AprOutput, Socket, Integers, FiniteSetTheorems,
  SequenceTheorems, TLAPS

Event == [adr : Addresses, io : PL_Ios, data : PL_Data]

(* What the property says of a list of events, a poll set and the client.  *)
Follows(events, set, client) ==
  /\ \A p \in set : \E e \in events : e.adr = p.client_data /\ e.io = p.io
  /\ \A p, q \in set : p.io = q.io => p = q
  /\ \A c \in client :
       \E e \in events : InPollset(e) \in set /\ e.io = c.io /\ e.data = c.data
  /\ \A d, e \in events : d.io = e.io \/ d.adr = e.adr => d = e

(* The client has no more descriptors than are counted.                    *)
Counted ==
  pl_num \in Nat /\ IsFiniteSet(pl_client) /\ Cardinality(pl_client) <= pl_num

(* The poll set holds pairs that an addition puts there, and nothing else. *)
PL_Inv ==
  /\ pl_events \subseteq Event
  /\ pl_set \subseteq [io : PL_Ios, client_data : Addresses]
  /\ Follows(pl_events, pl_set, pl_client)
  /\ Counted

-----------------------------------------------------------------------------
(* An allocation finds an address: there is one more than there are        *)
(* descriptors, and no two events are for the same one.                    *)
LEMMA FreeAddressIsFree ==
  ASSUME PL_Inv
  PROVE  FreeAddress \in Addresses /\ \A e \in pl_events : e.adr # FreeAddress
<1>1. SUFFICES ASSUME \A a \in Addresses : \E e \in pl_events : e.adr = a
               PROVE  FALSE
  BY DEF FreeAddress
<1> DEFINE eventAt(a) == CHOOSE e \in pl_events : e.adr = a
           ioAt == [a \in Addresses |-> eventAt(a).io]
<1>2. \A a \in Addresses : eventAt(a) \in pl_events /\ eventAt(a).adr = a
  BY <1>1
<1>3. Cardinality(PL_Ios) \in Nat
  BY PollAssumption, FS_CardinalityType
<1>4. IsFiniteSet(Addresses) /\ Cardinality(Addresses) = Cardinality(PL_Ios) + 1
  BY <1>3, FS_Interval DEF Addresses
<1>5. ioAt \in [Addresses -> PL_Ios]
  BY <1>2 DEF PL_Inv, Event
<1>6. PICK a, b \in Addresses : a # b /\ ioAt[a] = ioAt[b]
  <2>1. Cardinality(PL_Ios) < Cardinality(Addresses)
    BY <1>3, <1>4
  <2> HIDE DEF ioAt
  <2> QED
    BY <1>4, <1>5, <2>1, PollAssumption, FS_PigeonHole
<1>7. eventAt(a).io = eventAt(b).io
  BY <1>6
<1> QED
  BY <1>2, <1>6, <1>7 DEF PL_Inv, Follows

(* An event for a new descriptor at a free address: in the list, and in    *)
(* the poll set unless that refuses it.                                    *)
LEMMA AddedFollows ==
  ASSUME NEW events, NEW set, NEW client, Follows(events, set, client),
         NEW adr, \A e \in events : e.adr # adr,
         NEW io, \A e \in events : e.io # io, NEW data
  PROVE  LET event == [adr |-> adr, io |-> io, data |-> data]
         IN /\ Follows(events \cup {event}, set, client)
            /\ Follows(events \cup {event}, set \cup {InPollset(event)},
                       client \cup {[io |-> io, data |-> data]})
<1> DEFINE event == [adr |-> adr, io |-> io, data |-> data]
<1>1. /\ event.adr = adr /\ event.io = io /\ event.data = data
      /\ InPollset(event).io = io /\ InPollset(event).client_data = adr
  BY DEF InPollset
<1>2. \A p \in set : p.io # io
  BY DEF Follows
<1> HIDE DEF event
<1>3. \A d, e \in events \cup {event} : d.io = e.io \/ d.adr = e.adr => d = e
  BY <1>1 DEF Follows
<1>4. Follows(events \cup {event}, set, client)
  BY <1>3 DEF Follows
<1>5. Follows(events \cup {event}, set \cup {InPollset(event)},
              client \cup {[io |-> io, data |-> data]})
  <2>1. \A p \in set \cup {InPollset(event)} :
          \E e \in events \cup {event} : e.adr = p.client_data /\ e.io = p.io
    BY <1>1 DEF Follows
  <2>2. \A p, q \in set \cup {InPollset(event)} : p.io = q.io => p = q
    BY <1>1, <1>2 DEF Follows
  <2>3. \A c \in client \cup {[io |-> io, data |-> data]} :
          \E e \in events \cup {event} :
            InPollset(e) \in set \cup {InPollset(event)} /\ e.io = c.io /\ e.data = c.data
    BY <1>1 DEF Follows
  <2> QED
    BY <1>3, <2>1, <2>2, <2>3 DEF Follows
<1> QED
  BY <1>4, <1>5 DEF event

(* A new poll set with all events of the list, refused ones included.      *)
LEMMA GrownFollows ==
  ASSUME NEW events, NEW set, NEW client, Follows(events, set, client)
  PROVE  Follows(events, {InPollset(e) : e \in events}, client)
<1>1. \A e : InPollset(e).io = e.io /\ InPollset(e).client_data = e.adr
  BY DEF InPollset
<1> QED
  BY <1>1 DEF Follows

LEMMA DeletedFollows ==
  ASSUME NEW events, NEW set, NEW client, Follows(events, set, client), NEW io
  PROVE  \A fewer_events, fewer_set, fewer_client :
           /\ \A e : e \in fewer_events <=> e \in events /\ e.io # io
           /\ \A p : p \in fewer_set <=> p \in set /\ p.io # io
           /\ \A c : c \in fewer_client <=> c \in client /\ c.io # io
           => Follows(fewer_events, fewer_set, fewer_client)
<1>1. \A e : InPollset(e).io = e.io
  BY DEF InPollset
<1> QED
  BY <1>1 DEF Follows

-----------------------------------------------------------------------------
LEMMA PollInit == PL_Init => PL_Inv
  BY FS_EmptySet DEF PL_Init, PL_Inv, Follows, Counted

(* A poll set with which an addition may be tried: the one there is, or a  *)
(* larger one with all events.                                             *)
LEMMA AddEventStep ==
  ASSUME PL_Inv, NEW io \in PL_Ios, NEW data \in PL_Data,
         NEW set, set \in {pl_set, {InPollset(e) : e \in pl_events}},
         AddEvent(io, data, set)
  PROVE  PL_Inv'
<1>1. Follows(pl_events, set, pl_client)
  BY GrownFollows DEF PL_Inv
<1>2. set \subseteq [io : PL_Ios, client_data : Addresses]
  BY DEF PL_Inv, InPollset, Event
<1>3. CASE \E e \in pl_events : e.io = io
  BY <1>1, <1>2, <1>3 DEF AddEvent, PL_Inv, Counted
<1>4. CASE ~ \E e \in pl_events : e.io = io
  <2> DEFINE event == [adr |-> FreeAddress, io |-> io, data |-> data]
  <2>1. event \in Event /\ InPollset(event) \in [io : PL_Ios, client_data : Addresses]
    BY FreeAddressIsFree DEF Event, InPollset
  <2>2. /\ Follows(pl_events \cup {event}, set, pl_client)
        /\ Follows(pl_events \cup {event}, set \cup {InPollset(event)},
                   pl_client \cup {[io |-> io, data |-> data]})
    <3>1. \A e \in pl_events : e.adr # FreeAddress
      BY FreeAddressIsFree
    <3>2. \A e \in pl_events : e.io # io
      BY <1>4
    <3> QED
      BY <1>1, <3>1, <3>2, AddedFollows
  <2>3. /\ IsFiniteSet(pl_client \cup {[io |-> io, data |-> data]})
        /\ Cardinality(pl_client \cup {[io |-> io, data |-> data]}) <= pl_num + 1
    <3>1. IsFiniteSet(pl_client) /\ Cardinality(pl_client) \in Nat
          /\ Cardinality(pl_client) <= pl_num /\ pl_num \in Nat
      BY FS_CardinalityType DEF PL_Inv, Counted
    <3> DEFINE added == [io |-> io, data |-> data]
    <3> HIDE DEF added
    <3>2. /\ IsFiniteSet(pl_client \cup {added})
          /\ \/ Cardinality(pl_client \cup {added}) = Cardinality(pl_client)
             \/ Cardinality(pl_client \cup {added}) = Cardinality(pl_client) + 1
      BY <3>1, FS_AddElement
    <3>3. Cardinality(pl_client \cup {added}) <= pl_num + 1
      BY <3>1, <3>2
    <3> QED
      BY <3>2, <3>3 DEF added
  <2> HIDE DEF event
  <2>4. /\ pl_events' = pl_events \cup {event}
        /\ \/ /\ pl_set' = set \cup {InPollset(event)}
              /\ pl_num' = pl_num + 1
              /\ pl_client' = pl_client \cup {[io |-> io, data |-> data]}
           \/ pl_set' = set /\ UNCHANGED <<pl_num, pl_client>>
    BY <1>4 DEF AddEvent, event
  <2>5. pl_events' \subseteq Event /\ pl_set' \subseteq [io : PL_Ios, client_data : Addresses]
    BY <1>2, <2>1, <2>4 DEF PL_Inv
  <2>6. Follows(pl_events', pl_set', pl_client')
    BY <2>2, <2>4
  <2>7. Counted'
    <3>1. CASE UNCHANGED <<pl_num, pl_client>>
      BY <3>1 DEF PL_Inv, Counted
    <3>2. CASE pl_num' = pl_num + 1 /\ pl_client' = pl_client \cup {[io |-> io, data |-> data]}
      <4>1. pl_num + 1 \in Nat
        BY DEF PL_Inv, Counted
      <4> QED
        BY <2>3, <3>2, <4>1, Zenon DEF Counted
    <3> QED
      BY <2>4, <3>1, <3>2
  <2> QED
    BY <2>5, <2>6, <2>7 DEF PL_Inv
<1> QED
  BY <1>3, <1>4

LEMMA AddStep == PL_Inv /\ PL_Add => PL_Inv'
<1> SUFFICES ASSUME PL_Inv, PL_Add
             PROVE  PL_Inv'
  OBVIOUS
<1>1. PICK io \in PL_Ios, data \in PL_Data :
        \/ UNCHANGED <<pl_events, pl_set, pl_num, pl_client>>
        \/ AddEvent(io, data, pl_set)
        \/ \E max : \E grown \in Increased(pl_events, pl_set, max) :
             IF grown.ok THEN AddEvent(io, data, grown.set)
             ELSE pl_set' = grown.set /\ UNCHANGED <<pl_events, pl_num, pl_client>>
  BY DEF PL_Add
<1>2. CASE UNCHANGED <<pl_events, pl_set, pl_num, pl_client>>
  BY <1>2 DEF PL_Inv, Counted
<1>3. CASE AddEvent(io, data, pl_set)
  BY <1>3, AddEventStep
<1>4. ASSUME NEW max, NEW grown \in Increased(pl_events, pl_set, max),
             IF grown.ok THEN AddEvent(io, data, grown.set)
             ELSE pl_set' = grown.set /\ UNCHANGED <<pl_events, pl_num, pl_client>>
      PROVE  PL_Inv'
  <2>1. \/ grown.ok /\ grown.set = {InPollset(e) : e \in pl_events}
        \/ ~grown.ok /\ grown.set = pl_set
    BY DEF Increased
  <2>2. CASE grown.ok /\ grown.set = {InPollset(e) : e \in pl_events}
    BY <1>4, <2>2, AddEventStep
  <2>3. CASE ~grown.ok /\ grown.set = pl_set
    BY <1>4, <2>3 DEF PL_Inv, Counted
  <2> QED
    BY <2>1, <2>2, <2>3
<1> QED
  BY <1>1, <1>2, <1>3, <1>4

LEMMA DeleteStep == PL_Inv /\ PL_Delete => PL_Inv'
<1> SUFFICES ASSUME PL_Inv, PL_Delete
             PROVE  PL_Inv'
  OBVIOUS
<1>1. PICK io \in PL_Ios :
        /\ pl_events' = {e \in pl_events : e.io # io}
        /\ pl_set' = {p \in pl_set : p.io # io}
        /\ pl_client' = {c \in pl_client : c.io # io}
  BY DEF PL_Delete
<1>2. Follows(pl_events', pl_set', pl_client')
  <2>1. Follows(pl_events, pl_set, pl_client)
    BY DEF PL_Inv
  <2>2. /\ \A e : e \in pl_events' <=> e \in pl_events /\ e.io # io
        /\ \A p : p \in pl_set' <=> p \in pl_set /\ p.io # io
        /\ \A c : c \in pl_client' <=> c \in pl_client /\ c.io # io
    BY <1>1
  <2>3. \A fewer_events, fewer_set, fewer_client :
           /\ \A e : e \in fewer_events <=> e \in pl_events /\ e.io # io
           /\ \A p : p \in fewer_set <=> p \in pl_set /\ p.io # io
           /\ \A c : c \in fewer_client <=> c \in pl_client /\ c.io # io
           => Follows(fewer_events, fewer_set, fewer_client)
    BY <2>1, DeletedFollows
  <2> QED
    BY <2>2, <2>3
<1>3. Counted'
  <2>1. pl_client' \in SUBSET pl_client /\ pl_num' = pl_num
    BY <1>1 DEF PL_Delete
  <2>2. /\ IsFiniteSet(pl_client') /\ Cardinality(pl_client') <= Cardinality(pl_client)
        /\ Cardinality(pl_client') \in Nat /\ Cardinality(pl_client) \in Nat
    BY <2>1, FS_Subset, FS_CardinalityType DEF PL_Inv, Counted
  <2> QED
    BY <2>1, <2>2 DEF PL_Inv, Counted
<1> QED
  BY <1>1, <1>2, <1>3 DEF PL_Inv

LEMMA PollStep == PL_Inv /\ [PL_Next]_pl_vars => PL_Inv'
<1> SUFFICES ASSUME PL_Inv, [PL_Next]_pl_vars
             PROVE  PL_Inv'
  OBVIOUS
<1>1. CASE PL_Wait
  BY <1>1 DEF PL_Wait, PL_Inv, Counted
<1>2. CASE PL_Undo
  BY <1>2, FS_EmptySet DEF PL_Undo, PL_Inv, Follows, Counted
<1>3. CASE UNCHANGED pl_vars
  BY <1>3 DEF pl_vars, PL_Inv, Counted
<1> QED
  BY <1>1, <1>2, <1>3, AddStep, DeleteStep DEF PL_Next

(* However many descriptors are added, refused, deleted and added again,   *)
(* and however often the poll set is replaced by a larger one, its client  *)
(* data are events of the list, it has every descriptor that was added,    *)
(* once, and num_descriptors counts all of them (jr_poll_add_generic,      *)
(* jr_poll_increase_capacity, jr_poll_delete_generic).                     *)
THEOREM SetFollowsClient == PL_Spec => []PL_SetFollowsClient
<1>1. PL_Inv => PL_SetFollowsClient
  BY DEF PL_Inv, Follows, Counted, PL_SetFollowsClient
<1> QED
  BY <1>1, PollInit, PollStep, PTL DEF PL_Spec

-----------------------------------------------------------------------------
(* What is printed.                                                       *)

Text == Seq(ABChars)
Devices == {d \in [data : Text, place : Nat] : d.place <= Len(d.data)}

(* What printf has inserted is what the buffer and the device have more    *)
(* than before it began: what the client is told when it fails.            *)
PrintfCounts ==
  ab_met = {} /\ ~AB_Idle =>
    Put(ab_device, ab_buffer) = Put(ab_printf.before, ab_printf.done)

(* A stream's place is its end, and of the bytes the client was told of,   *)
(* and of those before a printf with what it has inserted, none is missing.*)
AtEnd(d) == d.place = Len(d.data)
NoneMissing ==
  ab_kind = "socket" =>
    /\ AtEnd(ab_device) /\ AtEnd(ab_wanted) /\ AtEnd(ab_printf.before)
    /\ Len(ab_device.data) + Len(ab_buffer) + Len(ab_printf.left) >= Len(ab_wanted.data)
    /\ ~AB_Idle => Len(ab_device.data) + Len(ab_buffer)
                     >= Len(ab_printf.before.data) + Len(ab_printf.done)

AB_TypeOK ==
  /\ ab_buffer \in Text
  /\ ab_device \in Devices /\ ab_wanted \in Devices
  /\ ab_printf \in [before : Devices, done : Text, left : Text]

AB_Inv == AB_TypeOK /\ PrintfCounts /\ NoneMissing /\ AB_Arrives

-----------------------------------------------------------------------------
(* A text is cut in two.                                                   *)

LEMMA Cut ==
  ASSUME NEW s \in Text, NEW k \in 0 .. Len(s)
  PROVE  /\ SubSeq(s, 1, k) \in Text
         /\ SubSeq(s, k + 1, Len(s)) \in Text
         /\ Len(SubSeq(s, 1, k)) = k
         /\ Len(SubSeq(s, k + 1, Len(s))) = Len(s) - k
         /\ SubSeq(s, 1, k) \o SubSeq(s, k + 1, Len(s)) = s
<1>1. Len(s) \in Nat /\ \A i \in 1 .. Len(s) : s[i] \in ABChars
  BY LenProperties, ElementOfSeq DEF Text
<1>2. /\ SubSeq(s, 1, k) \in Text
      /\ Len(SubSeq(s, 1, k)) = k
  <2>1. \A i \in 1 .. k : s[i] \in ABChars
    BY <1>1
  <2> QED
    BY <1>1, <2>1, SubSeqProperties DEF Text
<1>3. /\ SubSeq(s, k + 1, Len(s)) \in Text
      /\ Len(SubSeq(s, k + 1, Len(s))) = Len(s) - k
  <2>1. \A i \in k + 1 .. Len(s) : s[i] \in ABChars
    BY <1>1
  <2> QED
    BY <1>1, <2>1, SubSeqProperties DEF Text
<1>4. SubSeq(s, 1, k) \o SubSeq(s, k + 1, Len(s)) = SubSeq(s, 1, Len(s))
  <2>1. 1 \in 1 .. Len(s) + 1 /\ k \in 1 - 1 .. Len(s) /\ Len(s) \in k .. Len(s) /\ s \in Seq(ABChars)
    BY <1>1 DEF Text
  <2> QED
    BY <2>1, ConcatAdjacentSubSeq
<1> QED
  BY <1>2, <1>3, <1>4, SubSeqFull DEF Text

(* Three texts are joined: where each byte comes from.                     *)
LEMMA Joined ==
  ASSUME NEW f \in Text, NEW t \in Text, NEW b \in Text
  PROVE  /\ f \o t \o b \in Text
         /\ Len(f \o t \o b) = Len(f) + Len(t) + Len(b)
         /\ \A i \in 1 .. Len(f) + Len(t) + Len(b) :
              (f \o t \o b)[i] = IF i <= Len(f) THEN f[i]
                                 ELSE IF i <= Len(f) + Len(t) THEN t[i - Len(f)]
                                 ELSE b[i - (Len(f) + Len(t))]
<1>1. Len(f) \in Nat /\ Len(t) \in Nat /\ Len(b) \in Nat
  BY LenProperties DEF Text
<1>2. /\ f \o t \in Text /\ Len(f \o t) = Len(f) + Len(t)
      /\ \A i \in 1 .. Len(f) + Len(t) :
           (f \o t)[i] = IF i <= Len(f) THEN f[i] ELSE t[i - Len(f)]
  BY ConcatProperties DEF Text
<1> DEFINE g == f \o t
<1>3. /\ g \o b \in Text /\ Len(g \o b) = Len(g) + Len(b)
      /\ \A i \in 1 .. Len(g) + Len(b) :
           (g \o b)[i] = IF i <= Len(g) THEN g[i] ELSE b[i - Len(g)]
  <2> HIDE DEF g
  <2>1. g \in Text
    BY <1>2 DEF g
  <2> QED
    BY <2>1, ConcatProperties DEF Text
<1>4. g \in Text /\ Len(g) = Len(f) + Len(t)
      /\ \A i \in 1 .. Len(f) + Len(t) : g[i] = IF i <= Len(f) THEN f[i] ELSE t[i - Len(f)]
  BY <1>2
<1> HIDE DEF g
<1>5. ASSUME NEW i \in 1 .. Len(f) + Len(t) + Len(b)
      PROVE  (g \o b)[i] = IF i <= Len(f) THEN f[i]
                           ELSE IF i <= Len(f) + Len(t) THEN t[i - Len(f)]
                           ELSE b[i - (Len(f) + Len(t))]
  <2>1. i \in 1 .. Len(g) + Len(b) /\ (i <= Len(g) => i \in 1 .. Len(f) + Len(t))
    BY <1>1, <1>4
  <2>2. (g \o b)[i] = IF i <= Len(g) THEN g[i] ELSE b[i - Len(g)]
    BY <1>3, <2>1
  <2> QED
    BY <1>1, <1>4, <2>1, <2>2
<1> QED
  BY <1>3, <1>4, <1>5 DEF g

(* Bytes put at the place of a device: what each byte is then.             *)
LEMMA PutAt ==
  ASSUME NEW d \in Devices, NEW t \in Text
  PROVE  /\ Put(d, t) \in Devices
         /\ Put(d, t).place = d.place + Len(t)
         /\ Len(Put(d, t).data) =
              IF d.place + Len(t) <= Len(d.data) THEN Len(d.data) ELSE d.place + Len(t)
         /\ \A i \in 1 .. Len(Put(d, t).data) :
              Put(d, t).data[i] =
                IF i <= d.place \/ i > d.place + Len(t) THEN d.data[i] ELSE t[i - d.place]
<1> DEFINE n == Len(d.data)
           p == d.place
           end == p + Len(t)
           front == SubSeq(d.data, 1, p)
           back == SubSeq(d.data, end + 1, n)
<1>1. d.data \in Text /\ p \in Nat /\ p <= n /\ n \in Nat /\ Len(t) \in Nat
  BY LenProperties DEF Devices, Text
<1>2. \A i \in 1 .. n : d.data[i] \in ABChars
  BY <1>1, ElementOfSeq DEF Text
<1>3. /\ front \in Text /\ Len(front) = p
      /\ \A i \in 1 .. p : front[i] = d.data[i]
  <2>1. \A i \in 1 .. p : d.data[i] \in ABChars
    BY <1>1, <1>2
  <2>2. /\ front \in Text
        /\ Len(front) = IF 1 <= p THEN p - 1 + 1 ELSE 0
        /\ \A i \in 1 .. p - 1 + 1 : front[i] = d.data[1 + i - 1]
    BY <1>1, <2>1, SubSeqProperties DEF Text
  <2> HIDE DEF front, p
  <2> QED
    BY <1>1, <2>2
<1>4. /\ back \in Text
      /\ Len(back) = IF end < n THEN n - end ELSE 0
      /\ \A i \in 1 .. Len(back) : back[i] = d.data[end + i]
  <2>3. end \in Nat /\ end + 1 \in Int /\ n \in Int
    BY <1>1
  <2> HIDE DEF end, n
  <2>1. \A i \in end + 1 .. n : d.data[i] \in ABChars
    BY <1>2, <2>3
  <2>2. /\ back \in Text
        /\ Len(back) = IF end + 1 <= n THEN n - (end + 1) + 1 ELSE 0
        /\ \A i \in 1 .. n - (end + 1) + 1 : back[i] = d.data[end + 1 + i - 1]
    BY <2>1, <2>3, SubSeqProperties DEF Text
  <2> HIDE DEF back
  <2>4. \A i \in 1 .. Len(back) : i \in 1 .. n - (end + 1) + 1 /\ end + 1 + i - 1 = end + i
    BY <2>2, <2>3
  <2>5. \A i \in 1 .. Len(back) : back[i] = d.data[end + i]
    BY <2>2, <2>4
  <2>6. Len(back) = IF end < n THEN n - end ELSE 0
    BY ONLY <2>2, <2>3
  <2> QED
    BY <2>2, <2>5, <2>6
<1> DEFINE data == front \o t \o back
<1>5. Put(d, t) = [data |-> data, place |-> end]
  BY DEF Put
<1> HIDE DEF front, back
<1>6. /\ data \in Text
      /\ Len(data) = Len(front) + Len(t) + Len(back)
      /\ \A i \in 1 .. Len(front) + Len(t) + Len(back) :
           data[i] = IF i <= Len(front) THEN front[i]
                     ELSE IF i <= Len(front) + Len(t) THEN t[i - Len(front)]
                     ELSE back[i - (Len(front) + Len(t))]
  BY <1>3, <1>4, Joined
<1> HIDE DEF data
<1>7. end \in Nat /\ end = p + Len(t)
  BY <1>1
<1> HIDE DEF end, n, p
<1>8. Len(data) = IF end <= n THEN n ELSE end
  <2>1. p \in Nat /\ n \in Nat /\ Len(t) \in Nat /\ p <= n
    BY <1>1
  <2>2. Len(front) = p /\ Len(back) = IF end < n THEN n - end ELSE 0
    BY <1>3, <1>4, <2>1
  <2>3. Len(data) = Len(front) + Len(t) + Len(back)
    BY <1>6
  <2>4. Len(data) = end + Len(back)
    BY <1>7, <2>1, <2>2, <2>3
  <2>5. CASE end < n
    BY <1>7, <2>1, <2>2, <2>4, <2>5
  <2>6. CASE ~(end < n)
    BY <1>7, <2>1, <2>2, <2>4, <2>6
  <2> QED
    BY <2>5, <2>6
<1>9. ASSUME NEW i \in 1 .. Len(data)
      PROVE  data[i] = IF i <= p \/ i > end THEN d.data[i] ELSE t[i - p]
  <2>1. data[i] = IF i <= p THEN front[i] ELSE IF i <= end THEN t[i - p] ELSE back[i - end]
    BY <1>3, <1>6, <1>7
  <2>2. /\ i <= p => i \in 1 .. p
        /\ i > end => i - end \in 1 .. Len(back) /\ end + (i - end) = i
    BY <1>1, <1>4, <1>7, <1>8
  <2>3. CASE i <= p
    BY <1>3, <2>1, <2>2, <2>3
  <2>4. CASE i > p /\ i <= end
    <3>1. ~(i <= p \/ i > end) /\ ~(i <= p)
      BY <1>1, <1>7, <2>4
    <3> QED
      BY <2>1, <2>4, <3>1
  <2>5. CASE i > end
    <3>1. ~(i <= p) /\ ~(i <= end)
      BY <1>1, <1>7, <2>5
    <3> QED
      BY <1>4, <2>1, <2>2, <2>5, <3>1
  <2> QED
    BY <1>1, <1>7, <2>3, <2>4, <2>5
<1>10. [data |-> data, place |-> end] \in Devices
  BY <1>1, <1>6, <1>7, <1>8 DEF Devices
<1> QED
  BY <1>5, <1>7, <1>8, <1>9, <1>10 DEF end, p, n

LEMMA SameDevice ==
  ASSUME NEW d \in Devices, NEW e \in Devices, d.place = e.place,
         Len(d.data) = Len(e.data), \A i \in 1 .. Len(d.data) : d.data[i] = e.data[i]
  PROVE  d = e
<1>1. d.data = e.data
  BY SeqEqual DEF Devices, Text
<1> QED
  BY <1>1 DEF Devices

(* Nothing put changes nothing.                                            *)
LEMMA PutNothing ==
  ASSUME NEW d \in Devices
  PROVE  Put(d, <<>>) = d
<1>1. <<>> \in Text /\ Len(<<>>) = 0 /\ d.place \in Nat /\ d.place <= Len(d.data) /\ Len(d.data) \in Nat
  BY EmptySeq, LenProperties DEF Text, Devices
<1> DEFINE r == Put(d, <<>>)
<1>2. /\ r \in Devices /\ r.place = d.place + 0
      /\ Len(r.data) = IF d.place + 0 <= Len(d.data) THEN Len(d.data) ELSE d.place + 0
      /\ \A i \in 1 .. Len(r.data) :
           r.data[i] = IF i <= d.place \/ i > d.place + 0 THEN d.data[i] ELSE <<>>[i - d.place]
  BY <1>1, PutAt
<1>3. r.place = d.place /\ Len(r.data) = Len(d.data)
  BY <1>1, <1>2
<1>4. \A i \in 1 .. Len(r.data) : r.data[i] = d.data[i]
  BY <1>1, <1>2, <1>3
<1> HIDE DEF r
<1>5. r = d
  BY <1>2, <1>3, <1>4, SameDevice
<1> QED
  BY <1>5 DEF r

(* One text put behind the other is both put at once.                      *)
LEMMA PutTwice ==
  ASSUME NEW d \in Devices, NEW s \in Text, NEW t \in Text
  PROVE  Put(Put(d, s), t) = Put(d, s \o t)
<1> DEFINE a == Put(d, s)  b == Put(a, t)  c == Put(d, s \o t)
           n == Len(d.data)  p == d.place  ls == Len(s)  lt == Len(t)
<1>1. p \in Nat /\ n \in Nat /\ ls \in Nat /\ lt \in Nat /\ p <= n
  BY LenProperties DEF Text, Devices
<1>2. /\ s \o t \in Text /\ Len(s \o t) = ls + lt
      /\ \A i \in 1 .. ls + lt : (s \o t)[i] = IF i <= ls THEN s[i] ELSE t[i - ls]
  BY ConcatProperties DEF Text
<1>3. /\ a \in Devices /\ a.place = p + ls
      /\ Len(a.data) = IF p + ls <= n THEN n ELSE p + ls
      /\ \A i \in 1 .. Len(a.data) :
           a.data[i] = IF i <= p \/ i > p + ls THEN d.data[i] ELSE s[i - p]
  BY PutAt
<1>4. /\ b \in Devices /\ b.place = a.place + lt
      /\ Len(b.data) = IF a.place + lt <= Len(a.data) THEN Len(a.data) ELSE a.place + lt
      /\ \A i \in 1 .. Len(b.data) :
           b.data[i] = IF i <= a.place \/ i > a.place + lt THEN a.data[i] ELSE t[i - a.place]
  <2> HIDE DEF a
  <2> QED
    BY <1>3, PutAt
<1>5. /\ c \in Devices /\ c.place = p + (ls + lt)
      /\ Len(c.data) = IF p + (ls + lt) <= n THEN n ELSE p + (ls + lt)
      /\ \A i \in 1 .. Len(c.data) :
           c.data[i] = IF i <= p \/ i > p + (ls + lt) THEN d.data[i] ELSE (s \o t)[i - p]
  BY <1>2, PutAt
<1> HIDE DEF a, b, c
<1>6. b.place = c.place /\ Len(b.data) = Len(c.data)
  BY <1>1, <1>3, <1>4, <1>5
<1>7. ASSUME NEW i \in 1 .. Len(b.data)
      PROVE  b.data[i] = c.data[i]
  <2>1. i \in Nat /\ i >= 1 /\ i <= Len(b.data) /\ i \in 1 .. Len(c.data)
    BY <1>1, <1>3, <1>4, <1>6
  <2>2. CASE i <= p
    <3>1. i \in 1 .. Len(a.data)
      BY <1>1, <1>3, <2>1, <2>2
    <3>2. b.data[i] = a.data[i]
      BY <1>1, <1>3, <1>4, <2>1, <2>2
    <3> QED
      BY <1>3, <1>5, <2>1, <2>2, <3>1, <3>2
  <2>3. CASE i > p /\ i <= p + ls
    <3>1. i \in 1 .. Len(a.data) /\ i - p \in 1 .. ls + lt /\ i - p <= ls
      BY <1>1, <1>3, <2>1, <2>3
    <3>2. b.data[i] = a.data[i]
      BY <1>1, <1>3, <1>4, <2>1, <2>3
    <3>3. ~(i <= p \/ i > p + ls) /\ ~(i <= p \/ i > p + (ls + lt))
      BY <1>1, <2>1, <2>3
    <3>4. a.data[i] = s[i - p]
      BY <1>3, <3>1, <3>3
    <3>5. c.data[i] = (s \o t)[i - p]
      BY <1>5, <2>1, <3>3
    <3> QED
      BY <1>2, <3>1, <3>2, <3>4, <3>5
  <2>4. CASE i > p + ls /\ i <= p + (ls + lt)
    <3>1. i - p \in 1 .. ls + lt /\ ~(i - p <= ls) /\ (i - p) - ls = i - (p + ls)
      BY <1>1, <2>1, <2>4
    <3>2. b.data[i] = t[i - (p + ls)]
      BY <1>1, <1>3, <1>4, <2>1, <2>4
    <3>3. ~(i <= p \/ i > p + (ls + lt))
      BY <1>1, <2>1, <2>4
    <3>4. c.data[i] = (s \o t)[i - p]
      BY <1>5, <2>1, <3>3
    <3> QED
      BY <1>2, <3>1, <3>2, <3>4
  <2>5. CASE i > p + (ls + lt)
    <3>1. i \in 1 .. Len(a.data)
      BY <1>1, <1>3, <1>4, <2>1, <2>5
    <3>2. b.data[i] = a.data[i]
      BY <1>1, <1>3, <1>4, <2>1, <2>5
    <3>3. a.data[i] = d.data[i]
      BY <1>1, <1>3, <2>5, <3>1
    <3> QED
      BY <1>1, <1>5, <2>1, <2>5, <3>2, <3>3
  <2> QED
    BY <1>1, <2>1, <2>2, <2>3, <2>4, <2>5
<1>8. b = c
  BY <1>4, <1>5, <1>6, <1>7, SameDevice
<1> QED
  BY <1>8 DEF a, b, c

(* What is put at the end of a stream makes it longer.                     *)
LEMMA PutAtEnd ==
  ASSUME NEW d \in Devices, NEW t \in Text, AtEnd(d)
  PROVE  /\ AtEnd(Put(d, t)) /\ Len(Put(d, t).data) = Len(d.data) + Len(t)
         /\ Len(d.data) \in Nat /\ Len(t) \in Nat
<1>1. Len(d.data) \in Nat /\ Len(t) \in Nat /\ d.place = Len(d.data)
  BY LenProperties DEF Devices, Text, AtEnd
<1>2. /\ Put(d, t).place = d.place + Len(t)
      /\ Len(Put(d, t).data) = IF d.place + Len(t) <= Len(d.data) THEN Len(d.data)
                                                                  ELSE d.place + Len(t)
  BY PutAt
<1> QED
  BY <1>1, <1>2 DEF AtEnd

(* A part of the buffer goes out: with the rest it is what it was.         *)
LEMMA FlushKeeps ==
  ASSUME AB_TypeOK, NEW k \in Taken \cup {0}
  PROVE  LET taken == SubSeq(ab_buffer, 1, k)
             rest == SubSeq(ab_buffer, k + 1, Len(ab_buffer)) IN
         /\ rest \in Text /\ Len(rest) <= Len(ab_buffer)
         /\ Put(ab_device, taken) \in Devices
         /\ Put(Put(ab_device, taken), rest) = Put(ab_device, ab_buffer)
         /\ AtEnd(ab_device) =>
              /\ AtEnd(Put(ab_device, taken))
              /\ Len(Put(ab_device, taken).data) + Len(rest) = Len(ab_device.data) + Len(ab_buffer)
<1>1. ab_buffer \in Text /\ ab_device \in Devices /\ Len(ab_buffer) \in Nat
  BY LenProperties DEF AB_TypeOK, Text
<1>2. k \in 0 .. Len(ab_buffer)
  BY <1>1 DEF Taken
<1> DEFINE taken == SubSeq(ab_buffer, 1, k)
           rest == SubSeq(ab_buffer, k + 1, Len(ab_buffer))
<1>3. /\ taken \in Text /\ rest \in Text /\ taken \o rest = ab_buffer
      /\ Len(rest) = Len(ab_buffer) - k /\ Len(taken) = k
  BY <1>1, <1>2, Cut
<1> HIDE DEF taken, rest
<1>4. Len(rest) <= Len(ab_buffer)
  BY <1>1, <1>2, <1>3
<1>5. /\ Put(ab_device, taken) \in Devices
      /\ Put(Put(ab_device, taken), rest) = Put(ab_device, ab_buffer)
  BY <1>1, <1>3, PutAt, PutTwice
<1>6. ASSUME AtEnd(ab_device)
      PROVE  /\ AtEnd(Put(ab_device, taken))
             /\ Len(Put(ab_device, taken).data) + Len(rest) = Len(ab_device.data) + Len(ab_buffer)
  <2>1. /\ AtEnd(Put(ab_device, taken)) /\ Len(ab_device.data) \in Nat
        /\ Len(Put(ab_device, taken).data) = Len(ab_device.data) + k
    BY <1>1, <1>3, <1>6, PutAtEnd
  <2> QED
    BY <1>1, <1>2, <1>3, <2>1
<1> QED
  BY <1>3, <1>4, <1>5, <1>6 DEF taken, rest

LEMMA NothingAndOne ==
  ASSUME NEW s \in Text, NEW c \in ABChars
  PROVE  /\ <<>> \in Text /\ s \o <<>> = s /\ <<c>> \in Text
         /\ Append(s, c) \in Text /\ Append(s, c) = s \o <<c>> /\ Len(Append(s, c)) = Len(s) + 1
  BY ConcatEmptySeq, AppendIsConcat, AppendProperties DEF Text

(* Sums of lengths.                                                        *)
LEMMA MoreOf ==
  ASSUME NEW a \in Nat, NEW b \in Nat, NEW c \in Nat, NEW n \in Nat,
         a + b + c >= n
  PROVE  a + (b + c) >= n
  OBVIOUS

LEMMA OneMoved ==
  ASSUME NEW a \in Nat, NEW b \in Nat, NEW c \in Nat, NEW n \in Nat, NEW m \in Nat, NEW k \in Nat
  PROVE  /\ a + b + (c + 1) >= n => a + (b + 1) + c >= n
         /\ a + b >= m + k => a + (b + 1) >= m + (k + 1)
         /\ a + b >= m + k => a + b + 0 >= m + k
  OBVIOUS

(* AB_Arrives of a stream counts what is to come.                          *)
LEMMA NoneMissed ==
  ASSUME ab_device' \in Devices, ab_buffer' \in Text, ab_printf'.left \in Text,
         ab_wanted' \in Devices, NoneMissing', ab_kind' = "socket"
  PROVE  Len(Put(ab_device', ab_buffer' \o ab_printf'.left).data) >= Len(ab_wanted'.data)
<1>1. /\ ab_buffer' \o ab_printf'.left \in Text
      /\ Len(ab_buffer' \o ab_printf'.left) = Len(ab_buffer') + Len(ab_printf'.left)
      /\ Len(ab_buffer') \in Nat /\ Len(ab_printf'.left) \in Nat
  BY ConcatProperties, LenProperties DEF Text
<1>2. /\ AtEnd(ab_device')
      /\ Len(ab_device'.data) + Len(ab_buffer') + Len(ab_printf'.left) >= Len(ab_wanted'.data)
  BY DEF NoneMissing
<1>3. /\ Len(Put(ab_device', ab_buffer' \o ab_printf'.left).data) = Len(ab_device'.data) + Len(ab_buffer' \o ab_printf'.left)
      /\ Len(ab_device'.data) \in Nat /\ Len(ab_wanted'.data) \in Nat
  BY <1>1, <1>2, PutAtEnd, LenProperties DEF Devices, Text
<1>4. Len(ab_device'.data) + (Len(ab_buffer') + Len(ab_printf'.left)) >= Len(ab_wanted'.data)
  BY <1>1, <1>2, <1>3, MoreOf
<1> QED
  BY <1>1, <1>3, <1>4

(* A call that finds printf at rest.                                       *)
LEMMA QuietInv ==
  ASSUME AB_TypeOK, NoneMissing, AB_Idle, ab_printf' = ab_printf, ab_kind' = ab_kind,
         ab_buffer' \in Text, Len(ab_buffer') <= ABSize,
         ab_device' \in Devices, ab_wanted' \in Devices,
         ab_met' = {} => ab_wanted' = Put(ab_device', ab_buffer'),
         ab_kind = "socket" =>
           /\ AtEnd(ab_device') /\ AtEnd(ab_wanted')
           /\ Len(ab_device'.data) + Len(ab_buffer') >= Len(ab_wanted'.data)
  PROVE  AB_Inv'
<1>1. ab_printf' \in [before : Devices, done : Text, left : Text] /\ ab_printf'.left = <<>>
  BY DEF AB_TypeOK, AB_Idle
<1>2. ab_buffer' \o ab_printf'.left = ab_buffer'
  BY <1>1, ConcatEmptySeq DEF Text
<1>3. NoneMissing'
  <2>1. Len(<<>>) = 0 /\ Len(ab_device'.data) \in Nat /\ Len(ab_buffer') \in Nat
    BY LenProperties, EmptySeq DEF Text, Devices
  <2> QED
    BY <1>1, <2>1 DEF NoneMissing, AB_Idle
<1>4. ab_kind' = "socket" =>
          Len(Put(ab_device', ab_buffer' \o ab_printf'.left).data) >= Len(ab_wanted'.data)
  <2>1. ab_printf'.left \in Text
    BY <1>1
  <2>2. /\ ab_buffer' \o ab_printf'.left \in Text
        /\ Len(ab_buffer' \o ab_printf'.left) = Len(ab_buffer')
    BY <1>2
  <2>3. ab_kind' = "socket" =>
          Len(Put(ab_device', ab_buffer').data) = Len(ab_device'.data) + Len(ab_buffer')
    BY PutAtEnd
  <2> QED
    BY <1>2, <2>3
<1> QED
  BY <1>1, <1>2, <1>3, <1>4 DEF AB_Inv, AB_TypeOK, PrintfCounts, AB_Arrives, AB_Outcome, AB_Idle

LEMMA OutputStarts == AB_Init => AB_Inv
<1> SUFFICES ASSUME AB_Init PROVE AB_Inv
  OBVIOUS
<1>1. <<>> \in Text /\ Len(<<>>) = 0
  BY EmptySeq DEF Text
<1>2. NewDevice \in Devices
  BY <1>1 DEF NewDevice, Devices
<1>3. Put(NewDevice, <<>>) = NewDevice /\ <<>> \o <<>> = <<>>
  BY <1>1, <1>2, PutNothing, ConcatEmptySeq DEF Text
<1>4. AB_TypeOK
  BY <1>1, <1>2 DEF AB_Init, AB_TypeOK, NoPrintf
<1>5. PrintfCounts
  BY DEF AB_Init, PrintfCounts, AB_Idle, NoPrintf
<1>6. AB_Arrives
  BY <1>1, <1>3, OutputAssumption DEF AB_Init, AB_Arrives, AB_Outcome, NoPrintf, NewDevice
<1>7. NoneMissing
  BY <1>1 DEF AB_Init, NoneMissing, AtEnd, NewDevice, NoPrintf, AB_Idle
<1> QED
  BY <1>4, <1>5, <1>6, <1>7 DEF AB_Inv

LEMMA OutputSteps == AB_Inv /\ [AB_Next]_ab_vars => AB_Inv'
<1> SUFFICES ASSUME AB_Inv, [AB_Next]_ab_vars PROVE AB_Inv'
  OBVIOUS
<1> USE DEF AB_Inv
<1>1. /\ ab_buffer \in Text /\ Len(ab_buffer) \in Nat /\ Len(ab_buffer) <= ABSize
      /\ ab_device \in Devices /\ ab_wanted \in Devices
      /\ ab_printf.before \in Devices /\ ab_printf.done \in Text /\ ab_printf.left \in Text
  BY LenProperties DEF AB_TypeOK, AB_Arrives, Text
<1>2. <<>> \in Text /\ Len(<<>>) = 0 /\ ABSize \in Nat /\ 0 <= ABSize
  BY EmptySeq, OutputAssumption DEF Text
<1>3. /\ NewDevice \in Devices /\ Put(NewDevice, <<>>) = NewDevice
      /\ AtEnd(NewDevice) /\ Len(NewDevice.data) = 0
  <2>1. NewDevice \in Devices /\ AtEnd(NewDevice) /\ Len(NewDevice.data) = 0
    BY <1>2 DEF NewDevice, Devices, AtEnd
  <2> QED
    BY <2>1, PutNothing
<1>4. \A text \in ABTexts : text \in Text
  BY OutputAssumption DEF Text
<1>5. AB_Idle /\ ab_met = {} => ab_wanted = Put(ab_device, ab_buffer)
  BY <1>1, ConcatEmptySeq DEF AB_Arrives, AB_Outcome, AB_Idle, Text
<1>6. ab_buffer = <<>> => (AB_Idle /\ ab_met = {} => ab_wanted = ab_device)
  BY <1>1, <1>5, PutNothing
<1>23. ab_kind = "socket" => AtEnd(ab_device) /\ AtEnd(ab_wanted) /\ AtEnd(ab_printf.before)
  BY DEF NoneMissing
<1>24. Len(ab_device.data) \in Nat /\ Len(ab_wanted.data) \in Nat
       /\ Len(ab_printf.left) \in Nat /\ Len(ab_printf.done) \in Nat
       /\ Len(ab_printf.before.data) \in Nat
  BY <1>1, LenProperties DEF Devices, Text
<1>25. ab_kind = "socket" /\ AB_Idle => Len(ab_device.data) + Len(ab_buffer) >= Len(ab_wanted.data)
  BY <1>1, <1>2, <1>24 DEF NoneMissing, AB_Idle
<1>7. \A k \in Taken \cup {0} :
        LET taken == SubSeq(ab_buffer, 1, k)
            rest == SubSeq(ab_buffer, k + 1, Len(ab_buffer)) IN
        /\ rest \in Text /\ Len(rest) <= ABSize /\ Len(rest) \in Nat
        /\ Put(ab_device, taken) \in Devices
        /\ Put(Put(ab_device, taken), rest) = Put(ab_device, ab_buffer)
        /\ AtEnd(ab_device) =>
             /\ AtEnd(Put(ab_device, taken))
             /\ Len(Put(ab_device, taken).data) + Len(rest) = Len(ab_device.data) + Len(ab_buffer)
  <2> SUFFICES ASSUME NEW k \in Taken \cup {0}
               PROVE  LET taken == SubSeq(ab_buffer, 1, k)
                          rest == SubSeq(ab_buffer, k + 1, Len(ab_buffer)) IN
                      /\ rest \in Text /\ Len(rest) <= ABSize /\ Len(rest) \in Nat
                      /\ Put(ab_device, taken) \in Devices
                      /\ Put(Put(ab_device, taken), rest) = Put(ab_device, ab_buffer)
                      /\ AtEnd(ab_device) =>
                           /\ AtEnd(Put(ab_device, taken))
                           /\ Len(Put(ab_device, taken).data) + Len(rest)
                                = Len(ab_device.data) + Len(ab_buffer)
    OBVIOUS
  <2> DEFINE rest == SubSeq(ab_buffer, k + 1, Len(ab_buffer))
             out == Put(ab_device, SubSeq(ab_buffer, 1, k))
  <2>1. /\ rest \in Text /\ Len(rest) <= Len(ab_buffer)
        /\ out \in Devices /\ Put(out, rest) = Put(ab_device, ab_buffer)
        /\ AtEnd(ab_device) =>
             AtEnd(out) /\ Len(out.data) + Len(rest) = Len(ab_device.data) + Len(ab_buffer)
    BY FlushKeeps
  <2>2. Len(rest) \in Nat
    BY <2>1, LenProperties DEF Text
  <2> HIDE DEF rest, out
  <2>3. Len(rest) <= ABSize
    BY <1>1, <1>2, <2>1, <2>2
  <2> QED
    BY <2>1, <2>2, <2>3 DEF rest, out
<1>8. CASE AB_Open
  <2>1. /\ AB_Idle /\ ab_printf' = ab_printf /\ ab_buffer' = ab_buffer /\ ab_kind' = ab_kind
        /\ ab_device' = NewDevice /\ ab_wanted' = NewDevice
        /\ ab_met' = {} => ab_buffer' = <<>>
    BY <1>8 DEF AB_Open, AB_Call, Meets
  <2>2. ab_met' = {} => ab_wanted' = Put(ab_device', ab_buffer')
    BY <1>3, <2>1
  <2> QED
    BY <1>1, <1>3, <2>1, <2>2, QuietInv
<1>9. CASE AB_Printf
  <2>1. PICK text \in ABTexts :
          /\ ab_printf' = [before |-> ab_wanted, done |-> <<>>, left |-> text]
          /\ ab_wanted' = Put(ab_wanted, text)
    BY <1>9 DEF AB_Printf
  <2>2. AB_Idle /\ ab_buffer' = ab_buffer /\ ab_device' = ab_device /\ ab_met' = ab_met
        /\ ab_kind' = ab_kind
    BY <1>9 DEF AB_Printf, AB_Call
  <2>3. AB_TypeOK'
    BY <1>1, <1>2, <1>4, <2>1, <2>2, PutAt DEF AB_TypeOK
  <2>4. ab_met = {} => Put(ab_device, ab_buffer \o text) = Put(ab_wanted, text)
    BY <1>1, <1>4, <1>5, <2>2, PutTwice
  <2>5. PrintfCounts'
    BY <1>1, <1>5, <2>1, <2>2, PutNothing DEF PrintfCounts
  <2>6. ab_printf'.before = ab_wanted /\ ab_printf'.done = <<>> /\ ab_printf'.left = text
        /\ text \in Text
    BY <1>4, <2>1
  <2>7. NoneMissing'
    <3>1. ab_kind = "socket" =>
            AtEnd(ab_wanted') /\ Len(ab_wanted'.data) = Len(ab_wanted.data) + Len(text)
      BY <1>1, <1>23, <2>1, <2>6, PutAtEnd
    <3>2. Len(text) \in Nat
      BY <2>6, LenProperties DEF Text
    <3> QED
      BY <1>1, <1>2, <1>23, <1>24, <1>25, <2>2, <2>6, <3>1, <3>2 DEF NoneMissing
  <2>8. ab_kind' = "socket" =>
          Len(Put(ab_device', ab_buffer' \o ab_printf'.left).data) >= Len(ab_wanted'.data)
    <3>1. /\ ab_device' \in Devices /\ ab_buffer' \in Text /\ ab_printf'.left \in Text
          /\ ab_wanted' \in Devices
      BY <1>1, <2>2, <2>3, <2>6 DEF AB_TypeOK
    <3> QED
      BY <2>7, <3>1, NoneMissed
  <2> QED
    BY <1>1, <2>1, <2>2, <2>3, <2>4, <2>5, <2>6, <2>7, <2>8 DEF AB_Arrives, AB_Outcome
<1>10. CASE AB_Insert
  <2> DEFINE c == Head(ab_printf.left)  rest == Tail(ab_printf.left)
  <2>1. /\ ~AB_Idle /\ Len(ab_buffer) < ABSize
        /\ ab_buffer' = Append(ab_buffer, c)
        /\ ab_printf' = [ab_printf EXCEPT !.done = Append(@, c), !.left = rest]
        /\ ab_device' = ab_device /\ ab_wanted' = ab_wanted
        /\ ab_met' = ab_met /\ ab_kind' = ab_kind
    BY <1>10 DEF AB_Insert
  <2>2. c \in ABChars /\ rest \in Text /\ ab_printf.left = <<c>> \o rest
    <3>1. ab_printf.left \in Seq(ABChars) /\ ab_printf.left # <<>>
      BY <1>1, <2>1 DEF AB_Idle, Text
    <3>2. ab_printf.left = SubSeq(ab_printf.left, 1, Len(ab_printf.left))
          /\ Len(ab_printf.left) \in Nat \ {0}
      BY <3>1, SubSeqFull, EmptySeq
    <3>3. 1 \in 1 .. Len(ab_printf.left) /\ Len(ab_printf.left) \in 1 .. Len(ab_printf.left)
      BY <3>2
    <3>4. ab_printf.left = <<ab_printf.left[1]>> \o SubSeq(ab_printf.left, 2, Len(ab_printf.left))
      <4>1. SubSeq(ab_printf.left, 1, Len(ab_printf.left))
              = <<ab_printf.left[1]>> \o SubSeq(ab_printf.left, 1 + 1, Len(ab_printf.left))
        BY <3>1, <3>3, SubSeqRecursiveFirst
      <4> QED
        BY <3>2, <4>1
    <3>5. c = ab_printf.left[1]
      BY <3>1
    <3> QED
      BY <3>1, <3>4, <3>5, HeadTailProperties, TailIsSubSeq DEF Text
  <2> HIDE DEF c, rest
  <2>3. /\ Append(ab_buffer, c) \in Text /\ Append(ab_buffer, c) = ab_buffer \o <<c>>
        /\ Len(Append(ab_buffer, c)) = Len(ab_buffer) + 1
        /\ Append(ab_printf.done, c) \in Text /\ Append(ab_printf.done, c) = ab_printf.done \o <<c>>
        /\ <<c>> \in Text
    BY <1>1, <2>2, NothingAndOne
  <2>4. /\ ab_printf' \in [before : Devices, done : Text, left : Text]
        /\ ab_printf'.before = ab_printf.before /\ ab_printf'.done = Append(ab_printf.done, c)
        /\ ab_printf'.left = rest
    BY <2>1, <2>2, <2>3 DEF AB_TypeOK
  <2>5. ab_met = {} =>
          Put(ab_device, ab_buffer \o <<c>>) = Put(ab_printf.before, ab_printf.done \o <<c>>)
    <3>1. ab_met = {} => Put(ab_device, ab_buffer) = Put(ab_printf.before, ab_printf.done)
      BY <2>1 DEF PrintfCounts
    <3> QED
      BY <1>1, <2>3, <3>1, PutTwice
  <2>6. (ab_buffer \o <<c>>) \o rest = ab_buffer \o ab_printf.left
    BY <1>1, <2>2, <2>3, ConcatAssociative DEF Text
  <2>7. ab_met = {} => Put(ab_device, Append(ab_buffer, c) \o rest) = ab_wanted
    BY <2>3, <2>6 DEF AB_Arrives, AB_Outcome
  <2>8. Len(ab_buffer') <= ABSize
    BY <1>1, <1>2, <2>1, <2>3
  <2>9. AB_TypeOK'
    BY <1>1, <2>1, <2>3, <2>4 DEF AB_TypeOK
  <2>10. PrintfCounts'
    BY <2>1, <2>3, <2>4, <2>5 DEF PrintfCounts
  <2>11. NoneMissing'
    <3>1. /\ Len(ab_printf.left) = Len(rest) + 1 /\ Len(rest) \in Nat
          /\ Len(Append(ab_printf.done, c)) = Len(ab_printf.done) + 1
      <4>1. Len(<<c>>) = 1 /\ Len(rest) \in Nat
        BY <2>2, LenProperties DEF Text
      <4>2. Len(<<c>> \o rest) = Len(<<c>>) + Len(rest)
        BY <2>2, <2>3, ConcatProperties DEF Text
      <4> QED
        BY <1>1, <2>2, <4>1, <4>2, NothingAndOne
    <3>2. ab_kind = "socket" =>
            /\ Len(ab_device.data) + Len(ab_buffer) + (Len(rest) + 1) >= Len(ab_wanted.data)
            /\ Len(ab_device.data) + Len(ab_buffer)
                 >= Len(ab_printf.before.data) + Len(ab_printf.done)
      BY <2>1, <3>1 DEF NoneMissing
    <3>3. ab_kind = "socket" =>
            /\ Len(ab_device.data) + (Len(ab_buffer) + 1) + Len(rest) >= Len(ab_wanted.data)
            /\ Len(ab_device.data) + (Len(ab_buffer) + 1)
                 >= Len(ab_printf.before.data) + (Len(ab_printf.done) + 1)
      BY <1>1, <1>24, <3>1, <3>2, OneMoved
    <3> QED
      BY <1>23, <2>1, <2>3, <2>4, <3>1, <3>3 DEF NoneMissing
  <2>12. ab_kind' = "socket" =>
          Len(Put(ab_device', ab_buffer' \o ab_printf'.left).data) >= Len(ab_wanted'.data)
    <3>1. /\ ab_device' \in Devices /\ ab_buffer' \in Text /\ ab_printf'.left \in Text
          /\ ab_wanted' \in Devices
      BY <1>1, <2>1, <2>2, <2>3, <2>4
    <3> QED
      BY <2>11, <3>1, NoneMissed
  <2> QED
    BY <2>1, <2>4, <2>7, <2>8, <2>9, <2>10, <2>11, <2>12 DEF AB_Arrives, AB_Outcome
<1>11. ASSUME \E k \in Taken \cup {0} : FlushTakes(k), ab_printf' = ab_printf,
              ab_wanted' = ab_wanted, ab_met' = ab_met, ab_kind' = ab_kind
       PROVE  AB_Inv'
  <2>1. PICK k \in Taken \cup {0} : FlushTakes(k)
    BY <1>11
  <2> DEFINE rest == SubSeq(ab_buffer, k + 1, Len(ab_buffer))
  <2>2. ab_buffer' = rest /\ ab_device' = Put(ab_device, SubSeq(ab_buffer, 1, k))
    BY <2>1 DEF FlushTakes
  <2>3. /\ ab_buffer' \in Text /\ Len(ab_buffer') <= ABSize /\ ab_device' \in Devices
        /\ Put(ab_device', ab_buffer') = Put(ab_device, ab_buffer)
        /\ Len(ab_buffer') \in Nat
        /\ AtEnd(ab_device) =>
             /\ AtEnd(ab_device')
             /\ Len(ab_device'.data) + Len(ab_buffer') = Len(ab_device.data) + Len(ab_buffer)
    BY <1>7, <2>2
  <2>4. Put(ab_device', ab_buffer' \o ab_printf.left) = Put(ab_device, ab_buffer \o ab_printf.left)
    <3>1. Put(ab_device, ab_buffer \o ab_printf.left) = Put(Put(ab_device, ab_buffer), ab_printf.left)
      BY <1>1, PutTwice
    <3>2. Put(ab_device', ab_buffer' \o ab_printf.left) = Put(Put(ab_device', ab_buffer'), ab_printf.left)
      BY <1>1, <2>3, PutTwice
    <3> QED
      BY <2>3, <3>1, <3>2
  <2>5. AB_TypeOK'
    BY <1>11, <2>3 DEF AB_TypeOK
  <2>6. PrintfCounts'
    BY <1>11, <2>3 DEF PrintfCounts, AB_Idle
  <2>7. NoneMissing'
    <3>1. Len(ab_device'.data) \in Nat
      BY <2>3, LenProperties DEF Devices, Text
    <3> QED
      BY <1>1, <1>11, <1>24, <2>3, <3>1 DEF NoneMissing, AB_Idle
  <2>8. ab_kind' = "socket" =>
          Len(Put(ab_device', ab_buffer' \o ab_printf'.left).data) >= Len(ab_wanted'.data)
    BY <1>1, <1>11, <2>3, <2>7, NoneMissed
  <2> QED
    BY <1>11, <2>3, <2>4, <2>5, <2>6, <2>7, <2>8 DEF AB_Arrives, AB_Outcome
<1>12. CASE AB_MakeRoom
  BY <1>11, <1>12 DEF AB_MakeRoom
<1>13. CASE AB_PrintfFails
  <2>1. /\ ~AB_Idle /\ ab_wanted' = Put(ab_printf.before, ab_printf.done)
        /\ ab_printf' = NoPrintf /\ ab_buffer' = ab_buffer /\ ab_device' = ab_device
        /\ ab_met' = ab_met /\ ab_kind' = ab_kind
    BY <1>13 DEF AB_PrintfFails
  <2>2. (ab_met = {} => ab_wanted' = Put(ab_device, ab_buffer)) /\ ab_wanted' \in Devices
    BY <1>1, <2>1, PutAt DEF PrintfCounts
  <2>3. ab_buffer \o <<>> = ab_buffer
    BY <1>1, NothingAndOne, ConcatEmptySeq DEF Text
  <2>4. AB_TypeOK'
    BY <1>1, <1>2, <1>3, <2>1, <2>2 DEF AB_TypeOK, NoPrintf
  <2>5. ab_printf'.left = <<>> /\ ab_printf'.before = NewDevice
    BY <2>1 DEF NoPrintf
  <2>6. NoneMissing'
    <3>1. ab_kind = "socket" =>
            /\ AtEnd(ab_wanted')
            /\ Len(ab_wanted'.data) = Len(ab_printf.before.data) + Len(ab_printf.done)
      BY <1>1, <1>23, <2>1, PutAtEnd
    <3>2. ab_kind = "socket" =>
            Len(ab_device.data) + Len(ab_buffer) + 0
              >= Len(ab_printf.before.data) + Len(ab_printf.done)
      BY <1>1, <1>24, <2>1, OneMoved DEF NoneMissing
    <3> QED
      BY <1>2, <1>3, <1>23, <2>1, <2>5, <3>1, <3>2 DEF NoneMissing, AB_Idle
  <2>7. ab_kind' = "socket" =>
          Len(Put(ab_device', ab_buffer' \o ab_printf'.left).data) >= Len(ab_wanted'.data)
    <3>1. /\ ab_device' \in Devices /\ ab_buffer' \in Text /\ ab_printf'.left \in Text
          /\ ab_wanted' \in Devices
      BY <1>1, <1>2, <2>1, <2>2, <2>5
    <3> QED
      BY <2>6, <3>1, NoneMissed
  <2> QED
    BY <1>1, <2>1, <2>2, <2>3, <2>4, <2>5, <2>6, <2>7
    DEF PrintfCounts, AB_Arrives, AB_Outcome, AB_Idle
<1>14. CASE AB_Flush
  BY <1>11, <1>14 DEF AB_Flush, AB_Call
<1>15. CASE AB_Write
  <2>1. PICK k \in Taken, text \in ABTexts : \E n \in 1 .. Len(text) :
          LET rest == SubSeq(ab_buffer, k + 1, Len(ab_buffer))
              taken == SubSeq(text, 1, n) IN
          /\ ab_device' = Put(Put(ab_device, SubSeq(ab_buffer, 1, k)), taken)
          /\ ab_buffer' = rest
          /\ ab_wanted' = Put(ab_wanted, taken)
    BY <1>15 DEF AB_Write
  <2>2. PICK n \in 1 .. Len(text) :
          /\ ab_device' = Put(Put(ab_device, SubSeq(ab_buffer, 1, k)), SubSeq(text, 1, n))
          /\ ab_buffer' = SubSeq(ab_buffer, k + 1, Len(ab_buffer))
          /\ ab_wanted' = Put(ab_wanted, SubSeq(text, 1, n))
    BY <2>1
  <2> DEFINE taken == SubSeq(text, 1, n)  rest == SubSeq(ab_buffer, k + 1, Len(ab_buffer))
             out == Put(ab_device, SubSeq(ab_buffer, 1, k))
  <2>3. taken \in Text
    <3>1. text \in Text /\ Len(text) \in Nat
      BY <1>4, LenProperties DEF Text
    <3>2. n \in 0 .. Len(text)
      BY <3>1
    <3> QED
      BY <3>1, <3>2, Cut
  <2>4. /\ rest \in Text /\ Len(rest) <= ABSize /\ Len(rest) \in Nat /\ out \in Devices
        /\ Put(out, rest) = Put(ab_device, ab_buffer)
        /\ AtEnd(ab_device) =>
             AtEnd(out) /\ Len(out.data) + Len(rest) = Len(ab_device.data) + Len(ab_buffer)
    BY <1>7
  <2>5. ab_device' = Put(out, taken) /\ ab_buffer' = rest /\ ab_wanted' = Put(ab_wanted, taken)
    BY <2>2
  <2>6. /\ AB_Idle /\ ab_printf' = ab_printf /\ ab_kind' = ab_kind
        /\ ab_met' = {} => ab_met = {} /\ ab_buffer' = <<>>
    BY <1>15 DEF AB_Write, AB_Call, Meets
  <2> HIDE DEF taken, rest, out
  <2>7. ab_device' \in Devices /\ ab_wanted' \in Devices
    BY <1>1, <2>3, <2>4, <2>5, PutAt
  <2>8. ab_met' = {} => ab_wanted' = Put(ab_device', ab_buffer')
    <3>1. ab_met' = {} => ab_wanted = out
      BY <1>5, <2>4, <2>5, <2>6, PutNothing
    <3> QED
      BY <2>5, <2>6, <2>7, <3>1, PutNothing
  <2>9. ab_kind = "socket" =>
          /\ AtEnd(ab_device') /\ AtEnd(ab_wanted')
          /\ Len(ab_device'.data) + Len(ab_buffer') >= Len(ab_wanted'.data)
    <3>1. ab_kind = "socket" =>
            /\ AtEnd(ab_device') /\ Len(ab_device'.data) = Len(out.data) + Len(taken)
            /\ AtEnd(ab_wanted') /\ Len(ab_wanted'.data) = Len(ab_wanted.data) + Len(taken)
            /\ Len(out.data) \in Nat /\ Len(taken) \in Nat
      BY <1>1, <1>23, <2>3, <2>4, <2>5, PutAtEnd
    <3> QED
      BY <1>1, <1>23, <1>24, <1>25, <2>4, <2>5, <2>6, <3>1
  <2> QED
    BY <2>4, <2>5, <2>6, <2>7, <2>8, <2>9, QuietInv
<1>16. CASE AB_WriteFails
  BY <1>11, <1>16 DEF AB_WriteFails, AB_Call
<1>17. CASE AB_Seek
  <2>1. /\ AB_Idle /\ ab_printf' = ab_printf /\ ab_buffer' = ab_buffer /\ ab_kind' = ab_kind
        /\ ab_kind = "file"
        /\ ab_device' = [ab_device EXCEPT !.place = 0] /\ ab_wanted' = [ab_wanted EXCEPT !.place = 0]
        /\ ab_met' = {} => ab_met = {} /\ ab_buffer' = <<>>
    BY <1>17 DEF AB_Seek, AB_Call, Meets
  <2>2. ab_device' \in Devices /\ ab_wanted' \in Devices
    BY <1>1, <1>24, <2>1 DEF Devices
  <2>3. ab_met' = {} => ab_wanted' = Put(ab_device', ab_buffer')
    BY <1>6, <2>1, <2>2, PutNothing
  <2> QED
    BY <1>1, <2>1, <2>2, <2>3, QuietInv
<1>18. CASE AB_Read
  <2>1. /\ AB_Idle /\ ab_printf' = ab_printf /\ ab_buffer' = ab_buffer /\ ab_kind' = ab_kind
        /\ ab_kind = "file"
        /\ ab_device' = PassedOver(ab_device) /\ ab_wanted' = PassedOver(ab_wanted)
        /\ ab_met' = {} => ab_met = {} /\ ab_buffer' = <<>>
    BY <1>18 DEF AB_Read, AB_Call, Meets
  <2>2. ab_device' \in Devices /\ ab_wanted' \in Devices
    BY <1>1, <1>24, <2>1 DEF Devices, PassedOver
  <2>3. ab_met' = {} => ab_wanted' = Put(ab_device', ab_buffer')
    BY <1>6, <2>1, <2>2, PutNothing
  <2> QED
    BY <1>1, <2>1, <2>2, <2>3, QuietInv
<1>19. CASE AB_Truncate
  <2>1. /\ AB_Idle /\ ab_printf' = ab_printf /\ ab_buffer' = ab_buffer /\ ab_kind' = ab_kind
        /\ ab_kind = "file" /\ ab_device' = NewDevice /\ ab_wanted' = NewDevice
        /\ ab_met' = {} => ab_buffer' = <<>>
    BY <1>19 DEF AB_Truncate, AB_Call, Meets
  <2>2. ab_met' = {} => ab_wanted' = Put(ab_device', ab_buffer')
    BY <1>3, <2>1
  <2> QED
    BY <1>1, <1>3, <2>1, <2>2, QuietInv
<1>20. CASE AB_Close
  BY <1>11, <1>20 DEF AB_Close, AB_Call
<1>21. CASE AB_Undo
  <2>1. AB_Idle /\ ab_printf' = ab_printf /\ ab_buffer' = <<>> /\ ab_device' = NewDevice
        /\ ab_wanted' = NewDevice /\ ab_kind' = ab_kind
    BY <1>21 DEF AB_Undo, AB_Call
  <2> QED
    BY <1>2, <1>3, <2>1, QuietInv
<1>22. CASE UNCHANGED ab_vars
  BY <1>22 DEF ab_vars, AB_TypeOK, PrintfCounts, NoneMissing, AB_Arrives, AB_Outcome, AB_Idle
<1> QED
  BY <1>8, <1>9, <1>10, <1>12, <1>13, <1>14, <1>15, <1>16, <1>17, <1>18, <1>19, <1>20,
     <1>21, <1>22 DEF AB_Next

-----------------------------------------------------------------------------
(* The buffer, the device and what printf remembers keep their types, for  *)
(* any texts and size (jr_aprbuf.c).                                       *)
THEOREM OutputTypeCorrect == AB_Spec => []AB_TypeOK
<1>1. AB_Inv => AB_TypeOK
  BY DEF AB_Inv
<1> QED
  BY <1>1, OutputStarts, OutputSteps, PTL DEF AB_Spec

(* As long as nothing but printf and flushes meets text that waits in the  *)
(* buffer, the device gets what the client was told it has written, each   *)
(* byte once and in its place, for any texts and size of the buffer; and   *)
(* whatever meets it, no byte told to a client of a socket is lost         *)
(* (jr_aprbuf.c, jr_file.c, jr_socket.c).                                  *)
THEOREM EverythingArrives == AB_Spec => []AB_Arrives
<1>1. AB_Inv => AB_Arrives
  BY DEF AB_Inv
<1> QED
  BY <1>1, OutputStarts, OutputSteps, PTL DEF AB_Spec
-----------------------------------------------------------------------------
(* Sockets. Sound: the pools there are have each one owner, but for those  *)
(* in E, which the call in progress has made or taken from a structure and *)
(* will destroy or give away; and what lives in a pool is Inside it. Each  *)
(* operation of APR, and each piece of a call, is a lemma about Sound.     *)
Numbers == SK_Pools \cup {0}
IsPlace(r) == r = [pool |-> r.pool, port |-> r.port] /\ r.pool \in Numbers
IsSocket(r) ==
  /\ r = [type |-> r.type, fd |-> r.fd, pool |-> r.pool, nonblock |-> r.nonblock, buffer |-> r.buffer]
  /\ r.fd \in Numbers /\ r.pool \in Numbers
IsAddr(r) ==
  /\ r = [live |-> r.live, pool |-> r.pool, borrowed |-> r.borrowed, at |-> r.at]
  /\ r.pool \in Numbers /\ IsPlace(r.at)
IsFd(r) ==
  /\ r = [pool |-> r.pool, at |-> r.at, state |-> r.state, nonblock |-> r.nonblock, queue |-> r.queue]
  /\ r.pool \in SK_Pools /\ IsPlace(r.at)
IsState(st) ==
  /\ st = [socket |-> st.socket, addr |-> st.addr, fd |-> st.fd, pools |-> st.pools]
  /\ st.socket = [s \in SK_Sockets |-> st.socket[s]]
  /\ st.addr = [a \in SK_Addrs |-> st.addr[a]]
  /\ st.fd = [n \in DOMAIN st.fd |-> st.fd[n]]
  /\ DOMAIN st.fd \subseteq SK_Pools /\ st.pools \subseteq SK_Pools
  /\ \A s \in SK_Sockets : IsSocket(st.socket[s])
  /\ \A a \in SK_Addrs : IsAddr(st.addr[a])
  /\ \A n \in DOMAIN st.fd : IsFd(st.fd[n])

\* Each pool has an owner: a socket, an address, or the call in progress, which
\* will clean up the pools in E.
Owned(st, E) ==
  /\ E \subseteq st.pools
  /\ \A s \in SK_Sockets : st.socket[s].pool \in (st.pools \ E) \cup {0}
  /\ \A a \in SK_Addrs : AddrPoolOwned(st.addr[a]) => st.addr[a].pool \in st.pools \ E
  /\ \A s, t \in SK_Sockets : s # t => st.socket[s].pool = 0 \/ st.socket[s].pool # st.socket[t].pool
  /\ \A a, b \in SK_Addrs : a # b /\ AddrPoolOwned(st.addr[a]) /\ AddrPoolOwned(st.addr[b]) =>
                              st.addr[a].pool # st.addr[b].pool
  /\ \A s \in SK_Sockets, a \in SK_Addrs : AddrPoolOwned(st.addr[a]) => st.socket[s].pool # st.addr[a].pool
  /\ \A p \in st.pools \ E :
       \/ \E s \in SK_Sockets : st.socket[s].pool = p
       \/ \E a \in SK_Addrs : AddrPoolOwned(st.addr[a]) /\ st.addr[a].pool = p

\* What lives in a pool, or points into one.
Inside(st) ==
  /\ \A s \in SK_Sockets : st.socket[s].fd # 0 =>
       st.socket[s].fd \in DOMAIN st.fd /\ st.fd[st.socket[s].fd].pool = st.socket[s].pool
  /\ \A n \in DOMAIN st.fd : st.fd[n].pool \in st.pools /\ st.fd[n].at.pool \in {0, st.fd[n].pool}
  /\ \A a \in SK_Addrs : /\ st.addr[a].pool \in st.pools \cup {0}
                         /\ st.addr[a].at.pool \in {0, st.addr[a].pool}
                         /\ st.addr[a].at.pool = 0 => st.addr[a].at = NoPlace
                         /\ st.addr[a].borrowed => st.addr[a].pool # 0
                         /\ ~st.addr[a].live => st.addr[a] = NoAddr

Sound(st, E) == IsState(st) /\ Owned(st, E) /\ Inside(st)

LEMMA Zero == 0 \notin SK_Pools
BY SK_Assumption

LEMMA NoAddrIs == IsAddr(NoAddr) /\ ~AddrPoolOwned(NoAddr) /\ NoAddr.pool = 0 /\ NoAddr.at = NoPlace
                  /\ NoAddr.at.pool = 0 /\ ~NoAddr.borrowed /\ ~NoAddr.live
BY DEF IsAddr, NoAddr, AddrPoolOwned, NoPlace, IsPlace, Numbers

DestroyedOf(t, st, p) ==
  /\ t = [socket |-> st.socket, addr |-> t.addr, fd |-> t.fd, pools |-> st.pools \ {p}]
  /\ t.addr = [a \in SK_Addrs |-> t.addr[a]]
  /\ \A a \in SK_Addrs : t.addr[a] = IF st.addr[a].borrowed /\ st.addr[a].pool = p THEN NoAddr ELSE st.addr[a]
  /\ t.fd = [n \in DOMAIN t.fd |-> t.fd[n]]
  /\ DOMAIN t.fd = {n \in DOMAIN st.fd : st.fd[n].pool # p}
  /\ \A n \in DOMAIN t.fd : t.fd[n] = st.fd[n]

LEMMA DestroyedFields ==
  ASSUME NEW st, IsState(st), NEW p
  PROVE  DestroyedOf(PoolDestroyed(st, p), st, p)
<1> DEFINE t == PoolDestroyed(st, p)
           addr == [a \in SK_Addrs |-> IF st.addr[a].borrowed /\ st.addr[a].pool = p THEN NoAddr ELSE st.addr[a]]
           fd == [n \in {m \in DOMAIN st.fd : st.fd[m].pool # p} |-> st.fd[n]]
<1>1. t = [socket |-> st.socket, addr |-> addr, fd |-> fd, pools |-> st.pools \ {p}]
  <2>1. st = [socket |-> st.socket, addr |-> st.addr, fd |-> st.fd, pools |-> st.pools] BY DEF IsState
  <2>2. t = [st EXCEPT !.pools = st.pools \ {p}, !.fd = fd, !.addr = addr]
    BY <2>1 DEF PoolDestroyed, OnlyFds
  <2> HIDE DEF t, addr, fd
  <2> QED BY <2>1, <2>2
<1>2. t.addr = addr /\ t.fd = fd
  <2> HIDE DEF t, addr, fd
  <2> QED BY <1>1
<1>3. addr = [a \in SK_Addrs |-> addr[a]] /\ fd = [n \in DOMAIN fd |-> fd[n]] OBVIOUS
<1>4. \A a \in SK_Addrs : addr[a] = IF st.addr[a].borrowed /\ st.addr[a].pool = p THEN NoAddr ELSE st.addr[a]
  OBVIOUS
<1>5. DOMAIN fd = {n \in DOMAIN st.fd : st.fd[n].pool # p} /\ \A n \in DOMAIN fd : fd[n] = st.fd[n]
  OBVIOUS
<1> HIDE DEF t, addr, fd
<1>6. /\ t = [socket |-> st.socket, addr |-> t.addr, fd |-> t.fd, pools |-> st.pools \ {p}]
      /\ t.addr = [a \in SK_Addrs |-> t.addr[a]]
      /\ \A a \in SK_Addrs : t.addr[a] = IF st.addr[a].borrowed /\ st.addr[a].pool = p THEN NoAddr ELSE st.addr[a]
      /\ t.fd = [n \in DOMAIN t.fd |-> t.fd[n]]
      /\ DOMAIN t.fd = {n \in DOMAIN st.fd : st.fd[n].pool # p}
      /\ \A n \in DOMAIN t.fd : t.fd[n] = st.fd[n]
  BY <1>1, <1>2, <1>3, <1>4, <1>5, Zenon
<1> QED BY <1>6, Zenon DEF t, DestroyedOf

\* A pool of the call in progress is destroyed.
LEMMA Destroy ==
  ASSUME NEW st, NEW E, Sound(st, E), NEW p \in E
  PROVE  Sound(PoolDestroyed(st, p), E \ {p})
<1> DEFINE t == PoolDestroyed(st, p)
<1>1. IsState(st) /\ Owned(st, E) /\ Inside(st) BY DEF Sound
<1>2. DestroyedOf(t, st, p) BY <1>1, DestroyedFields
<1> HIDE DEF t
<1>3. /\ t.socket = st.socket /\ t.pools = st.pools \ {p}
      /\ \A a \in SK_Addrs : t.addr[a] = IF st.addr[a].borrowed /\ st.addr[a].pool = p THEN NoAddr ELSE st.addr[a]
      /\ DOMAIN t.fd = {n \in DOMAIN st.fd : st.fd[n].pool # p}
      /\ \A n \in DOMAIN t.fd : t.fd[n] = st.fd[n]
  BY <1>2 DEF DestroyedOf
<1>4. t = [socket |-> t.socket, addr |-> t.addr, fd |-> t.fd, pools |-> t.pools]
  <2>1. t = [socket |-> st.socket, addr |-> t.addr, fd |-> t.fd, pools |-> st.pools \ {p}] BY <1>2 DEF DestroyedOf
  <2> QED BY <1>3, <2>1, Zenon
<1>5. /\ IsAddr(NoAddr) /\ ~AddrPoolOwned(NoAddr) /\ NoAddr.pool = 0 /\ NoAddr.at = NoPlace
      /\ NoAddr.at.pool = 0 /\ ~NoAddr.borrowed /\ ~NoAddr.live
  BY NoAddrIs
<1>6. 0 \notin st.pools /\ p \in st.pools /\ p # 0 BY <1>1, Zero DEF IsState, Owned
<1>7. IsState(t)
  <2>1. t.addr = [a \in SK_Addrs |-> t.addr[a]] /\ t.fd = [n \in DOMAIN t.fd |-> t.fd[n]] BY <1>2 DEF DestroyedOf
  <2>2. t.socket = [s \in SK_Sockets |-> t.socket[s]] /\ \A s \in SK_Sockets : IsSocket(t.socket[s])
    BY <1>1, <1>3, Zenon DEF IsState
  <2>3. DOMAIN t.fd \subseteq SK_Pools /\ t.pools \subseteq SK_Pools BY <1>1, <1>3 DEF IsState
  <2>4. \A a \in SK_Addrs : IsAddr(t.addr[a]) BY <1>1, <1>3, <1>5 DEF IsState
  <2>5. \A n \in DOMAIN t.fd : IsFd(t.fd[n]) BY <1>1, <1>3 DEF IsState
  <2> QED BY <1>4, <2>1, <2>2, <2>3, <2>4, <2>5, Zenon DEF IsState
<1>8. \A a \in SK_Addrs : /\ AddrPoolOwned(t.addr[a]) <=> AddrPoolOwned(st.addr[a])
                          /\ AddrPoolOwned(st.addr[a]) => t.addr[a] = st.addr[a]
  BY <1>3, <1>5 DEF AddrPoolOwned
<1>9. Owned(t, E \ {p})
  <2>1. E \ {p} \subseteq t.pools /\ (t.pools \ (E \ {p})) = st.pools \ E BY <1>1, <1>3 DEF Owned
  <2>2. \A s \in SK_Sockets : t.socket[s].pool \in (t.pools \ (E \ {p})) \cup {0} BY <1>1, <1>3, <2>1 DEF Owned
  <2>3. \A a \in SK_Addrs : AddrPoolOwned(t.addr[a]) => t.addr[a].pool \in t.pools \ (E \ {p})
    BY <1>1, <1>8, <2>1 DEF Owned
  <2>4. \A s, u \in SK_Sockets : s # u => t.socket[s].pool = 0 \/ t.socket[s].pool # t.socket[u].pool
    BY <1>1, <1>3 DEF Owned
  <2>5. \A a, b \in SK_Addrs : a # b /\ AddrPoolOwned(t.addr[a]) /\ AddrPoolOwned(t.addr[b]) =>
                                 t.addr[a].pool # t.addr[b].pool
    BY <1>1, <1>8 DEF Owned
  <2>6. \A s \in SK_Sockets, a \in SK_Addrs : AddrPoolOwned(t.addr[a]) => t.socket[s].pool # t.addr[a].pool
    BY <1>1, <1>3, <1>8 DEF Owned
  <2>7. \A r \in t.pools \ (E \ {p}) :
       \/ \E s \in SK_Sockets : t.socket[s].pool = r
       \/ \E a \in SK_Addrs : AddrPoolOwned(t.addr[a]) /\ t.addr[a].pool = r
    BY <1>1, <1>3, <1>8, <2>1 DEF Owned
  <2> QED BY <2>1, <2>2, <2>3, <2>4, <2>5, <2>6, <2>7, Zenon DEF Owned
<1>10. Inside(t)
  <2>1. \A s \in SK_Sockets : t.socket[s].fd # 0 =>
          t.socket[s].fd \in DOMAIN t.fd /\ t.fd[t.socket[s].fd].pool = t.socket[s].pool
    <3> SUFFICES ASSUME NEW s \in SK_Sockets, t.socket[s].fd # 0
                 PROVE  t.socket[s].fd \in DOMAIN t.fd /\ t.fd[t.socket[s].fd].pool = t.socket[s].pool
      OBVIOUS
    <3>1. st.socket[s].fd \in DOMAIN st.fd /\ st.fd[st.socket[s].fd].pool = st.socket[s].pool
      BY <1>1, <1>3 DEF Inside
    <3>2. st.socket[s].pool # p BY <1>1, <1>6 DEF Owned
    <3> QED BY <1>3, <3>1, <3>2
  <2>2. \A n \in DOMAIN t.fd : t.fd[n].pool \in t.pools /\ t.fd[n].at.pool \in {0, t.fd[n].pool}
    BY <1>1, <1>3 DEF Inside
  <2>3. ASSUME NEW a \in SK_Addrs
        PROVE  /\ t.addr[a].pool \in t.pools \cup {0}
               /\ t.addr[a].at.pool \in {0, t.addr[a].pool}
               /\ t.addr[a].at.pool = 0 => t.addr[a].at = NoPlace
               /\ t.addr[a].borrowed => t.addr[a].pool # 0
               /\ ~t.addr[a].live => t.addr[a] = NoAddr
    <3>1. CASE st.addr[a].borrowed /\ st.addr[a].pool = p
      <4>1. t.addr[a] = NoAddr BY <1>3, <3>1
      <4> QED BY <1>5, <4>1
    <3>2. CASE ~(st.addr[a].borrowed /\ st.addr[a].pool = p)
      <4>1. t.addr[a] = st.addr[a] BY <1>3, <3>2
      <4>2. /\ st.addr[a].pool \in st.pools \cup {0}
            /\ st.addr[a].at.pool \in {0, st.addr[a].pool}
            /\ st.addr[a].at.pool = 0 => st.addr[a].at = NoPlace
            /\ st.addr[a].borrowed => st.addr[a].pool # 0
            /\ ~st.addr[a].live => st.addr[a] = NoAddr
        BY <1>1 DEF Inside
      <4>3. st.addr[a].pool # p
        <5> SUFFICES ASSUME st.addr[a].pool = p PROVE FALSE OBVIOUS
        <5>1. AddrPoolOwned(st.addr[a]) BY <1>6, <3>2 DEF AddrPoolOwned
        <5> QED BY <1>1, <5>1 DEF Owned
      <4> QED BY <1>3, <4>1, <4>2, <4>3
    <3> QED BY <3>1, <3>2
  <2> QED BY <2>1, <2>2, <2>3 DEF Inside
<1> QED BY <1>7, <1>9, <1>10 DEF Sound, t

\* The structures, descriptors and pools as they were, but for what pools do not
\* depend on.
AlikeOf(t, st) ==
  /\ t = [socket |-> t.socket, addr |-> st.addr, fd |-> t.fd, pools |-> st.pools]
  /\ t.socket = [s \in SK_Sockets |-> t.socket[s]]
  /\ \A s \in SK_Sockets : /\ IsSocket(t.socket[s])
                           /\ t.socket[s].fd = st.socket[s].fd /\ t.socket[s].pool = st.socket[s].pool
  /\ t.fd = [n \in DOMAIN st.fd |-> t.fd[n]]
  /\ \A n \in DOMAIN st.fd : /\ IsFd(t.fd[n]) /\ t.fd[n].pool = st.fd[n].pool
                             /\ t.fd[n].at.pool \in {0, st.fd[n].pool}

LEMMA Alike ==
  ASSUME NEW st, NEW E, Sound(st, E), NEW t, AlikeOf(t, st)
  PROVE  Sound(t, E)
<1>1. IsState(st) /\ Owned(st, E) /\ Inside(st) BY DEF Sound
<1>2. t.addr = st.addr /\ t.pools = st.pools BY DEF AlikeOf
<1>3. DOMAIN t.fd = DOMAIN st.fd BY DEF AlikeOf
<1>4. IsState(t)
  <2>1. t = [socket |-> t.socket, addr |-> t.addr, fd |-> t.fd, pools |-> t.pools] BY <1>2, Zenon DEF AlikeOf
  <2>2. t.fd = [n \in DOMAIN t.fd |-> t.fd[n]] BY <1>3, Zenon DEF AlikeOf
  <2>3. t.addr = [a \in SK_Addrs |-> t.addr[a]] /\ \A a \in SK_Addrs : IsAddr(t.addr[a])
    BY <1>1, <1>2, Zenon DEF IsState
  <2>4. DOMAIN t.fd \subseteq SK_Pools /\ t.pools \subseteq SK_Pools BY <1>1, <1>2, <1>3, Zenon DEF IsState
  <2>5. \A n \in DOMAIN t.fd : IsFd(t.fd[n]) BY <1>3, Zenon DEF AlikeOf
  <2> QED BY <2>1, <2>2, <2>3, <2>4, <2>5, Zenon DEF IsState, AlikeOf
<1>5. \A s \in SK_Sockets : t.socket[s].pool = st.socket[s].pool /\ t.socket[s].fd = st.socket[s].fd
  BY Zenon DEF AlikeOf
<1>6. Owned(t, E)
  <2>1. \A p \in t.pools \ E :
       \/ \E s \in SK_Sockets : t.socket[s].pool = p
       \/ \E a \in SK_Addrs : AddrPoolOwned(t.addr[a]) /\ t.addr[a].pool = p
    BY <1>1, <1>2, <1>5 DEF Owned
  <2> QED BY <1>1, <1>2, <1>5, <2>1 DEF Owned
<1>7. Inside(t)
  <2>1. \A n \in DOMAIN st.fd : t.fd[n].pool = st.fd[n].pool /\ t.fd[n].at.pool \in {0, st.fd[n].pool}
    BY Zenon DEF AlikeOf
  <2> QED BY <1>1, <1>2, <1>3, <1>5, <2>1 DEF Inside
<1> QED BY <1>4, <1>6, <1>7 DEF Sound

\* A descriptor no socket has is closed.
LEMMA Closed ==
  ASSUME NEW st, NEW E, Sound(st, E), NEW n, \A s \in SK_Sockets : st.socket[s].fd # n
  PROVE  Sound(FdClosed(st, n), E)
<1> DEFINE t == FdClosed(st, n)
           fd == [m \in DOMAIN st.fd \ {n} |-> st.fd[m]]
<1>1. IsState(st) /\ Owned(st, E) /\ Inside(st) BY DEF Sound
<1>2. t = [socket |-> st.socket, addr |-> st.addr, fd |-> fd, pools |-> st.pools]
  <2>1. st = [socket |-> st.socket, addr |-> st.addr, fd |-> st.fd, pools |-> st.pools] BY <1>1 DEF IsState
  <2>2. t = [st EXCEPT !.fd = fd] BY <2>1 DEF FdClosed, OnlyFds
  <2> HIDE DEF t, fd
  <2> QED BY <2>1, <2>2
<1>3. fd = [m \in DOMAIN fd |-> fd[m]] /\ DOMAIN fd = DOMAIN st.fd \ {n} /\ \A m \in DOMAIN fd : fd[m] = st.fd[m]
  OBVIOUS
<1> HIDE DEF t, fd
<1>4. t.socket = st.socket /\ t.addr = st.addr /\ t.fd = fd /\ t.pools = st.pools BY <1>2
<1>5. IsState(t)
  <2>1. t = [socket |-> t.socket, addr |-> t.addr, fd |-> t.fd, pools |-> t.pools] BY <1>2, <1>4, Zenon
  <2>2. DOMAIN t.fd \subseteq SK_Pools /\ \A m \in DOMAIN t.fd : IsFd(t.fd[m]) BY <1>1, <1>3, <1>4 DEF IsState
  <2>3. t.fd = [m \in DOMAIN t.fd |-> t.fd[m]] BY <1>3, <1>4, Zenon
  <2> QED BY <1>1, <1>4, <2>1, <2>2, <2>3, Zenon DEF IsState
<1>6. Owned(t, E)
  <2>1. \A p \in t.pools \ E :
       \/ \E s \in SK_Sockets : t.socket[s].pool = p
       \/ \E a \in SK_Addrs : AddrPoolOwned(t.addr[a]) /\ t.addr[a].pool = p
    BY <1>1, <1>4 DEF Owned
  <2> QED BY <1>1, <1>4, <2>1 DEF Owned
<1>7. Inside(t) BY <1>1, <1>3, <1>4 DEF Inside
<1> QED BY <1>5, <1>6, <1>7 DEF Sound, t

\* A socket is left without descriptor and pool: the call has its pool.
LEMMA Detach ==
  ASSUME NEW st, NEW E, Sound(st, E), NEW s \in SK_Sockets, NEW r, IsSocket(r), r.fd = 0, r.pool = 0
  PROVE  Sound([st EXCEPT !.socket[s] = r], E \cup ({st.socket[s].pool} \ {0}))
<1> DEFINE t == [st EXCEPT !.socket[s] = r]
           socket == [st.socket EXCEPT ![s] = r]
           F == E \cup ({st.socket[s].pool} \ {0})
<1>1. IsState(st) /\ Owned(st, E) /\ Inside(st) BY DEF Sound
<1>2. t = [socket |-> socket, addr |-> st.addr, fd |-> st.fd, pools |-> st.pools]
  <2>1. st = [socket |-> st.socket, addr |-> st.addr, fd |-> st.fd, pools |-> st.pools] BY <1>1 DEF IsState
  <2>2. t = [st EXCEPT !.socket = socket] BY <2>1
  <2> HIDE DEF t, socket
  <2> QED BY <2>1, <2>2
<1>3. /\ socket = [x \in SK_Sockets |-> socket[x]]
      /\ socket[s] = r /\ \A x \in SK_Sockets \ {s} : socket[x] = st.socket[x]
  <2>1. st.socket = [x \in SK_Sockets |-> st.socket[x]] BY <1>1 DEF IsState
  <2> QED BY <2>1
<1> HIDE DEF t, socket
<1>4. t.socket = socket /\ t.addr = st.addr /\ t.fd = st.fd /\ t.pools = st.pools BY <1>2
<1>5. IsState(t)
  <2>1. t = [socket |-> t.socket, addr |-> t.addr, fd |-> t.fd, pools |-> t.pools] BY <1>2, <1>4, Zenon
  <2>2. \A x \in SK_Sockets : IsSocket(t.socket[x]) BY <1>1, <1>3, <1>4 DEF IsState
  <2>3. t.socket = [x \in SK_Sockets |-> t.socket[x]] BY <1>3, <1>4, Zenon
  <2> QED BY <1>1, <1>4, <2>1, <2>2, <2>3, Zenon DEF IsState
<1>6. \A x \in SK_Sockets : t.socket[x].pool = IF x = s THEN 0 ELSE st.socket[x].pool BY <1>3, <1>4
<1>7. Owned(t, F)
  <2>1. F \subseteq t.pools BY <1>1, <1>4 DEF Owned
  <2>2. \A x \in SK_Sockets : t.socket[x].pool \in (t.pools \ F) \cup {0} BY <1>1, <1>4, <1>6 DEF Owned
  <2>3. \A a \in SK_Addrs : AddrPoolOwned(t.addr[a]) => t.addr[a].pool \in t.pools \ F BY <1>1, <1>4 DEF Owned
  <2>4. \A x, y \in SK_Sockets : x # y => t.socket[x].pool = 0 \/ t.socket[x].pool # t.socket[y].pool
    BY <1>1, <1>6 DEF Owned
  <2>5. \A a, b \in SK_Addrs : a # b /\ AddrPoolOwned(t.addr[a]) /\ AddrPoolOwned(t.addr[b]) =>
                              t.addr[a].pool # t.addr[b].pool
    BY <1>1, <1>4 DEF Owned
  <2>6. \A x \in SK_Sockets, a \in SK_Addrs : AddrPoolOwned(t.addr[a]) => t.socket[x].pool # t.addr[a].pool
    BY <1>1, <1>4, <1>6 DEF Owned, AddrPoolOwned
  <2>7. \A p \in t.pools \ F :
       \/ \E x \in SK_Sockets : t.socket[x].pool = p
       \/ \E a \in SK_Addrs : AddrPoolOwned(t.addr[a]) /\ t.addr[a].pool = p
    <3> SUFFICES ASSUME NEW p \in t.pools \ F
                 PROVE  \/ \E x \in SK_Sockets : t.socket[x].pool = p
                        \/ \E a \in SK_Addrs : AddrPoolOwned(t.addr[a]) /\ t.addr[a].pool = p
      OBVIOUS
    <3>1. p \in st.pools \ E /\ p # st.socket[s].pool BY <1>1, <1>4, Zero DEF IsState
    <3>2. \/ \E x \in SK_Sockets : st.socket[x].pool = p
          \/ \E a \in SK_Addrs : AddrPoolOwned(st.addr[a]) /\ st.addr[a].pool = p
      BY <1>1, <3>1 DEF Owned
    <3> QED BY <1>4, <1>6, <3>1, <3>2
  <2> QED BY <2>1, <2>2, <2>3, <2>4, <2>5, <2>6, <2>7, Zenon DEF Owned
<1>8. Inside(t)
  <2>1. \A x \in SK_Sockets : t.socket[x].fd # 0 =>
          t.socket[x].fd \in DOMAIN t.fd /\ t.fd[t.socket[x].fd].pool = t.socket[x].pool
    BY <1>1, <1>3, <1>4 DEF Inside
  <2> QED BY <1>1, <1>4, <2>1 DEF Inside
<1> QED BY <1>5, <1>7, <1>8 DEF Sound, t

OwnOf(r) == IF AddrPoolOwned(r) THEN {r.pool} ELSE {}

\* An address in the place of another one: the call has the pool of the old one,
\* and gives one of its own to the new.
AddrFits(st, E, a, r) ==
  /\ IsAddr(r) /\ r.pool \in st.pools \cup {0} /\ r.at.pool \in {0, r.pool}
  /\ r.at.pool = 0 => r.at = NoPlace
  /\ r.borrowed => r.pool # 0
  /\ ~r.live => r = NoAddr
  /\ OwnOf(r) \subseteq E \cup OwnOf(st.addr[a])

LEMMA AddrPut ==
  ASSUME NEW st, NEW E, Sound(st, E), NEW a \in SK_Addrs, NEW r, AddrFits(st, E, a, r)
  PROVE  Sound([st EXCEPT !.addr[a] = r], (E \cup OwnOf(st.addr[a])) \ OwnOf(r))
<1> DEFINE t == [st EXCEPT !.addr[a] = r]
           addr == [st.addr EXCEPT ![a] = r]
           F == (E \cup OwnOf(st.addr[a])) \ OwnOf(r)
<1>1. IsState(st) /\ Owned(st, E) /\ Inside(st) BY DEF Sound
<1>2. t = [socket |-> st.socket, addr |-> addr, fd |-> st.fd, pools |-> st.pools]
  <2>1. st = [socket |-> st.socket, addr |-> st.addr, fd |-> st.fd, pools |-> st.pools] BY <1>1 DEF IsState
  <2>2. t = [st EXCEPT !.addr = addr] BY <2>1
  <2> HIDE DEF t, addr
  <2> QED BY <2>1, <2>2
<1>3. /\ addr = [x \in SK_Addrs |-> addr[x]]
      /\ addr[a] = r /\ \A x \in SK_Addrs \ {a} : addr[x] = st.addr[x]
  <2>1. st.addr = [x \in SK_Addrs |-> st.addr[x]] BY <1>1 DEF IsState
  <2> QED BY <2>1
<1> HIDE DEF t, addr
<1>4. t.socket = st.socket /\ t.addr = addr /\ t.fd = st.fd /\ t.pools = st.pools BY <1>2
<1>5. /\ IsAddr(r) /\ r.pool \in st.pools \cup {0} /\ r.at.pool \in {0, r.pool}
      /\ r.at.pool = 0 => r.at = NoPlace
      /\ r.borrowed => r.pool # 0
      /\ ~r.live => r = NoAddr
      /\ OwnOf(r) \subseteq E \cup OwnOf(st.addr[a])
  BY DEF AddrFits
<1>6. IsState(t)
  <2>1. t = [socket |-> t.socket, addr |-> t.addr, fd |-> t.fd, pools |-> t.pools] BY <1>2, <1>4, Zenon
  <2>2. \A x \in SK_Addrs : IsAddr(t.addr[x]) BY <1>1, <1>3, <1>4, <1>5 DEF IsState
  <2>3. t.addr = [x \in SK_Addrs |-> t.addr[x]] BY <1>3, <1>4, Zenon
  <2> QED BY <1>1, <1>4, <2>1, <2>2, <2>3, Zenon DEF IsState
<1>7. Owned(t, F)
  <2>1. /\ \A x \in SK_Addrs : AddrPoolOwned(st.addr[x]) => st.addr[x].pool \in st.pools \ E
        /\ E \subseteq st.pools
        /\ \A s \in SK_Sockets : st.socket[s].pool \in (st.pools \ E) \cup {0}
    BY <1>1 DEF Owned
  <2>2. OwnOf(st.addr[a]) \subseteq st.pools \ E BY <2>1 DEF OwnOf
  <2>3. \A x \in SK_Addrs \ {a} : AddrPoolOwned(st.addr[x]) => st.addr[x].pool \notin OwnOf(st.addr[a])
    BY <1>1 DEF Owned, OwnOf
  <2>4. \A s \in SK_Sockets : st.socket[s].pool \notin OwnOf(st.addr[a]) BY <1>1 DEF Owned, OwnOf
  <2>5. AddrPoolOwned(r) <=> OwnOf(r) # {} BY DEF OwnOf
  <2>6. AddrPoolOwned(r) => OwnOf(r) = {r.pool} /\ r.pool \in E \cup OwnOf(st.addr[a]) /\ r.pool # 0
    BY <1>5 DEF OwnOf, AddrPoolOwned
  <2>7. 0 \notin st.pools BY <1>1, Zero DEF IsState
  <2>8. AddrPoolOwned(st.addr[a]) => OwnOf(st.addr[a]) = {st.addr[a].pool} BY DEF OwnOf
  <2> HIDE DEF F
  <2>9. F = (E \cup OwnOf(st.addr[a])) \ OwnOf(r) BY DEF F
  <2>10. F \subseteq t.pools BY <1>4, <2>1, <2>2, <2>9
  <2>11. \A s \in SK_Sockets : t.socket[s].pool \in (t.pools \ F) \cup {0} BY <1>4, <2>1, <2>4, <2>9
  <2>12. ASSUME NEW x \in SK_Addrs, AddrPoolOwned(t.addr[x]) PROVE t.addr[x].pool \in t.pools \ F
    <3>1. CASE x = a BY <1>3, <1>4, <2>1, <2>2, <2>6, <2>9, <2>12, <3>1
    <3>2. CASE x # a BY <1>3, <1>4, <2>1, <2>3, <2>9, <2>12, <3>2
    <3> QED BY <3>1, <3>2
  <2>13. \A x, y \in SK_Sockets : x # y => t.socket[x].pool = 0 \/ t.socket[x].pool # t.socket[y].pool
    BY <1>1, <1>4 DEF Owned
  <2>14. ASSUME NEW x \in SK_Addrs \ {a}, AddrPoolOwned(r), AddrPoolOwned(st.addr[x])
         PROVE  st.addr[x].pool # r.pool
    BY <2>1, <2>3, <2>6, <2>14
  <2>15. \A x, y \in SK_Addrs : x # y /\ AddrPoolOwned(t.addr[x]) /\ AddrPoolOwned(t.addr[y]) =>
                                t.addr[x].pool # t.addr[y].pool
    <3> SUFFICES ASSUME NEW x \in SK_Addrs, NEW y \in SK_Addrs, x # y,
                        AddrPoolOwned(t.addr[x]), AddrPoolOwned(t.addr[y])
                 PROVE  t.addr[x].pool # t.addr[y].pool
      OBVIOUS
    <3>1. CASE x = a BY <1>3, <1>4, <2>14, <3>1
    <3>2. CASE y = a BY <1>3, <1>4, <2>14, <3>2
    <3>3. CASE x # a /\ y # a
      <4>1. t.addr[x] = st.addr[x] /\ t.addr[y] = st.addr[y] BY <1>3, <1>4, <3>3
      <4> QED BY <1>1, <4>1 DEF Owned
    <3> QED BY <3>1, <3>2, <3>3
  <2>16. ASSUME NEW s \in SK_Sockets, NEW x \in SK_Addrs, AddrPoolOwned(t.addr[x])
         PROVE  t.socket[s].pool # t.addr[x].pool
    <3>1. CASE x = a BY <1>3, <1>4, <2>1, <2>4, <2>6, <2>16, <3>1
    <3>2. CASE x # a
      <4>1. t.addr[x] = st.addr[x] BY <1>3, <1>4, <3>2
      <4> QED BY <1>1, <1>4, <2>16, <4>1 DEF Owned
    <3> QED BY <3>1, <3>2
  <2>17. ASSUME NEW p \in t.pools \ F
         PROVE  \/ \E s \in SK_Sockets : t.socket[s].pool = p
                \/ \E x \in SK_Addrs : AddrPoolOwned(t.addr[x]) /\ t.addr[x].pool = p
    <3>1. CASE p \in OwnOf(r)
      <4>1. AddrPoolOwned(r) /\ r.pool = p BY <2>5, <2>6, <3>1
      <4> QED BY <1>3, <1>4, <4>1
    <3>2. CASE p \notin OwnOf(r)
      <4>1. p \in st.pools \ E /\ p \notin OwnOf(st.addr[a]) BY <1>4, <2>9, <3>2
      <4>2. \/ \E s \in SK_Sockets : st.socket[s].pool = p
            \/ \E x \in SK_Addrs : AddrPoolOwned(st.addr[x]) /\ st.addr[x].pool = p
        BY <1>1, <4>1 DEF Owned
      <4>3. CASE \E s \in SK_Sockets : st.socket[s].pool = p BY <1>4, <4>3
      <4>4. CASE \E x \in SK_Addrs : AddrPoolOwned(st.addr[x]) /\ st.addr[x].pool = p
        <5>1. PICK x \in SK_Addrs : AddrPoolOwned(st.addr[x]) /\ st.addr[x].pool = p BY <4>4
        <5>2. x # a BY <2>8, <4>1, <5>1
        <5> QED BY <1>3, <1>4, <5>1, <5>2
      <4> QED BY <4>2, <4>3, <4>4
    <3> QED BY <3>1, <3>2
  <2> QED BY <2>10, <2>11, <2>12, <2>13, <2>15, <2>16, <2>17, Zenon DEF Owned
<1>8. Inside(t)
  <2>1. ASSUME NEW x \in SK_Addrs
        PROVE  /\ t.addr[x].pool \in t.pools \cup {0}
               /\ t.addr[x].at.pool \in {0, t.addr[x].pool}
               /\ t.addr[x].at.pool = 0 => t.addr[x].at = NoPlace
               /\ t.addr[x].borrowed => t.addr[x].pool # 0
               /\ ~t.addr[x].live => t.addr[x] = NoAddr
    <3>1. CASE x = a
      <4>1. t.addr[x] = r BY <1>3, <1>4, <3>1
      <4> QED BY <1>4, <1>5, <4>1
    <3>2. CASE x # a
      <4>1. t.addr[x] = st.addr[x] BY <1>3, <1>4, <3>2
      <4> QED BY <1>1, <1>4, <4>1 DEF Inside
    <3> QED BY <3>1, <3>2
  <2>2. /\ \A s \in SK_Sockets : t.socket[s].fd # 0 =>
             t.socket[s].fd \in DOMAIN t.fd /\ t.fd[t.socket[s].fd].pool = t.socket[s].pool
        /\ \A n \in DOMAIN t.fd : t.fd[n].pool \in t.pools /\ t.fd[n].at.pool \in {0, t.fd[n].pool}
    BY <1>1, <1>4 DEF Inside
  <2> QED BY <2>1, <2>2 DEF Inside
<1> QED BY <1>6, <1>7, <1>8 DEF Sound, t

\* A pool is made by the call in progress.
LEMMA PoolMade ==
  ASSUME NEW st, NEW E, Sound(st, E), NEW p \in SK_Pools \ st.pools
  PROVE  Sound([st EXCEPT !.pools = @ \cup {p}], E \cup {p})
<1> DEFINE t == [st EXCEPT !.pools = @ \cup {p}]
<1>1. IsState(st) /\ Owned(st, E) /\ Inside(st) BY DEF Sound
<1>2. t = [socket |-> st.socket, addr |-> st.addr, fd |-> st.fd, pools |-> st.pools \cup {p}]
  <2>1. st = [socket |-> st.socket, addr |-> st.addr, fd |-> st.fd, pools |-> st.pools] BY <1>1 DEF IsState
  <2> QED BY <2>1
<1> HIDE DEF t
<1>3. t.socket = st.socket /\ t.addr = st.addr /\ t.fd = st.fd /\ t.pools = st.pools \cup {p} BY <1>2
<1>4. IsState(t)
  <2>1. t = [socket |-> t.socket, addr |-> t.addr, fd |-> t.fd, pools |-> t.pools] BY <1>2, <1>3, Zenon
  <2>2. t.pools \subseteq SK_Pools BY <1>1, <1>3 DEF IsState
  <2> QED BY <1>1, <1>3, <2>1, <2>2, Zenon DEF IsState
<1>5. Owned(t, E \cup {p})
  <2>1. t.pools \ (E \cup {p}) = st.pools \ E /\ E \cup {p} \subseteq t.pools BY <1>1, <1>3 DEF Owned
  <2>2. \A r \in t.pools \ (E \cup {p}) :
       \/ \E s \in SK_Sockets : t.socket[s].pool = r
       \/ \E a \in SK_Addrs : AddrPoolOwned(t.addr[a]) /\ t.addr[a].pool = r
    BY <1>1, <1>3, <2>1 DEF Owned
  <2> HIDE DEF Owned
  <2>3. /\ \A s \in SK_Sockets : t.socket[s].pool \in (t.pools \ (E \cup {p})) \cup {0}
        /\ \A a \in SK_Addrs : AddrPoolOwned(t.addr[a]) => t.addr[a].pool \in t.pools \ (E \cup {p})
    BY <1>1, <1>3, <2>1 DEF Owned
  <2>4. /\ \A s, u \in SK_Sockets : s # u => t.socket[s].pool = 0 \/ t.socket[s].pool # t.socket[u].pool
        /\ \A a, b \in SK_Addrs : a # b /\ AddrPoolOwned(t.addr[a]) /\ AddrPoolOwned(t.addr[b]) =>
                              t.addr[a].pool # t.addr[b].pool
        /\ \A s \in SK_Sockets, a \in SK_Addrs : AddrPoolOwned(t.addr[a]) => t.socket[s].pool # t.addr[a].pool
    BY <1>1, <1>3 DEF Owned
  <2> QED BY <2>1, <2>2, <2>3, <2>4, Zenon DEF Owned
<1>6. Inside(t) BY <1>1, <1>3 DEF Inside
<1> QED BY <1>4, <1>5, <1>6 DEF Sound, t

\* The pool the call has made becomes that of a socket that has none.
LEMMA Attach ==
  ASSUME NEW st, NEW E, Sound(st, E), NEW s \in SK_Sockets, st.socket[s].pool = 0, NEW p \in E
  PROVE  Sound([st EXCEPT !.socket[s].pool = p], E \ {p})
<1> DEFINE r == [st.socket[s] EXCEPT !.pool = p]
           t == [st EXCEPT !.socket[s].pool = p]
           socket == [st.socket EXCEPT ![s] = r]
<1>1. IsState(st) /\ Owned(st, E) /\ Inside(st) BY DEF Sound
<1>2. t = [socket |-> socket, addr |-> st.addr, fd |-> st.fd, pools |-> st.pools]
  <2>1. st = [socket |-> st.socket, addr |-> st.addr, fd |-> st.fd, pools |-> st.pools] BY <1>1 DEF IsState
  <2>2. t = [st EXCEPT !.socket = socket] BY <2>1
  <2> HIDE DEF t, socket
  <2> QED BY <2>1, <2>2
<1>3. /\ socket = [x \in SK_Sockets |-> socket[x]]
      /\ socket[s] = r /\ \A x \in SK_Sockets \ {s} : socket[x] = st.socket[x]
  <2>1. st.socket = [x \in SK_Sockets |-> st.socket[x]] BY <1>1 DEF IsState
  <2> HIDE DEF r
  <2> QED BY <2>1
<1>4. p \in SK_Pools /\ p \in st.pools /\ p # 0 BY <1>1, Zero DEF IsState, Owned
<1>5. IsSocket(r) /\ r.pool = p /\ r.fd = st.socket[s].fd
  <2>1. IsSocket(st.socket[s]) BY <1>1 DEF IsState
  <2> QED BY <1>4, <2>1 DEF IsSocket, Numbers
<1>6. st.socket[s].fd = 0 BY <1>1, Zero DEF Inside, IsState
<1> HIDE DEF t, socket, r
<1>7. t.socket = socket /\ t.addr = st.addr /\ t.fd = st.fd /\ t.pools = st.pools BY <1>2
<1>8. IsState(t)
  <2>1. t = [socket |-> t.socket, addr |-> t.addr, fd |-> t.fd, pools |-> t.pools] BY <1>2, <1>7, Zenon
  <2>2. \A x \in SK_Sockets : IsSocket(t.socket[x]) BY <1>1, <1>3, <1>5, <1>7 DEF IsState
  <2>3. t.socket = [x \in SK_Sockets |-> t.socket[x]] BY <1>3, <1>7, Zenon
  <2> QED BY <1>1, <1>7, <2>1, <2>2, <2>3, Zenon DEF IsState
<1>9. \A x \in SK_Sockets : t.socket[x].pool = IF x = s THEN p ELSE st.socket[x].pool BY <1>3, <1>5, <1>7
<1>10. Owned(t, E \ {p})
  <2>1. E \ {p} \subseteq t.pools /\ t.pools \ (E \ {p}) = (st.pools \ E) \cup {p} BY <1>1, <1>4, <1>7 DEF Owned
  <2>2. \A x \in SK_Sockets : t.socket[x].pool \in (t.pools \ (E \ {p})) \cup {0} BY <1>1, <1>9, <2>1 DEF Owned
  <2>3. \A a \in SK_Addrs : AddrPoolOwned(t.addr[a]) => t.addr[a].pool \in t.pools \ (E \ {p})
    BY <1>1, <1>7, <2>1 DEF Owned
  <2>4. \A x, y \in SK_Sockets : x # y => t.socket[x].pool = 0 \/ t.socket[x].pool # t.socket[y].pool
    <3>1. \A x \in SK_Sockets : st.socket[x].pool # p BY <1>1, <1>4 DEF Owned
    <3>2. \A x, y \in SK_Sockets : x # y => st.socket[x].pool = 0 \/ st.socket[x].pool # st.socket[y].pool
      BY <1>1 DEF Owned
    <3> QED BY <1>9, <3>1, <3>2
  <2>5. \A a, b \in SK_Addrs : a # b /\ AddrPoolOwned(t.addr[a]) /\ AddrPoolOwned(t.addr[b]) =>
                              t.addr[a].pool # t.addr[b].pool
    BY <1>1, <1>7 DEF Owned
  <2>6. \A x \in SK_Sockets, a \in SK_Addrs : AddrPoolOwned(t.addr[a]) => t.socket[x].pool # t.addr[a].pool
    BY <1>1, <1>7, <1>9 DEF Owned
  <2>7. ASSUME NEW q \in t.pools \ (E \ {p})
        PROVE  \/ \E x \in SK_Sockets : t.socket[x].pool = q
               \/ \E a \in SK_Addrs : AddrPoolOwned(t.addr[a]) /\ t.addr[a].pool = q
    <3>1. CASE q = p BY <1>9, <3>1
    <3>2. CASE q # p
      <4>1. q \in st.pools \ E BY <2>1, <3>2
      <4>2. \/ \E x \in SK_Sockets : st.socket[x].pool = q
            \/ \E a \in SK_Addrs : AddrPoolOwned(st.addr[a]) /\ st.addr[a].pool = q
        BY <1>1, <4>1 DEF Owned
      <4>3. q # 0 BY <1>1, <4>1, Zero DEF IsState
      <4> QED BY <1>7, <1>9, <4>2, <4>3
    <3> QED BY <3>1, <3>2
  <2> QED BY <2>1, <2>2, <2>3, <2>4, <2>5, <2>6, <2>7, Zenon DEF Owned
<1>11. Inside(t)
  <2>1. \A x \in SK_Sockets : t.socket[x].fd # 0 =>
          t.socket[x].fd \in DOMAIN t.fd /\ t.fd[t.socket[x].fd].pool = t.socket[x].pool
    BY <1>1, <1>3, <1>5, <1>6, <1>7 DEF Inside
  <2> QED BY <1>1, <1>7, <2>1 DEF Inside
<1> QED BY <1>8, <1>10, <1>11 DEF Sound, t

\* There are numbers enough.
LEMMA ImageSize ==
  ASSUME NEW S, IsFiniteSet(S), NEW f
  PROVE  IsFiniteSet({f[x] : x \in S}) /\ Cardinality({f[x] : x \in S}) <= Cardinality(S)
<1> DEFINE T == {f[x] : x \in S}
           g == [x \in S |-> f[x]]
<1>1. g \in Surjection(S, T) BY DEF Surjection
<1> HIDE DEF g, T
<1>2. IsFiniteSet(T) /\ Cardinality(T) <= Cardinality(S) BY <1>1, FS_Surjection
<1> QED BY <1>2 DEF T

LEMMA TwoSets ==
  ASSUME NEW X, NEW Y, IsFiniteSet(X), IsFiniteSet(Y)
  PROVE  IsFiniteSet(X \cup Y) /\ Cardinality(X \cup Y) <= Cardinality(X) + Cardinality(Y)
<1>1. IsFiniteSet(X \cap Y) /\ Cardinality(X \cap Y) \in Nat
  <2>1. X \cap Y \in SUBSET X OBVIOUS
  <2>2. IsFiniteSet(X \cap Y) BY <2>1, FS_Subset
  <2> QED BY <2>2, FS_CardinalityType
<1>2. /\ IsFiniteSet(X \cup Y)
      /\ Cardinality(X \cup Y) = Cardinality(X) + Cardinality(Y) - Cardinality(X \cap Y)
  BY FS_Union
<1>3. Cardinality(X) \in Nat /\ Cardinality(Y) \in Nat BY FS_CardinalityType
<1> QED BY <1>1, <1>2, <1>3

LEMMA OneMoreIn ==
  ASSUME NEW X, NEW x, IsFiniteSet(X)
  PROVE  IsFiniteSet(X \cup {x}) /\ Cardinality(X \cup {x}) \in Nat /\ Cardinality(X) \in Nat
         /\ Cardinality(X \cup {x}) = IF x \in X THEN Cardinality(X) ELSE Cardinality(X) + 1
<1>1. IsFiniteSet(X \cup {x}) BY FS_AddElement
<1>2. Cardinality(X \cup {x}) \in Nat /\ Cardinality(X) \in Nat BY <1>1, FS_CardinalityType
<1>3. Cardinality(X \cup {x}) = IF x \in X THEN Cardinality(X) ELSE Cardinality(X) + 1 BY FS_AddElement
<1> QED BY <1>1, <1>2, <1>3

SocketPools(st) == {st.socket[s].pool : s \in SK_Sockets}
AddrPools(st) == {st.addr[a].pool : a \in SK_Addrs}

\* The pools there are are in use, but for one that the call in progress has made
\* for a socket that has none.
AllUsed(st) ==
  \/ st.pools \subseteq SocketPools(st) \cup AddrPools(st)
  \/ \E q : /\ st.pools \subseteq SocketPools(st) \cup AddrPools(st) \cup {q}
            /\ \E s \in SK_Sockets : st.socket[s].pool = 0

LEMMA PoolLeft ==
  ASSUME NEW st, AllUsed(st)
  PROVE  /\ FreshPool(st) \in SK_Pools
         /\ FreshPool(st) \notin st.pools \cup SocketPools(st) \cup AddrPools(st)
<1> DEFINE X == SocketPools(st) \cup AddrPools(st)
           n == Cardinality(SK_Pools)
           m == Cardinality(SK_Sockets) + Cardinality(SK_Addrs)
<1>1. /\ IsFiniteSet(SK_Pools) /\ IsFiniteSet(SK_Sockets) /\ IsFiniteSet(SK_Addrs)
      /\ n > m /\ n \in Nat /\ m \in Nat
  <2>1. IsFiniteSet(SK_Pools) /\ IsFiniteSet(SK_Sockets) /\ IsFiniteSet(SK_Addrs) /\ n > m BY SK_Assumption
  <2>2. n \in Nat BY <2>1, FS_CardinalityType
  <2>3. Cardinality(SK_Sockets) \in Nat /\ Cardinality(SK_Addrs) \in Nat BY <2>1, FS_CardinalityType
  <2> QED BY <2>1, <2>2, <2>3
<1>2. IsFiniteSet(X) /\ Cardinality(X) <= m /\ Cardinality(X) \in Nat
  <2> DEFINE f == [s \in SK_Sockets |-> st.socket[s].pool]
             g == [a \in SK_Addrs |-> st.addr[a].pool]
  <2>1. IsFiniteSet(SocketPools(st)) /\ Cardinality(SocketPools(st)) <= Cardinality(SK_Sockets)
    <3>1. SocketPools(st) = {f[s] : s \in SK_Sockets} BY DEF SocketPools
    <3> HIDE DEF f
    <3> QED BY <1>1, <3>1, ImageSize
  <2>2. IsFiniteSet(AddrPools(st)) /\ Cardinality(AddrPools(st)) <= Cardinality(SK_Addrs)
    <3>1. AddrPools(st) = {g[a] : a \in SK_Addrs} BY DEF AddrPools
    <3> HIDE DEF g
    <3> QED BY <1>1, <3>1, ImageSize
  <2>3. IsFiniteSet(X) /\ Cardinality(X) <= Cardinality(SocketPools(st)) + Cardinality(AddrPools(st))
    BY <2>1, <2>2, TwoSets
  <2>4. /\ Cardinality(SocketPools(st)) \in Nat /\ Cardinality(AddrPools(st)) \in Nat /\ Cardinality(X) \in Nat
        /\ Cardinality(SK_Sockets) \in Nat /\ Cardinality(SK_Addrs) \in Nat
    BY <1>1, <2>1, <2>2, <2>3, FS_CardinalityType
  <2> QED BY <2>1, <2>2, <2>3, <2>4
<1>3. \E p \in SK_Pools : p \notin st.pools \cup X
  <2>1. CASE st.pools \subseteq X
    <3> SUFFICES ASSUME SK_Pools \subseteq X PROVE FALSE BY <2>1
    <3>1. SK_Pools \in SUBSET X OBVIOUS
    <3>2. n <= Cardinality(X) BY <1>2, <3>1, FS_Subset
    <3> HIDE DEF n, m, X
    <3> QED BY <1>1, <1>2, <3>2
  <2>2. CASE \E q : st.pools \subseteq X \cup {q} /\ \E s \in SK_Sockets : st.socket[s].pool = 0
    <3>1. PICK q : st.pools \subseteq X \cup {q} /\ \E s \in SK_Sockets : st.socket[s].pool = 0 BY <2>2
    <3> SUFFICES ASSUME SK_Pools \subseteq X \cup {q} PROVE FALSE BY <3>1
    <3>2. 0 \in X BY <3>1 DEF SocketPools
    <3>3. 0 \notin SK_Pools BY Zero
    <3> HIDE DEF X
    <3>4. IsFiniteSet(X \cup {q}) /\ Cardinality(X \cup {q}) <= Cardinality(X) + 1 /\ Cardinality(X \cup {q}) \in Nat
      <4>1. /\ IsFiniteSet(X \cup {q}) /\ Cardinality(X \cup {q}) \in Nat /\ Cardinality(X) \in Nat
            /\ Cardinality(X \cup {q}) = IF q \in X THEN Cardinality(X) ELSE Cardinality(X) + 1
        BY <1>2, OneMoreIn
      <4> QED BY <4>1
    <3>5. IsFiniteSet(SK_Pools \cup {0}) /\ Cardinality(SK_Pools \cup {0}) = n + 1
      BY <1>1, <3>3, OneMoreIn
    <3>6. SK_Pools \cup {0} \in SUBSET (X \cup {q}) BY <3>2
    <3>7. Cardinality(SK_Pools \cup {0}) <= Cardinality(X \cup {q}) BY <3>4, <3>6, FS_Subset
    <3> HIDE DEF n, m
    <3> QED BY <1>1, <1>2, <3>4, <3>5, <3>7
  <2> QED BY <2>1, <2>2 DEF AllUsed
<1>4. FreshPool(st) \in SK_Pools /\ FreshPool(st) \notin st.pools \cup X
  BY <1>3, Zenon DEF FreshPool, SocketPools, AddrPools
<1> QED BY <1>4

\* A state in which the descriptors are at most k.
Fits(st, E, k) == Sound(st, E) /\ Cardinality(DOMAIN st.fd) <= k

LEMMA FdLeft ==
  ASSUME NEW st, NEW E, NEW k \in Nat, Fits(st, E, k), k < SK_Calls
  PROVE  FreshFd(st) \in SK_Pools /\ FreshFd(st) \notin DOMAIN st.fd
<1>1. IsState(st) /\ Inside(st) /\ Cardinality(DOMAIN st.fd) <= k BY DEF Fits, Sound
<1>2. {st.socket[s].fd : s \in SK_Sockets} \subseteq DOMAIN st.fd \cup {0} BY <1>1 DEF Inside
<1>3. DOMAIN st.fd \in SUBSET SK_Pools BY <1>1 DEF IsState
<1>4. IsFiniteSet(SK_Pools) /\ Cardinality(SK_Pools) >= SK_Calls /\ SK_Calls \in Nat /\ Cardinality(SK_Pools) \in Nat
  BY SK_Assumption, FS_CardinalityType
<1>5. IsFiniteSet(DOMAIN st.fd) /\ Cardinality(DOMAIN st.fd) \in Nat
  <2>1. IsFiniteSet(DOMAIN st.fd) BY <1>3, <1>4, FS_Subset
  <2> QED BY <2>1, FS_CardinalityType
<1>6. DOMAIN st.fd # SK_Pools BY <1>1, <1>4, <1>5
<1>7. \E n \in SK_Pools : n \notin DOMAIN st.fd \cup {st.socket[s].fd : s \in SK_Sockets}
  BY <1>2, <1>3, <1>6, Zero
<1> QED BY <1>7, Zenon DEF FreshFd

\* The states that the operations make, by their parts.
Made(socket, addr, fd, pools) == [socket |-> socket, addr |-> addr, fd |-> fd, pools |-> pools]
AddrsLeft(addr, p) == [a \in SK_Addrs |-> IF addr[a].borrowed /\ addr[a].pool = p THEN NoAddr ELSE addr[a]]
FdsLeft(fd, p) == [n \in {m \in DOMAIN fd : fd[m].pool # p} |-> fd[n]]
FdsBut(fd, n) == [m \in DOMAIN fd \ {n} |-> fd[m]]

HasParts(st) == st = [socket |-> st.socket, addr |-> st.addr, fd |-> st.fd, pools |-> st.pools]

LEMMA Parts ==
  ASSUME NEW socket, NEW addr, NEW fd, NEW pools, NEW t, t = Made(socket, addr, fd, pools)
  PROVE  HasParts(t) /\ t.socket = socket /\ t.addr = addr /\ t.fd = fd /\ t.pools = pools
<1>1. t.socket = socket /\ t.addr = addr /\ t.fd = fd /\ t.pools = pools BY DEF Made
<1> QED BY <1>1, Zenon DEF Made, HasParts

LEMMA SocketPut ==
  ASSUME NEW st, HasParts(st), NEW s, NEW r
  PROVE  [st EXCEPT !.socket[s] = r] = Made([st.socket EXCEPT ![s] = r], st.addr, st.fd, st.pools)
<1> DEFINE socket == [st.socket EXCEPT ![s] = r]
<1>1. st = [socket |-> st.socket, addr |-> st.addr, fd |-> st.fd, pools |-> st.pools] BY DEF HasParts
<1>2. [st EXCEPT !.socket[s] = r] = [st EXCEPT !.socket = socket] BY <1>1
<1> HIDE DEF socket
<1>3. [st EXCEPT !.socket = socket] = [socket |-> socket, addr |-> st.addr, fd |-> st.fd, pools |-> st.pools]
  BY <1>1
<1>4. [st EXCEPT !.socket[s] = r] = Made(socket, st.addr, st.fd, st.pools) BY <1>2, <1>3, Zenon DEF Made
<1> QED BY <1>4, Zenon DEF socket

LEMMA AddrPutParts ==
  ASSUME NEW st, HasParts(st), NEW a, NEW r
  PROVE  [st EXCEPT !.addr[a] = r] = Made(st.socket, [st.addr EXCEPT ![a] = r], st.fd, st.pools)
<1> DEFINE addr == [st.addr EXCEPT ![a] = r]
<1>1. st = [socket |-> st.socket, addr |-> st.addr, fd |-> st.fd, pools |-> st.pools] BY DEF HasParts
<1>2. [st EXCEPT !.addr[a] = r] = [st EXCEPT !.addr = addr] BY <1>1
<1> HIDE DEF addr
<1>3. [st EXCEPT !.addr = addr] = [socket |-> st.socket, addr |-> addr, fd |-> st.fd, pools |-> st.pools]
  BY <1>1
<1>4. [st EXCEPT !.addr[a] = r] = Made(st.socket, addr, st.fd, st.pools) BY <1>2, <1>3, Zenon DEF Made
<1> QED BY <1>4, Zenon DEF addr

LEMMA DestroyedParts ==
  ASSUME NEW st, HasParts(st), NEW p
  PROVE  PoolDestroyed(st, p) = Made(st.socket, AddrsLeft(st.addr, p), FdsLeft(st.fd, p), st.pools \ {p})
<1> DEFINE addr == AddrsLeft(st.addr, p)
           fd == FdsLeft(st.fd, p)
           t == PoolDestroyed(st, p)
<1>1. st = [socket |-> st.socket, addr |-> st.addr, fd |-> st.fd, pools |-> st.pools] BY DEF HasParts
<1>2. t = [st EXCEPT !.pools = st.pools \ {p}, !.fd = fd, !.addr = addr]
  BY <1>1 DEF PoolDestroyed, OnlyFds, AddrsLeft, FdsLeft
<1> HIDE DEF addr, fd, t
<1>3. t = [socket |-> st.socket, addr |-> addr, fd |-> fd, pools |-> st.pools \ {p}] BY <1>1, <1>2
<1>4. t = Made(st.socket, addr, fd, st.pools \ {p}) BY <1>3, Zenon DEF Made
<1> QED BY <1>4, Zenon DEF addr, fd, t

LEMMA ClosedParts ==
  ASSUME NEW st, HasParts(st), NEW n
  PROVE  FdClosed(st, n) = Made(st.socket, st.addr, FdsBut(st.fd, n), st.pools)
<1> DEFINE fd == FdsBut(st.fd, n)
<1>1. st = [socket |-> st.socket, addr |-> st.addr, fd |-> st.fd, pools |-> st.pools] BY DEF HasParts
<1>2. FdClosed(st, n) = [st EXCEPT !.fd = fd] BY <1>1 DEF FdClosed, OnlyFds, FdsBut
<1> HIDE DEF fd
<1>3. [st EXCEPT !.fd = fd] = [socket |-> st.socket, addr |-> st.addr, fd |-> fd, pools |-> st.pools] BY <1>1
<1>4. FdClosed(st, n) = Made(st.socket, st.addr, fd, st.pools) BY <1>2, <1>3, Zenon DEF Made
<1> QED BY <1>4, Zenon DEF fd

LEMMA PoolsParts ==
  ASSUME NEW st, HasParts(st), NEW pools
  PROVE  [st EXCEPT !.pools = pools] = Made(st.socket, st.addr, st.fd, pools)
<1>1. st = [socket |-> st.socket, addr |-> st.addr, fd |-> st.fd, pools |-> st.pools] BY DEF HasParts
<1>2. [st EXCEPT !.pools = pools] = [socket |-> st.socket, addr |-> st.addr, fd |-> st.fd, pools |-> pools]
  BY <1>1
<1> QED BY <1>2, Zenon DEF Made

LEMMA StateParts ==
  ASSUME NEW st, IsState(st)
  PROVE  HasParts(st)
BY Zenon DEF IsState, HasParts

\* A structure put and a pool destroyed, or a descriptor closed: the order does
\* not matter.
LEMMA PutDestroyed ==
  ASSUME NEW st, HasParts(st), NEW s, NEW r, NEW p
  PROVE  PoolDestroyed([st EXCEPT !.socket[s] = r], p) = [PoolDestroyed(st, p) EXCEPT !.socket[s] = r]
<1> DEFINE d == [st EXCEPT !.socket[s] = r]
           g == PoolDestroyed(st, p)
           socket == [st.socket EXCEPT ![s] = r]
<1>1. d = Made(socket, st.addr, st.fd, st.pools) BY SocketPut
<1>2. g = Made(st.socket, AddrsLeft(st.addr, p), FdsLeft(st.fd, p), st.pools \ {p}) BY DestroyedParts
<1>3. HasParts(g) /\ g.socket = st.socket /\ g.addr = AddrsLeft(st.addr, p) /\ g.fd = FdsLeft(st.fd, p)
      /\ g.pools = st.pools \ {p}
  <2> HIDE DEF g
  <2> QED BY <1>2, Parts
<1>4. HasParts(d) /\ d.socket = socket /\ d.addr = st.addr /\ d.fd = st.fd /\ d.pools = st.pools
  <2> HIDE DEF d, socket
  <2> QED BY <1>1, Parts
<1>5. PoolDestroyed(d, p) = Made(socket, AddrsLeft(st.addr, p), FdsLeft(st.fd, p), st.pools \ {p})
  <2>1. PoolDestroyed(d, p) = Made(d.socket, AddrsLeft(d.addr, p), FdsLeft(d.fd, p), d.pools \ {p})
    BY <1>4, DestroyedParts
  <2> HIDE DEF d, socket
  <2> QED BY <1>4, <2>1, Zenon
<1>6. [g EXCEPT !.socket[s] = r] = Made(socket, AddrsLeft(st.addr, p), FdsLeft(st.fd, p), st.pools \ {p})
  <2>1. [g EXCEPT !.socket[s] = r] = Made([g.socket EXCEPT ![s] = r], g.addr, g.fd, g.pools) BY <1>3, SocketPut
  <2> HIDE DEF g
  <2> QED BY <1>3, <2>1, Zenon
<1> HIDE DEF socket
<1> QED BY <1>5, <1>6, Zenon

LEMMA PutClosed ==
  ASSUME NEW st, HasParts(st), NEW s, NEW r, NEW n
  PROVE  FdClosed([st EXCEPT !.socket[s] = r], n) = [FdClosed(st, n) EXCEPT !.socket[s] = r]
<1> DEFINE d == [st EXCEPT !.socket[s] = r]
           g == FdClosed(st, n)
           socket == [st.socket EXCEPT ![s] = r]
<1>1. d = Made(socket, st.addr, st.fd, st.pools) BY SocketPut
<1>2. g = Made(st.socket, st.addr, FdsBut(st.fd, n), st.pools) BY ClosedParts
<1>3. HasParts(g) /\ g.socket = st.socket /\ g.addr = st.addr /\ g.fd = FdsBut(st.fd, n) /\ g.pools = st.pools
  <2> HIDE DEF g
  <2> QED BY <1>2, Parts
<1>4. HasParts(d) /\ d.socket = socket /\ d.addr = st.addr /\ d.fd = st.fd /\ d.pools = st.pools
  <2> HIDE DEF d, socket
  <2> QED BY <1>1, Parts
<1>5. FdClosed(d, n) = Made(socket, st.addr, FdsBut(st.fd, n), st.pools)
  <2>1. FdClosed(d, n) = Made(d.socket, d.addr, FdsBut(d.fd, n), d.pools) BY <1>4, ClosedParts
  <2> HIDE DEF d, socket
  <2> QED BY <1>4, <2>1, Zenon
<1>6. [g EXCEPT !.socket[s] = r] = Made(socket, st.addr, FdsBut(st.fd, n), st.pools)
  <2>1. [g EXCEPT !.socket[s] = r] = Made([g.socket EXCEPT ![s] = r], g.addr, g.fd, g.pools) BY <1>3, SocketPut
  <2> HIDE DEF g
  <2> QED BY <1>3, <2>1, Zenon
<1> HIDE DEF socket
<1> QED BY <1>5, <1>6, Zenon

\* A socket is put back without its descriptor and its pool.
Closing(st, s, r, close) ==
  LET shut == IF close THEN FdClosed(st, st.socket[s].fd) ELSE st
      gone == IF st.socket[s].pool # 0 THEN PoolDestroyed(shut, st.socket[s].pool) ELSE shut IN
  [gone EXCEPT !.socket[s] = r]

LEMMA SocketShut ==
  ASSUME NEW st, NEW E, Sound(st, E), NEW s \in SK_Sockets, NEW r, IsSocket(r), r.fd = 0, r.pool = 0,
         NEW close \in BOOLEAN, close => st.socket[s].fd # 0
  PROVE  /\ Sound(Closing(st, s, r, close), E)
         /\ DOMAIN Closing(st, s, r, close).fd \subseteq DOMAIN st.fd
<1> DEFINE q == st.socket[s].pool
           n == st.socket[s].fd
           d == [st EXCEPT !.socket[s] = r]
           c == IF close THEN FdClosed(d, n) ELSE d
           g == IF q # 0 THEN PoolDestroyed(c, q) ELSE c
           F == E \cup ({q} \ {0})
<1>1. IsState(st) /\ Owned(st, E) /\ Inside(st) BY DEF Sound
<1>2. Sound(d, F) BY Detach
<1>3. HasParts(st) BY <1>1, StateParts
<1>4. d.socket = [st.socket EXCEPT ![s] = r] /\ d.fd = st.fd /\ HasParts(d)
  <2>1. d = Made([st.socket EXCEPT ![s] = r], st.addr, st.fd, st.pools) BY <1>3, SocketPut
  <2> DEFINE socket == [st.socket EXCEPT ![s] = r]
  <2>2. d = Made(socket, st.addr, st.fd, st.pools) BY <2>1
  <2> HIDE DEF d, socket
  <2>3. d.socket = socket /\ d.fd = st.fd /\ HasParts(d) BY <2>2, Parts
  <2> QED BY <2>3 DEF socket
<1>5. ASSUME close PROVE \A x \in SK_Sockets : d.socket[x].fd # n
  <2> SUFFICES ASSUME NEW x \in SK_Sockets PROVE d.socket[x].fd # n OBVIOUS
  <2>1. st.socket = [y \in SK_Sockets |-> st.socket[y]] BY <1>1 DEF IsState
  <2>2. CASE x = s
    <3>1. d.socket[x] = r BY <1>4, <2>1, <2>2
    <3> QED BY <1>5, <3>1
  <2>3. CASE x # s
    <3>1. d.socket[x] = st.socket[x] BY <1>4, <2>1, <2>3
    <3> SUFFICES ASSUME st.socket[x].fd = n PROVE FALSE BY <3>1
    <3>2. n # 0 BY <1>5
    <3>3. n \in DOMAIN st.fd /\ st.fd[n].pool = st.socket[x].pool /\ st.fd[n].pool = q BY <1>1, <3>1, <3>2 DEF Inside
    <3>4. st.fd[n].pool # 0 BY <1>1, <3>3, Zero DEF Inside, IsState
    <3>5. \A y, z \in SK_Sockets : y # z => st.socket[y].pool = 0 \/ st.socket[y].pool # st.socket[z].pool
      BY <1>1, Zenon DEF Owned
    <3>6. st.socket[x].pool # 0 /\ st.socket[x].pool = q BY <3>3, <3>4
    <3> QED BY <2>3, <3>5, <3>6
  <2> QED BY <2>2, <2>3
<1>6. Sound(c, F) /\ DOMAIN c.fd \subseteq DOMAIN st.fd
  <2> HIDE DEF d, n
  <2>1. CASE close
    <3>1. c = FdClosed(d, n) BY <2>1
    <3>2. Sound(FdClosed(d, n), F) BY <1>2, <1>5, <2>1, Closed
    <3>3. FdClosed(d, n) = Made(d.socket, d.addr, FdsBut(d.fd, n), d.pools) BY <1>4, ClosedParts
    <3>4. c.fd = FdsBut(d.fd, n) BY <3>1, <3>3, Parts
    <3>5. DOMAIN FdsBut(d.fd, n) \subseteq DOMAIN st.fd BY <1>4 DEF FdsBut
    <3> QED BY <3>1, <3>2, <3>4, <3>5
  <2>2. CASE ~close BY <1>2, <1>4, <2>2
  <2> QED BY <2>1, <2>2
<1>7. Sound(g, E) /\ DOMAIN g.fd \subseteq DOMAIN st.fd
  <2> HIDE DEF c, q
  <2>1. CASE q # 0
    <3>1. g = PoolDestroyed(c, q) BY <2>1
    <3>2. q \in F BY <2>1
    <3>3. Sound(g, F \ {q}) BY <1>6, <3>1, <3>2, Destroy
    <3>4. F \ {q} = E BY <1>1, <2>1 DEF Owned, q
    <3>5. DestroyedOf(PoolDestroyed(c, q), c, q) BY <1>6, DestroyedFields DEF Sound
    <3>6. DOMAIN g.fd \subseteq DOMAIN c.fd BY <3>1, <3>5 DEF DestroyedOf
    <3> QED BY <1>6, <3>3, <3>4, <3>6
  <2>2. CASE q = 0
    <3>1. g = c /\ F = E BY <2>2
    <3> QED BY <1>6, <3>1
  <2> QED BY <2>1, <2>2
<1>8. Closing(st, s, r, close) = g
  <2> DEFINE shut == IF close THEN FdClosed(st, n) ELSE st
             gone == IF q # 0 THEN PoolDestroyed(shut, q) ELSE shut
  <2>1. c = [shut EXCEPT !.socket[s] = r] /\ HasParts(shut)
    <3>1. CASE close
      <4>1. c = [shut EXCEPT !.socket[s] = r] BY <1>3, <3>1, PutClosed
      <4>2. FdClosed(st, n) = Made(st.socket, st.addr, FdsBut(st.fd, n), st.pools) BY <1>3, ClosedParts
      <4>3. shut = FdClosed(st, n) BY <3>1
      <4> HIDE DEF shut, n
      <4>4. HasParts(shut) BY <4>2, <4>3, Parts
      <4> QED BY <4>1, <4>4
    <3>2. CASE ~close BY <1>3, <3>2
    <3> QED BY <3>1, <3>2
  <2>2. g = [gone EXCEPT !.socket[s] = r]
    <3> HIDE DEF shut, c, q
    <3>1. CASE q # 0 BY <2>1, <3>1, PutDestroyed
    <3>2. CASE q = 0 BY <2>1, <3>2
    <3> QED BY <3>1, <3>2
  <2>3. Closing(st, s, r, close) = [gone EXCEPT !.socket[s] = r] BY DEF Closing
  <2> HIDE DEF gone, g
  <2> QED BY <2>2, <2>3
<1> HIDE DEF g
<1> QED BY <1>7, <1>8

LEMMA Used ==
  ASSUME NEW st, NEW E, Owned(st, E), NEW q, E \subseteq {q}
  PROVE  /\ E = {} => AllUsed(st)
         /\ \A s \in SK_Sockets : st.socket[s].pool = 0 => AllUsed(st)
<1>1. st.pools \subseteq SocketPools(st) \cup AddrPools(st) \cup E
  BY DEF Owned, SocketPools, AddrPools
<1> QED BY <1>1 DEF AllUsed

\* jr_socket_init_pool.
PooledOf(t, st, s) ==
  /\ t.fd = st.fd /\ t.addr = st.addr
  /\ t.socket[s].pool # 0 /\ t.socket[s].fd = st.socket[s].fd
  /\ st.pools \subseteq t.pools

LEMMA Pooled ==
  ASSUME NEW st, NEW E, Sound(st, E), NEW q, E \subseteq {q}, NEW s \in SK_Sockets
  PROVE  Sound(SocketPooled(st, s), E) /\ PooledOf(SocketPooled(st, s), st, s)
<1>1. IsState(st) /\ Owned(st, E) BY DEF Sound
<1>2. CASE st.socket[s].pool # 0
  <2>1. SocketPooled(st, s) = st BY <1>2 DEF SocketPooled
  <2>2. PooledOf(st, st, s) BY <1>2 DEF PooledOf
  <2> QED BY <2>1, <2>2
<1>3. CASE st.socket[s].pool = 0
  <2>1. PICK p : p = FreshPool(st) OBVIOUS
  <2>2. p \in SK_Pools \ st.pools BY <1>1, <1>3, <2>1, Used, PoolLeft
  <2> DEFINE u == [st EXCEPT !.pools = @ \cup {p}]
             t == [u EXCEPT !.socket[s].pool = p]
             r == [st.socket[s] EXCEPT !.pool = p]
             socket == [st.socket EXCEPT ![s] = r]
  <2>3. Sound(u, E \cup {p}) BY <2>2, PoolMade
  <2>4. st = [socket |-> st.socket, addr |-> st.addr, fd |-> st.fd, pools |-> st.pools] BY <1>1 DEF IsState
  <2>5. u = [socket |-> st.socket, addr |-> st.addr, fd |-> st.fd, pools |-> st.pools \cup {p}] BY <2>4
  <2>6. u.socket = st.socket BY <2>5
  <2>7. Sound(t, (E \cup {p}) \ {p})
    <3>1. u.socket[s].pool = 0 /\ p \in E \cup {p} BY <1>3, <2>6
    <3> HIDE DEF u
    <3> QED BY <2>3, <3>1, Attach
  <2>8. (E \cup {p}) \ {p} = E BY <1>1, <2>2 DEF Owned
  <2>9. SocketPooled(st, s) = [st EXCEPT !.pools = @ \cup {p}, !.socket[s].pool = p]
    BY <1>3, <2>1 DEF SocketPooled
  <2>10. t = [socket |-> socket, addr |-> st.addr, fd |-> st.fd, pools |-> st.pools \cup {p}]
    <3>1. t = [u EXCEPT !.socket = socket]
      <4> HIDE DEF u
      <4>1. HasParts(u)
        <5>1. u = Made(st.socket, st.addr, st.fd, st.pools \cup {p}) BY <2>5, Zenon DEF Made
        <5> QED BY <5>1, Parts
      <4>2. u = [socket |-> u.socket, addr |-> u.addr, fd |-> u.fd, pools |-> u.pools] BY <4>1 DEF HasParts
      <4> QED BY <2>6, <4>2
    <3> HIDE DEF socket, t, u
    <3> QED BY <2>5, <3>1
  <2>11. PICK z : z = SocketPooled(st, s) OBVIOUS
  <2>12. z = [socket |-> socket, addr |-> st.addr, fd |-> st.fd, pools |-> st.pools \cup {p}]
    <3>1. [st EXCEPT !.pools = @ \cup {p}, !.socket[s].pool = p] = [st EXCEPT !.pools = @ \cup {p}, !.socket = socket]
      BY <2>4
    <3>2. z = [st EXCEPT !.pools = @ \cup {p}, !.socket = socket] BY <2>9, <2>11, <3>1
    <3> HIDE DEF socket
    <3> QED BY <2>4, <3>2
  <2>13. Sound(z, E)
    <3> HIDE DEF t, u, socket
    <3> QED BY <2>7, <2>8, <2>10, <2>12
  <2>14. /\ socket[s] = r /\ r.pool = p /\ r.fd = st.socket[s].fd
    <3>1. st.socket = [x \in SK_Sockets |-> st.socket[x]] BY <1>1 DEF IsState
    <3>2. IsSocket(st.socket[s]) BY <1>1 DEF IsState
    <3>3. socket[s] = r
      <4> HIDE DEF r
      <4> QED BY <3>1
    <3> QED BY <3>2, <3>3 DEF IsSocket
  <2>15. PooledOf(z, st, s)
    <3> HIDE DEF socket, r
    <3>1. z.socket = socket /\ z.fd = st.fd /\ z.addr = st.addr /\ z.pools = st.pools \cup {p} BY <2>12
    <3> QED BY <2>2, <2>14, <3>1, Zero DEF PooledOf
  <2> QED BY <2>11, <2>13, <2>15
<1> QED BY <1>2, <1>3

\* jr_socket_open_generic, of a socket that has its pool.
Opening(st, s, how) == [FdMade(st, st.socket[s].pool, how) EXCEPT !.socket[s].fd = FreshFd(st)]

OpenedOf(t, st, s) ==
  /\ t.addr = st.addr /\ t.pools = st.pools
  /\ t.socket[s].pool = st.socket[s].pool /\ t.socket[s].fd \in DOMAIN t.fd
  /\ \A x \in SK_Sockets \ {s} : t.socket[x] = st.socket[x]
  /\ DOMAIN st.fd \subseteq DOMAIN t.fd /\ \A m \in DOMAIN st.fd : t.fd[m] = st.fd[m]

LEMMA Opens ==
  ASSUME NEW st, NEW E, NEW k \in Nat, Fits(st, E, k), k < SK_Calls, NEW s \in SK_Sockets,
         st.socket[s].pool # 0, NEW how
  PROVE  Fits(Opening(st, s, how), E, k + 1) /\ OpenedOf(Opening(st, s, how), st, s)
<1>1. IsState(st) /\ Owned(st, E) /\ Inside(st) /\ Cardinality(DOMAIN st.fd) <= k BY DEF Fits, Sound
<1>2. PICK n : n = FreshFd(st) OBVIOUS
<1>3. n \in SK_Pools /\ n \notin DOMAIN st.fd BY <1>2, FdLeft
<1>4. PICK q : q = st.socket[s].pool OBVIOUS
<1>5. q \in st.pools /\ q \in SK_Pools /\ q # 0 BY <1>1, <1>4 DEF Owned, IsState
<1>6. PICK e : e = [pool |-> q, at |-> NoPlace, state |-> how, nonblock |-> FALSE, queue |-> 0] OBVIOUS
<1> DEFINE fd == [m \in DOMAIN st.fd \cup {n} |-> IF m \in DOMAIN st.fd THEN st.fd[m] ELSE e]
           r == [st.socket[s] EXCEPT !.fd = n]
           socket == [st.socket EXCEPT ![s] = r]
<1>7. st = [socket |-> st.socket, addr |-> st.addr, fd |-> st.fd, pools |-> st.pools] BY <1>1 DEF IsState
<1>8. PICK t : t = Opening(st, s, how) OBVIOUS
<1>9. t = [socket |-> socket, addr |-> st.addr, fd |-> fd, pools |-> st.pools]
  <2>1. PICK f : f = FdMade(st, q, how) OBVIOUS
  <2>2. f = [st EXCEPT !.fd = fd] BY <1>2, <1>6, <1>7, <2>1 DEF FdMade
  <2>3. f = [socket |-> st.socket, addr |-> st.addr, fd |-> fd, pools |-> st.pools]
    <3> HIDE DEF fd
    <3> QED BY <1>7, <2>2
  <2>4. t = [f EXCEPT !.socket[s].fd = n] BY <1>2, <1>4, <1>8, <2>1 DEF Opening
  <2> HIDE DEF fd
  <2>5. t = [f EXCEPT !.socket = socket] BY <2>3, <2>4
  <2> HIDE DEF socket
  <2> QED BY <2>3, <2>5
<1>10. /\ socket = [x \in SK_Sockets |-> socket[x]]
       /\ socket[s] = r /\ \A x \in SK_Sockets \ {s} : socket[x] = st.socket[x]
  <2>1. st.socket = [x \in SK_Sockets |-> st.socket[x]] BY <1>1 DEF IsState
  <2> HIDE DEF r
  <2> QED BY <2>1
<1>11. IsSocket(r) /\ r.pool = q /\ r.fd = n
  <2>1. IsSocket(st.socket[s]) BY <1>1 DEF IsState
  <2> QED BY <1>3, <1>4, <2>1 DEF IsSocket, Numbers
<1>12. /\ fd = [m \in DOMAIN fd |-> fd[m]] /\ DOMAIN fd = DOMAIN st.fd \cup {n}
       /\ fd[n] = e /\ \A m \in DOMAIN st.fd : fd[m] = st.fd[m]
  BY <1>3
<1> HIDE DEF fd, socket, r
<1>13. t.socket = socket /\ t.addr = st.addr /\ t.fd = fd /\ t.pools = st.pools BY <1>9
<1>14. IsFd(e) /\ e.pool = q /\ e.at.pool = 0
  BY <1>5, <1>6 DEF IsFd, IsPlace, NoPlace, Numbers
<1>15. IsState(t)
  <2>1. t = [socket |-> t.socket, addr |-> t.addr, fd |-> t.fd, pools |-> t.pools] BY <1>9, <1>13, Zenon
  <2>2. \A x \in SK_Sockets : IsSocket(t.socket[x]) BY <1>1, <1>10, <1>11, <1>13 DEF IsState
  <2>3. t.socket = [x \in SK_Sockets |-> t.socket[x]] BY <1>10, <1>13, Zenon
  <2>4. t.fd = [m \in DOMAIN t.fd |-> t.fd[m]] BY <1>12, <1>13, Zenon
  <2>5. DOMAIN t.fd \subseteq SK_Pools BY <1>1, <1>3, <1>12, <1>13 DEF IsState
  <2>6. \A m \in DOMAIN t.fd : IsFd(t.fd[m])
    <3> SUFFICES ASSUME NEW m \in DOMAIN t.fd PROVE IsFd(t.fd[m]) OBVIOUS
    <3>1. CASE m = n BY <1>12, <1>13, <1>14, <3>1
    <3>2. CASE m \in DOMAIN st.fd
      <4>1. t.fd[m] = st.fd[m] BY <1>12, <1>13, <3>2
      <4>2. IsFd(st.fd[m]) BY <1>1, <3>2 DEF IsState
      <4> QED BY <4>1, <4>2
    <3> QED BY <1>12, <1>13, <3>1, <3>2
  <2> QED BY <1>1, <1>13, <2>1, <2>2, <2>3, <2>4, <2>5, <2>6, Zenon DEF IsState
<1>16. \A x \in SK_Sockets : t.socket[x].pool = st.socket[x].pool BY <1>4, <1>10, <1>11, <1>13
<1>17. Owned(t, E)
  <2>1. \A p \in t.pools \ E :
       \/ \E x \in SK_Sockets : t.socket[x].pool = p
       \/ \E a \in SK_Addrs : AddrPoolOwned(t.addr[a]) /\ t.addr[a].pool = p
    BY <1>1, <1>13, <1>16 DEF Owned
  <2> QED BY <1>1, <1>13, <1>16, <2>1 DEF Owned
<1>18. Inside(t)
  <2>1. ASSUME NEW x \in SK_Sockets, t.socket[x].fd # 0
        PROVE  t.socket[x].fd \in DOMAIN t.fd /\ t.fd[t.socket[x].fd].pool = t.socket[x].pool
    <3>1. CASE x = s
      <4>1. t.socket[x] = r BY <1>10, <1>13, <3>1
      <4> QED BY <1>11, <1>12, <1>13, <1>14, <4>1
    <3>2. CASE x # s
      <4>1. t.socket[x] = st.socket[x] BY <1>10, <1>13, <3>2
      <4>2. st.socket[x].fd \in DOMAIN st.fd /\ st.fd[st.socket[x].fd].pool = st.socket[x].pool
        BY <1>1, <2>1, <4>1 DEF Inside
      <4> QED BY <1>12, <1>13, <4>1, <4>2
    <3> QED BY <3>1, <3>2
  <2>2. ASSUME NEW m \in DOMAIN t.fd
        PROVE  t.fd[m].pool \in t.pools /\ t.fd[m].at.pool \in {0, t.fd[m].pool}
    <3>1. CASE m = n BY <1>5, <1>12, <1>13, <1>14, <3>1
    <3>2. CASE m \in DOMAIN st.fd
      <4>1. t.fd[m] = st.fd[m] BY <1>12, <1>13, <3>2
      <4>2. st.fd[m].pool \in st.pools /\ st.fd[m].at.pool \in {0, st.fd[m].pool} BY <1>1, <3>2 DEF Inside
      <4> QED BY <1>13, <4>1, <4>2
    <3> QED BY <1>12, <1>13, <3>1, <3>2
  <2> QED BY <1>1, <1>13, <2>1, <2>2 DEF Inside
<1>19. Cardinality(DOMAIN t.fd) <= k + 1
  <2>1. DOMAIN st.fd \in SUBSET SK_Pools BY <1>1 DEF IsState
  <2>2. IsFiniteSet(SK_Pools) BY SK_Assumption
  <2>3. IsFiniteSet(DOMAIN st.fd) BY <2>1, <2>2, FS_Subset
  <2>4. /\ Cardinality(DOMAIN st.fd \cup {n}) \in Nat /\ Cardinality(DOMAIN st.fd) \in Nat
        /\ Cardinality(DOMAIN st.fd \cup {n}) = Cardinality(DOMAIN st.fd) + 1
    BY <1>3, <2>3, OneMoreIn
  <2>5. DOMAIN t.fd = DOMAIN st.fd \cup {n} BY <1>12, <1>13
  <2> QED BY <1>1, <2>4, <2>5
<1>20. OpenedOf(t, st, s)
  <2>1. t.socket[s].pool = st.socket[s].pool /\ t.socket[s].fd \in DOMAIN t.fd
    BY <1>4, <1>10, <1>11, <1>12, <1>13
  <2> QED BY <1>10, <1>12, <1>13, <2>1 DEF OpenedOf
<1> QED BY <1>8, <1>15, <1>17, <1>18, <1>19, <1>20 DEF Fits, Sound

\* Descriptors and sockets that differ from those of a state in what pools do not
\* depend on.
FdAs(st, fd) ==
  /\ fd = [n \in DOMAIN st.fd |-> fd[n]]
  /\ \A n \in DOMAIN st.fd : IsFd(fd[n]) /\ fd[n].pool = st.fd[n].pool /\ fd[n].at.pool \in {0, st.fd[n].pool}
SocketAs(st, socket) ==
  /\ socket = [s \in SK_Sockets |-> socket[s]]
  /\ \A s \in SK_Sockets : /\ IsSocket(socket[s])
                           /\ socket[s].fd = st.socket[s].fd /\ socket[s].pool = st.socket[s].pool

LEMMA Like ==
  ASSUME NEW st, NEW E, NEW k, Fits(st, E, k), NEW socket, SocketAs(st, socket), NEW fd, FdAs(st, fd),
         NEW t, t = Made(socket, st.addr, fd, st.pools)
  PROVE  Fits(t, E, k) /\ t.socket = socket /\ t.addr = st.addr /\ t.fd = fd /\ t.pools = st.pools
<1>1. t.socket = socket /\ t.addr = st.addr /\ t.fd = fd /\ t.pools = st.pools BY Parts
<1>2. AlikeOf(t, st)
  <2>1. t = [socket |-> t.socket, addr |-> st.addr, fd |-> t.fd, pools |-> st.pools]
    BY <1>1, Zenon DEF Made
  <2> QED BY <1>1, <2>1, Zenon DEF AlikeOf, SocketAs, FdAs
<1>3. Sound(t, E) BY <1>2, Alike DEF Fits
<1>4. DOMAIN t.fd = DOMAIN st.fd BY <1>1 DEF FdAs
<1> QED BY <1>1, <1>3, <1>4 DEF Fits

LEMMA SameFd ==
  ASSUME NEW st, NEW E, Sound(st, E)
  PROVE  FdAs(st, st.fd) /\ SocketAs(st, st.socket)
<1>1. IsState(st) /\ Inside(st) BY DEF Sound
<1>2. st.fd = [n \in DOMAIN st.fd |-> st.fd[n]] /\ \A n \in DOMAIN st.fd : IsFd(st.fd[n]) BY <1>1, Zenon DEF IsState
<1>3. \A n \in DOMAIN st.fd : st.fd[n].at.pool \in {0, st.fd[n].pool} BY <1>1 DEF Inside
<1>4. st.socket = [s \in SK_Sockets |-> st.socket[s]] /\ \A s \in SK_Sockets : IsSocket(st.socket[s])
  BY <1>1, Zenon DEF IsState
<1> QED BY <1>2, <1>3, <1>4, Zenon DEF FdAs, SocketAs

LEMMA OneFd ==
  ASSUME NEW st, NEW fd, FdAs(st, fd), NEW n, NEW e,
         n \in DOMAIN st.fd => IsFd(e) /\ e.pool = st.fd[n].pool /\ e.at.pool \in {0, st.fd[n].pool}
  PROVE  FdAs(st, [fd EXCEPT ![n] = e])
<1> DEFINE g == [fd EXCEPT ![n] = e]
<1>1. fd = [m \in DOMAIN st.fd |-> fd[m]] BY DEF FdAs
<1>2. g = [m \in DOMAIN st.fd |-> g[m]] /\ \A m \in DOMAIN st.fd : g[m] = IF m = n THEN e ELSE fd[m] BY <1>1
<1> HIDE DEF g
<1>3. \A m \in DOMAIN st.fd : IsFd(g[m]) /\ g[m].pool = st.fd[m].pool /\ g[m].at.pool \in {0, st.fd[m].pool}
  <2> SUFFICES ASSUME NEW m \in DOMAIN st.fd
               PROVE  IsFd(g[m]) /\ g[m].pool = st.fd[m].pool /\ g[m].at.pool \in {0, st.fd[m].pool}
    OBVIOUS
  <2>1. CASE m = n BY <1>2, <2>1
  <2>2. CASE m # n
    <3>1. g[m] = fd[m] BY <1>2, <2>2
    <3>2. IsFd(fd[m]) /\ fd[m].pool = st.fd[m].pool /\ fd[m].at.pool \in {0, st.fd[m].pool} BY Zenon DEF FdAs
    <3> QED BY <3>1, <3>2, Zenon
  <2> QED BY <2>1, <2>2
<1> QED BY <1>2, <1>3, Zenon DEF FdAs, g

LEMMA FdFields ==
  ASSUME NEW e, IsFd(e)
  PROVE  /\ \A v : LET f == [e EXCEPT !.state = v] IN IsFd(f) /\ f.pool = e.pool /\ f.at = e.at
         /\ \A v : LET f == [e EXCEPT !.queue = v] IN IsFd(f) /\ f.pool = e.pool /\ f.at = e.at
         /\ \A v : LET f == [e EXCEPT !.nonblock = v] IN IsFd(f) /\ f.pool = e.pool /\ f.at = e.at
         /\ \A v : IsPlace(v) => LET f == [e EXCEPT !.at = v] IN IsFd(f) /\ f.pool = e.pool /\ f.at = v
<1>1. /\ e = [pool |-> e.pool, at |-> e.at, state |-> e.state, nonblock |-> e.nonblock, queue |-> e.queue]
      /\ e.pool \in SK_Pools /\ IsPlace(e.at)
  BY DEF IsFd
<1>2. ASSUME NEW v PROVE LET f == [e EXCEPT !.state = v] IN IsFd(f) /\ f.pool = e.pool /\ f.at = e.at
  BY <1>1 DEF IsFd
<1>3. ASSUME NEW v PROVE LET f == [e EXCEPT !.queue = v] IN IsFd(f) /\ f.pool = e.pool /\ f.at = e.at
  BY <1>1 DEF IsFd
<1>4. ASSUME NEW v PROVE LET f == [e EXCEPT !.nonblock = v] IN IsFd(f) /\ f.pool = e.pool /\ f.at = e.at
  BY <1>1 DEF IsFd
<1>5. ASSUME NEW v, IsPlace(v) PROVE LET f == [e EXCEPT !.at = v] IN IsFd(f) /\ f.pool = e.pool /\ f.at = v
  BY <1>1, <1>5 DEF IsFd
<1> QED BY <1>2, <1>3, <1>4, <1>5, Zenon

LEMMA SetState ==
  ASSUME NEW st, NEW fd, FdAs(st, fd), NEW n, NEW v
  PROVE  FdAs(st, [fd EXCEPT ![n].state = v])
<1>1. PICK e : e = [fd[n] EXCEPT !.state = v] OBVIOUS
<1>2. [fd EXCEPT ![n].state = v] = [fd EXCEPT ![n] = e] BY <1>1
<1>3. n \in DOMAIN st.fd => IsFd(fd[n]) /\ fd[n].pool = st.fd[n].pool /\ fd[n].at.pool \in {0, st.fd[n].pool}
  BY Zenon DEF FdAs
<1>4. n \in DOMAIN st.fd => IsFd(e) /\ e.pool = fd[n].pool /\ e.at = fd[n].at BY <1>1, <1>3, FdFields
<1>5. n \in DOMAIN st.fd => IsFd(e) /\ e.pool = st.fd[n].pool /\ e.at.pool \in {0, st.fd[n].pool} BY <1>3, <1>4, Zenon
<1>6. FdAs(st, [fd EXCEPT ![n] = e]) BY <1>5, OneFd
<1> QED BY <1>2, <1>6, Zenon

LEMMA SetQueue ==
  ASSUME NEW st, NEW fd, FdAs(st, fd), NEW n, NEW v
  PROVE  FdAs(st, [fd EXCEPT ![n].queue = v])
<1>1. PICK e : e = [fd[n] EXCEPT !.queue = v] OBVIOUS
<1>2. [fd EXCEPT ![n].queue = v] = [fd EXCEPT ![n] = e] BY <1>1
<1>3. n \in DOMAIN st.fd => IsFd(fd[n]) /\ fd[n].pool = st.fd[n].pool /\ fd[n].at.pool \in {0, st.fd[n].pool}
  BY Zenon DEF FdAs
<1>4. n \in DOMAIN st.fd => IsFd(e) /\ e.pool = fd[n].pool /\ e.at = fd[n].at BY <1>1, <1>3, FdFields
<1>5. n \in DOMAIN st.fd => IsFd(e) /\ e.pool = st.fd[n].pool /\ e.at.pool \in {0, st.fd[n].pool} BY <1>3, <1>4, Zenon
<1>6. FdAs(st, [fd EXCEPT ![n] = e]) BY <1>5, OneFd
<1> QED BY <1>2, <1>6, Zenon

LEMMA SetAt ==
  ASSUME NEW st, NEW fd, FdAs(st, fd), NEW n, NEW v, IsPlace(v),
         n \in DOMAIN st.fd => v.pool \in {0, st.fd[n].pool}
  PROVE  FdAs(st, [fd EXCEPT ![n].at = v])
<1>1. PICK e : e = [fd[n] EXCEPT !.at = v] OBVIOUS
<1>2. [fd EXCEPT ![n].at = v] = [fd EXCEPT ![n] = e] BY <1>1
<1>3. n \in DOMAIN st.fd => IsFd(fd[n]) /\ fd[n].pool = st.fd[n].pool
  BY Zenon DEF FdAs
<1>4. n \in DOMAIN st.fd => IsFd(e) /\ e.pool = fd[n].pool /\ e.at = v BY <1>1, <1>3, FdFields
<1>5. n \in DOMAIN st.fd => IsFd(e) /\ e.pool = st.fd[n].pool /\ e.at.pool \in {0, st.fd[n].pool} BY <1>3, <1>4, Zenon
<1>6. FdAs(st, [fd EXCEPT ![n] = e]) BY <1>5, OneFd
<1> QED BY <1>2, <1>6, Zenon

\* A field of a socket that is neither its descriptor nor its pool.
LEMMA SocketFields ==
  ASSUME NEW e, IsSocket(e)
  PROVE  /\ \A v : LET f == [e EXCEPT !.type = v] IN IsSocket(f) /\ f.fd = e.fd /\ f.pool = e.pool
         /\ \A v : LET f == [e EXCEPT !.nonblock = v] IN IsSocket(f) /\ f.fd = e.fd /\ f.pool = e.pool
         /\ \A v : LET f == [e EXCEPT !.buffer = v] IN IsSocket(f) /\ f.fd = e.fd /\ f.pool = e.pool
<1>1. /\ e = [type |-> e.type, fd |-> e.fd, pool |-> e.pool, nonblock |-> e.nonblock, buffer |-> e.buffer]
      /\ e.fd \in Numbers /\ e.pool \in Numbers
  BY DEF IsSocket
<1>2. ASSUME NEW v PROVE LET f == [e EXCEPT !.type = v] IN IsSocket(f) /\ f.fd = e.fd /\ f.pool = e.pool
  BY <1>1 DEF IsSocket
<1>3. ASSUME NEW v PROVE LET f == [e EXCEPT !.nonblock = v] IN IsSocket(f) /\ f.fd = e.fd /\ f.pool = e.pool
  BY <1>1 DEF IsSocket
<1>4. ASSUME NEW v PROVE LET f == [e EXCEPT !.buffer = v] IN IsSocket(f) /\ f.fd = e.fd /\ f.pool = e.pool
  BY <1>1 DEF IsSocket
<1> QED BY <1>2, <1>3, <1>4, Zenon

LEMMA OneSocket ==
  ASSUME NEW st, NEW socket, SocketAs(st, socket), NEW s \in SK_Sockets, NEW e,
         IsSocket(e), e.fd = socket[s].fd, e.pool = socket[s].pool
  PROVE  SocketAs(st, [socket EXCEPT ![s] = e])
<1> DEFINE g == [socket EXCEPT ![s] = e]
<1>1. socket = [x \in SK_Sockets |-> socket[x]] BY DEF SocketAs
<1>2. g = [x \in SK_Sockets |-> g[x]] /\ \A x \in SK_Sockets : g[x] = IF x = s THEN e ELSE socket[x] BY <1>1
<1> HIDE DEF g
<1>3. \A x \in SK_Sockets : IsSocket(g[x]) /\ g[x].fd = st.socket[x].fd /\ g[x].pool = st.socket[x].pool
  BY <1>2 DEF SocketAs
<1> QED BY <1>2, <1>3, Zenon DEF SocketAs, g

LEMMA Mode ==
  ASSUME NEW st, NEW E, NEW k, Fits(st, E, k), NEW s \in SK_Sockets, NEW value, NEW works
  PROVE  Fits(ModeSet(st, s, value, works), E, k)
<1>1. IsState(st) /\ Sound(st, E) BY DEF Fits, Sound
<1>2. FdAs(st, st.fd) /\ SocketAs(st, st.socket) BY <1>1, SameFd
<1> DEFINE fd == [n \in DOMAIN st.fd |-> IF works /\ n = st.socket[s].fd
                                        THEN [st.fd[n] EXCEPT !.nonblock = value] ELSE st.fd[n]]
           r == [st.socket[s] EXCEPT !.nonblock = value]
           socket == [st.socket EXCEPT ![s] = r]
<1>3. FdAs(st, fd)
  <2>1. /\ fd = [n \in DOMAIN st.fd |-> fd[n]]
        /\ \A n \in DOMAIN st.fd : fd[n] = IF works /\ n = st.socket[s].fd
                                           THEN [st.fd[n] EXCEPT !.nonblock = value] ELSE st.fd[n]
    OBVIOUS
  <2> HIDE DEF fd
  <2>2. \A n \in DOMAIN st.fd : IsFd(fd[n]) /\ fd[n].pool = st.fd[n].pool /\ fd[n].at.pool \in {0, st.fd[n].pool}
    <3> SUFFICES ASSUME NEW n \in DOMAIN st.fd
                 PROVE  IsFd(fd[n]) /\ fd[n].pool = st.fd[n].pool /\ fd[n].at.pool \in {0, st.fd[n].pool}
      OBVIOUS
    <3>1. IsFd(st.fd[n]) /\ st.fd[n].at.pool \in {0, st.fd[n].pool} BY <1>2, Zenon DEF FdAs
    <3>2. CASE works /\ n = st.socket[s].fd
      <4>1. PICK e : e = [st.fd[n] EXCEPT !.nonblock = value] OBVIOUS
      <4>2. fd[n] = e BY <2>1, <3>2, <4>1
      <4>3. IsFd(e) /\ e.pool = st.fd[n].pool /\ e.at = st.fd[n].at BY <3>1, <4>1, FdFields
      <4> QED BY <3>1, <4>2, <4>3, Zenon
    <3>3. CASE ~(works /\ n = st.socket[s].fd)
      <4>1. fd[n] = st.fd[n] BY <2>1, <3>3
      <4> QED BY <3>1, <4>1, Zenon
    <3> QED BY <3>2, <3>3
  <2> QED BY <2>1, <2>2, Zenon DEF FdAs
<1>4. SocketAs(st, socket)
  <2>1. PICK e : e = r OBVIOUS
  <2>2. IsSocket(st.socket[s]) BY <1>1, Zenon DEF IsState
  <2>3. IsSocket(e) /\ e.fd = st.socket[s].fd /\ e.pool = st.socket[s].pool BY <2>1, <2>2, SocketFields
  <2>4. SocketAs(st, [st.socket EXCEPT ![s] = e]) BY <1>2, <2>3, OneSocket
  <2> QED BY <2>1, <2>4, Zenon
<1>5. PICK t : t = ModeSet(st, s, value, works) OBVIOUS
<1>6. st = [socket |-> st.socket, addr |-> st.addr, fd |-> st.fd, pools |-> st.pools] BY <1>1 DEF IsState
<1>7. t = [st EXCEPT !.socket = socket, !.fd = fd] BY <1>5, <1>6 DEF ModeSet
<1> HIDE DEF fd, socket
<1>8. t = [socket |-> socket, addr |-> st.addr, fd |-> fd, pools |-> st.pools] BY <1>6, <1>7
<1>9. t = Made(socket, st.addr, fd, st.pools) BY <1>8, Zenon DEF Made
<1>10. Fits(t, E, k) BY <1>3, <1>4, <1>9, Like
<1> QED BY <1>5, <1>10

\* Fewer descriptors.
LEMMA FewerFds ==
  ASSUME NEW st, NEW E, NEW k \in Nat, Fits(st, E, k), NEW t, NEW F, Sound(t, F), DOMAIN t.fd \subseteq DOMAIN st.fd
  PROVE  Fits(t, F, k)
<1>1. DOMAIN st.fd \in SUBSET SK_Pools BY DEF Fits, Sound, IsState
<1>2. IsFiniteSet(SK_Pools) BY SK_Assumption
<1>3. IsFiniteSet(DOMAIN st.fd) BY <1>1, <1>2, FS_Subset
<1>4. DOMAIN t.fd \in SUBSET DOMAIN st.fd OBVIOUS
<1>5. IsFiniteSet(DOMAIN t.fd) /\ Cardinality(DOMAIN t.fd) <= Cardinality(DOMAIN st.fd) BY <1>3, <1>4, FS_Subset
<1>6. Cardinality(DOMAIN t.fd) \in Nat /\ Cardinality(DOMAIN st.fd) \in Nat BY <1>3, <1>5, FS_CardinalityType
<1>7. Cardinality(DOMAIN st.fd) <= k BY DEF Fits
<1> QED BY <1>5, <1>6, <1>7 DEF Fits

ThreePut(socket, s, b) == [socket EXCEPT ![s].fd = 0, ![s].pool = 0, ![s].buffer = b]
ThreeSet(st, s, b) == [st EXCEPT !.socket[s].fd = 0, !.socket[s].pool = 0, !.socket[s].buffer = b]

LEMMA ThreeFields ==
  ASSUME NEW st, HasParts(st), NEW s, NEW b, NEW socket, socket = ThreePut(st.socket, s, b),
         NEW t, t = ThreeSet(st, s, b)
  PROVE  t = [socket |-> socket, addr |-> st.addr, fd |-> st.fd, pools |-> st.pools]
<1>1. st = [socket |-> st.socket, addr |-> st.addr, fd |-> st.fd, pools |-> st.pools] BY DEF HasParts
<1>2. t = [[[st EXCEPT !.socket[s].fd = 0] EXCEPT !.socket[s].pool = 0] EXCEPT !.socket[s].buffer = b]
  BY DEF ThreeSet
<1>3. PICK t1 : t1 = [st EXCEPT !.socket[s].fd = 0] OBVIOUS
<1>4. PICK t2 : t2 = [t1 EXCEPT !.socket[s].pool = 0] OBVIOUS
<1>5. PICK s1 : s1 = [st.socket EXCEPT ![s].fd = 0] OBVIOUS
<1>6. PICK s2 : s2 = [s1 EXCEPT ![s].pool = 0] OBVIOUS
<1>7. t1 = [socket |-> s1, addr |-> st.addr, fd |-> st.fd, pools |-> st.pools] BY <1>1, <1>3, <1>5
<1>8. t2 = [socket |-> s2, addr |-> st.addr, fd |-> st.fd, pools |-> st.pools] BY <1>4, <1>6, <1>7
<1>9. t = [t2 EXCEPT !.socket[s].buffer = b] BY <1>2, <1>3, <1>4, Zenon
<1>10. socket = [s2 EXCEPT ![s].buffer = b] BY <1>5, <1>6 DEF ThreePut
<1> QED BY ONLY <1>8, <1>9, <1>10

\* jr_socket_close.
LEMMA Closes ==
  ASSUME NEW st, NEW E, NEW k \in Nat, Fits(st, E, k), NEW s \in SK_Sockets, NEW flushed \in BOOLEAN
  PROVE  Fits(SocketClosed(st, s, flushed), E, k)
<1> DEFINE text == st.socket[s].buffer = "text"
           n == st.socket[s].fd
           q == st.socket[s].pool
           shut == IF (text => flushed) /\ n # 0 THEN FdClosed(st, n) ELSE st
           gone == IF q # 0 THEN PoolDestroyed(shut, q) ELSE shut
           buffer == IF text /\ flushed THEN "empty" ELSE st.socket[s].buffer
           r == [type |-> st.socket[s].type, fd |-> 0, pool |-> 0,
                 nonblock |-> st.socket[s].nonblock, buffer |-> buffer]
           close == (text => flushed) /\ n # 0
<1>1. IsState(st) /\ Sound(st, E) BY DEF Fits, Sound
<1>2. HasParts(shut) /\ shut.socket = st.socket
  <2>1. HasParts(st) BY <1>1, StateParts
  <2>2. CASE (text => flushed) /\ n # 0
    <3>1. shut = FdClosed(st, n) BY <2>2
    <3>2. FdClosed(st, n) = Made(st.socket, st.addr, FdsBut(st.fd, n), st.pools) BY <2>1, ClosedParts
    <3> HIDE DEF shut, n
    <3> QED BY <3>1, <3>2, Parts
  <2>3. CASE ~((text => flushed) /\ n # 0) BY <2>1, <2>3
  <2> QED BY <2>2, <2>3
<1>3. HasParts(gone) /\ gone.socket = st.socket
  <2> HIDE DEF shut
  <2>1. CASE q # 0
    <3>1. gone = PoolDestroyed(shut, q) BY <2>1
    <3>2. PoolDestroyed(shut, q) = Made(shut.socket, AddrsLeft(shut.addr, q), FdsLeft(shut.fd, q), shut.pools \ {q})
      BY <1>2, DestroyedParts
    <3> HIDE DEF gone, q
    <3>3. HasParts(gone) /\ gone.socket = shut.socket BY <3>1, <3>2, Parts
    <3> QED BY <1>2, <3>3
  <2>2. CASE q = 0 BY <1>2, <2>2
  <2> QED BY <2>1, <2>2
<1>4. st.socket = [x \in SK_Sockets |-> st.socket[x]] /\ IsSocket(st.socket[s]) BY <1>1, Zenon DEF IsState
<1>5. IsSocket(r) /\ r.fd = 0 /\ r.pool = 0 BY DEF IsSocket, Numbers
<1>6. SocketClosed(st, s, flushed) = [gone EXCEPT !.socket[s].fd = 0, !.socket[s].pool = 0,
                                        !.socket[s].buffer = IF text /\ flushed THEN "empty" ELSE @]
  BY DEF SocketClosed
<1>7. Closing(st, s, r, close) = [gone EXCEPT !.socket[s] = r]
  <2>1. CASE close BY <2>1 DEF Closing
  <2>2. CASE ~close BY <2>2 DEF Closing
  <2> QED BY <2>1, <2>2
<1>8. [gone EXCEPT !.socket[s].fd = 0, !.socket[s].pool = 0,
                   !.socket[s].buffer = IF text /\ flushed THEN "empty" ELSE @] = [gone EXCEPT !.socket[s] = r]
  <2>1. PICK w : w = st.socket[s] OBVIOUS
  <2>2. PICK b : b = buffer OBVIOUS
  <2>3. w = [type |-> w.type, fd |-> w.fd, pool |-> w.pool, nonblock |-> w.nonblock, buffer |-> w.buffer]
    BY <1>4, <2>1 DEF IsSocket
  <2>4. [w EXCEPT !.fd = 0, !.pool = 0, !.buffer = b] = r
    <3>1. r = [type |-> w.type, fd |-> 0, pool |-> 0, nonblock |-> w.nonblock, buffer |-> b] BY <2>1, <2>2
    <3> HIDE DEF r
    <3>2. PICK z : z = [w EXCEPT !.fd = 0, !.pool = 0, !.buffer = b] OBVIOUS
    <3>3. z = [type |-> w.type, fd |-> 0, pool |-> 0, nonblock |-> w.nonblock, buffer |-> b]
      BY ONLY <2>3, <3>2
    <3> QED BY <3>1, <3>2, <3>3, Zenon
  <2>5. PICK so : so = [st.socket EXCEPT ![s].fd = 0, ![s].pool = 0,
                          ![s].buffer = IF text /\ flushed THEN "empty" ELSE @]
    OBVIOUS
  <2>6. so = [st.socket EXCEPT ![s] = [w EXCEPT !.fd = 0, !.pool = 0, !.buffer = b]]
    <3>1. /\ [w EXCEPT !.fd = 0, !.pool = 0].buffer = w.buffer
          /\ b = IF text /\ flushed THEN "empty" ELSE w.buffer
      BY <2>1, <2>2, <2>3
    <3> HIDE DEF text, buffer
    <3> QED BY <1>4, <2>1, <2>5, <3>1
  <2>7. gone = [socket |-> st.socket, addr |-> gone.addr, fd |-> gone.fd, pools |-> gone.pools]
    BY <1>3, Zenon DEF HasParts
  <2> HIDE DEF gone, r
  <2>8. [gone EXCEPT !.socket[s].fd = 0, !.socket[s].pool = 0,
                     !.socket[s].buffer = IF text /\ flushed THEN "empty" ELSE @] = [gone EXCEPT !.socket = so]
    <3>1. [gone EXCEPT !.socket[s].fd = 0, !.socket[s].pool = 0,
                       !.socket[s].buffer = IF text /\ flushed THEN "empty" ELSE @] =
          [gone EXCEPT !.socket[s].fd = 0, !.socket[s].pool = 0, !.socket[s].buffer = b]
      <4>1. b = IF text /\ flushed THEN "empty" ELSE gone.socket[s].buffer BY <1>3, <2>2
      <4> HIDE DEF text, buffer
      <4> QED BY <4>1, Zenon
    <3>2. so = [st.socket EXCEPT ![s].fd = 0, ![s].pool = 0, ![s].buffer = b]
      <4>1. b = IF text /\ flushed THEN "empty" ELSE st.socket[s].buffer BY <2>2
      <4> HIDE DEF text, buffer
      <4> QED BY <2>5, <4>1, Zenon
    <3> HIDE DEF text
    <3>3. PICK z : z = [gone EXCEPT !.socket[s].fd = 0, !.socket[s].pool = 0, !.socket[s].buffer = b] OBVIOUS
    <3>4. z = [socket |-> so, addr |-> gone.addr, fd |-> gone.fd, pools |-> gone.pools]
      <4>1. so = ThreePut(gone.socket, s, b) BY <1>3, <3>2, Zenon DEF ThreePut
      <4>2. HasParts(gone) BY <1>3
      <4>3. z = ThreeSet(gone, s, b) BY <3>3, Zenon DEF ThreeSet
      <4> QED BY <4>1, <4>2, <4>3, ThreeFields
    <3>5. [gone EXCEPT !.socket = so] = [socket |-> so, addr |-> gone.addr, fd |-> gone.fd, pools |-> gone.pools]
      BY ONLY <2>7
    <3> QED BY <3>1, <3>3, <3>4, <3>5, Zenon
  <2>9. [gone EXCEPT !.socket[s] = r] = [gone EXCEPT !.socket = [st.socket EXCEPT ![s] = r]] BY <2>7
  <2> QED BY <2>4, <2>6, <2>8, <2>9, Zenon
<1>9. /\ Sound(Closing(st, s, r, close), E)
      /\ DOMAIN Closing(st, s, r, close).fd \subseteq DOMAIN st.fd
  <2>1. close \in BOOLEAN /\ (close => st.socket[s].fd # 0) OBVIOUS
  <2> HIDE DEF close, r
  <2> QED BY <1>1, <1>5, <2>1, SocketShut
<1>10. SocketClosed(st, s, flushed) = Closing(st, s, r, close)
  <2> HIDE DEF gone, r, close
  <2> QED BY <1>6, <1>7, <1>8
<1> HIDE DEF r, close
<1> QED BY <1>9, <1>10, FewerFds

\* jr_sockaddr_undo, of an address of the client.
Dropped(st, a) == [AddrUndone(st, st.addr[a]) EXCEPT !.addr[a] = NoAddr]

LEMMA AddrPutDestroyed ==
  ASSUME NEW st, IsState(st), NEW a, NEW p
  PROVE  PoolDestroyed([st EXCEPT !.addr[a] = NoAddr], p) = [PoolDestroyed(st, p) EXCEPT !.addr[a] = NoAddr]
<1> DEFINE d == [st EXCEPT !.addr[a] = NoAddr]
           g == PoolDestroyed(st, p)
           addr == [st.addr EXCEPT ![a] = NoAddr]
<1>1. HasParts(st) BY StateParts
<1>2. d = Made(st.socket, addr, st.fd, st.pools) BY <1>1, AddrPutParts
<1>3. g = Made(st.socket, AddrsLeft(st.addr, p), FdsLeft(st.fd, p), st.pools \ {p}) BY <1>1, DestroyedParts
<1>4. HasParts(g) /\ g.socket = st.socket /\ g.addr = AddrsLeft(st.addr, p) /\ g.fd = FdsLeft(st.fd, p)
      /\ g.pools = st.pools \ {p}
  <2> HIDE DEF g
  <2> QED BY <1>3, Parts
<1>5. HasParts(d) /\ d.socket = st.socket /\ d.addr = addr /\ d.fd = st.fd /\ d.pools = st.pools
  <2> HIDE DEF d, addr
  <2> QED BY <1>2, Parts
<1>6. AddrsLeft(addr, p) = [AddrsLeft(st.addr, p) EXCEPT ![a] = NoAddr]
  <2>1. st.addr = [x \in SK_Addrs |-> st.addr[x]] BY DEF IsState
  <2>2. ~NoAddr.borrowed BY NoAddrIs
  <2>3. \A x \in SK_Addrs : addr[x] = IF x = a THEN NoAddr ELSE st.addr[x] BY <2>1
  <2> HIDE DEF addr
  <2> QED BY <2>2, <2>3 DEF AddrsLeft
<1>7. PoolDestroyed(d, p) = Made(st.socket, AddrsLeft(addr, p), FdsLeft(st.fd, p), st.pools \ {p})
  <2>1. PoolDestroyed(d, p) = Made(d.socket, AddrsLeft(d.addr, p), FdsLeft(d.fd, p), d.pools \ {p})
    BY <1>5, DestroyedParts
  <2> HIDE DEF d, addr
  <2> QED BY <1>5, <2>1, Zenon
<1>8. [g EXCEPT !.addr[a] = NoAddr] =
      Made(st.socket, [AddrsLeft(st.addr, p) EXCEPT ![a] = NoAddr], FdsLeft(st.fd, p), st.pools \ {p})
  <2>1. [g EXCEPT !.addr[a] = NoAddr] = Made(g.socket, [g.addr EXCEPT ![a] = NoAddr], g.fd, g.pools)
    BY <1>4, AddrPutParts
  <2> HIDE DEF g
  <2> QED BY <1>4, <2>1, Zenon
<1> HIDE DEF addr
<1> QED BY <1>6, <1>7, <1>8, Zenon

LEMMA Undone ==
  ASSUME NEW st, Sound(st, {}), NEW a \in SK_Addrs
  PROVE  LET clean == AddrUndone(st, st.addr[a]) IN
         /\ HasParts(clean) /\ DOMAIN clean.fd \subseteq DOMAIN st.fd
         /\ clean.addr = [x \in SK_Addrs |-> clean.addr[x]]
         /\ AllUsed(clean) /\ Sound(Dropped(st, a), {})
<1> DEFINE clean == AddrUndone(st, st.addr[a])
           p == st.addr[a].pool
<1>1. IsState(st) /\ Owned(st, {}) BY DEF Sound
<1>2. HasParts(st) /\ st.addr = [x \in SK_Addrs |-> st.addr[x]] BY <1>1, StateParts DEF IsState
<1>3. /\ IsAddr(NoAddr) /\ ~AddrPoolOwned(NoAddr) /\ NoAddr.pool = 0 /\ NoAddr.at = NoPlace
      /\ NoAddr.at.pool = 0 /\ ~NoAddr.borrowed /\ ~NoAddr.live
  BY NoAddrIs
<1>4. PICK d : d = [st EXCEPT !.addr[a] = NoAddr] OBVIOUS
<1>5. Sound(d, OwnOf(st.addr[a]))
  <2>1. OwnOf(NoAddr) = {} BY <1>3 DEF OwnOf
  <2>2. AddrFits(st, {}, a, NoAddr) BY <1>3, <2>1 DEF AddrFits
  <2>3. Sound(d, ({} \cup OwnOf(st.addr[a])) \ OwnOf(NoAddr)) BY <1>4, <2>2, AddrPut
  <2>4. ({} \cup OwnOf(st.addr[a])) \ OwnOf(NoAddr) = OwnOf(st.addr[a]) BY <2>1
  <2> QED BY <2>3, <2>4
<1>6. CASE ~AddrPoolOwned(st.addr[a])
  <2>1. clean = st BY <1>6 DEF AddrUndone
  <2>2. Dropped(st, a) = d BY <1>4, <2>1 DEF Dropped
  <2>3. OwnOf(st.addr[a]) = {} BY <1>6 DEF OwnOf
  <2>4. AllUsed(st) BY <1>1, Used
  <2> QED BY <1>2, <1>5, <2>1, <2>2, <2>3, <2>4
<1>7. CASE AddrPoolOwned(st.addr[a])
  <2>1. clean = PoolDestroyed(st, p) BY <1>7 DEF AddrUndone
  <2>2. OwnOf(st.addr[a]) = {p} BY <1>7 DEF OwnOf
  <2>3. Dropped(st, a) = PoolDestroyed(d, p) BY <1>1, <1>4, <2>1, AddrPutDestroyed DEF Dropped
  <2>4. Sound(PoolDestroyed(d, p), {})
    <3>1. Sound(d, {p}) /\ p \in {p} BY <1>5, <2>2
    <3>2. Sound(PoolDestroyed(d, p), {p} \ {p}) BY <3>1, Destroy
    <3> QED BY <3>2
  <2>5. DestroyedOf(clean, st, p) BY <1>1, <2>1, DestroyedFields
  <2> HIDE DEF clean, p
  <2>6. HasParts(clean) /\ DOMAIN clean.fd \subseteq DOMAIN st.fd /\ clean.addr = [x \in SK_Addrs |-> clean.addr[x]]
        /\ clean.socket = st.socket /\ clean.pools = st.pools \ {p}
        /\ \A x \in SK_Addrs : ~st.addr[x].borrowed => clean.addr[x] = st.addr[x]
    <3>1. clean.socket = st.socket /\ clean.pools = st.pools \ {p} BY <2>5 DEF DestroyedOf
    <3>2. HasParts(clean) BY <2>5, <3>1, Zenon DEF DestroyedOf, HasParts
    <3>3. DOMAIN clean.fd \subseteq DOMAIN st.fd /\ clean.addr = [x \in SK_Addrs |-> clean.addr[x]]
      BY <2>5 DEF DestroyedOf
    <3>4. \A x \in SK_Addrs : ~st.addr[x].borrowed => clean.addr[x] = st.addr[x] BY <2>5 DEF DestroyedOf
    <3> QED BY <3>1, <3>2, <3>3, <3>4
  <2>7. clean.pools \subseteq SocketPools(clean) \cup AddrPools(clean)
    <3> SUFFICES ASSUME NEW r \in clean.pools PROVE r \in SocketPools(clean) \cup AddrPools(clean) OBVIOUS
    <3>1. r \in st.pools \ {} BY <2>6
    <3>2. \/ \E s \in SK_Sockets : st.socket[s].pool = r
          \/ \E x \in SK_Addrs : AddrPoolOwned(st.addr[x]) /\ st.addr[x].pool = r
      BY <1>1, <3>1 DEF Owned
    <3>3. CASE \E s \in SK_Sockets : st.socket[s].pool = r BY <2>6, <3>3 DEF SocketPools
    <3>4. CASE \E x \in SK_Addrs : AddrPoolOwned(st.addr[x]) /\ st.addr[x].pool = r
      <4>1. PICK x \in SK_Addrs : AddrPoolOwned(st.addr[x]) /\ st.addr[x].pool = r BY <3>4
      <4>2. clean.addr[x] = st.addr[x] BY <2>6, <4>1 DEF AddrPoolOwned
      <4> QED BY <4>1, <4>2 DEF AddrPools
    <3> QED BY <3>2, <3>3, <3>4
  <2> QED BY <2>3, <2>4, <2>6, <2>7 DEF AllUsed, clean
<1> QED BY <1>6, <1>7

\* jr_sockaddr_reset and what follows it, of an address of the client.
Anew(st, a, port) ==
  [AddrFilled(st, st.addr[a], port).st EXCEPT !.addr[a] = AddrFilled(st, st.addr[a], port).addr]

LEMMA Renewed ==
  ASSUME NEW st, NEW k \in Nat, Fits(st, {}, k), NEW a \in SK_Addrs, NEW port
  PROVE  Fits(Anew(st, a, port), {}, k)
<1>1. IsState(st) /\ Owned(st, {}) /\ Inside(st) /\ Sound(st, {}) BY DEF Sound, Fits
<1>2. PICK clean : clean = AddrUndone(st, st.addr[a]) OBVIOUS
<1>3. PICK d : d = Dropped(st, a) OBVIOUS
<1>4. /\ HasParts(clean) /\ DOMAIN clean.fd \subseteq DOMAIN st.fd
      /\ clean.addr = [x \in SK_Addrs |-> clean.addr[x]]
      /\ AllUsed(clean) /\ Sound(d, {})
  BY <1>1, <1>2, <1>3, Undone
<1>5. d = [clean EXCEPT !.addr[a] = NoAddr] BY <1>2, <1>3 DEF Dropped
<1>6. PICK p : p = IF st.addr[a].borrowed THEN st.addr[a].pool ELSE FreshPool(clean) OBVIOUS
<1>7. PICK at : at = IF port = 0 THEN NoPlace ELSE [pool |-> p, port |-> port] OBVIOUS
<1>8. PICK r : r = [live |-> TRUE, pool |-> p, borrowed |-> st.addr[a].borrowed, at |-> at] OBVIOUS
<1>9. PICK pools : pools = clean.pools \cup (IF st.addr[a].borrowed THEN {} ELSE {p}) OBVIOUS
<1>10. PICK t : t = Anew(st, a, port) OBVIOUS
<1>11. t = Made(clean.socket, [clean.addr EXCEPT ![a] = r], clean.fd, pools)
  <2>1. clean = [socket |-> clean.socket, addr |-> clean.addr, fd |-> clean.fd, pools |-> clean.pools]
    BY <1>4 DEF HasParts
  <2>2. PICK f : f = AddrFilled(st, st.addr[a], port) OBVIOUS
  <2>3. f.addr = r BY <1>2, <1>6, <1>7, <1>8, <2>2 DEF AddrFilled
  <2>4. f.st = [clean EXCEPT !.pools = @ \cup (IF st.addr[a].borrowed THEN {} ELSE {p})]
    BY <1>2, <1>6, <2>2 DEF AddrFilled
  <2>5. f.st = [clean EXCEPT !.pools = pools] BY <1>9, <2>4
  <2>6. PICK u : u = [clean EXCEPT !.pools = pools] OBVIOUS
  <2>7. u = Made(clean.socket, clean.addr, clean.fd, pools) BY <1>4, <2>6, PoolsParts
  <2>8. HasParts(u) /\ u.socket = clean.socket /\ u.addr = clean.addr /\ u.fd = clean.fd /\ u.pools = pools
    BY <2>7, Parts
  <2>9. t = [u EXCEPT !.addr[a] = r] BY <1>10, <2>2, <2>3, <2>5, <2>6, Zenon DEF Anew
  <2>10. [u EXCEPT !.addr[a] = r] = Made(u.socket, [u.addr EXCEPT ![a] = r], u.fd, u.pools)
    BY <2>8, AddrPutParts
  <2> QED BY <2>8, <2>9, <2>10, Zenon
<1>12. t.fd = clean.fd
  <2>1. PICK ad : ad = [clean.addr EXCEPT ![a] = r] OBVIOUS
  <2>2. t = Made(clean.socket, ad, clean.fd, pools) BY <1>11, <2>1, Zenon
  <2> QED BY <2>2, Parts
<1>13. p = 0 => st.addr[a].borrowed
  <2>1. FreshPool(clean) \in SK_Pools BY <1>4, PoolLeft
  <2> QED BY <1>6, <2>1, Zero
<1>14. /\ r = [live |-> r.live, pool |-> r.pool, borrowed |-> r.borrowed, at |-> r.at]
       /\ r.live /\ r.pool = p /\ r.borrowed = st.addr[a].borrowed /\ r.at = at
  BY <1>8
<1>15. Sound(t, {})
  <2>1. CASE st.addr[a].borrowed
    <3>1. clean = st BY <1>2, <2>1 DEF AddrUndone, AddrPoolOwned
    <3>2. p = st.addr[a].pool /\ p # 0 /\ p \in st.pools /\ pools = st.pools
      BY <1>1, <1>6, <1>9, <2>1, <3>1 DEF Inside
    <3>3. /\ IsPlace(at) /\ at.pool \in {0, p} /\ (at.pool = 0 => at = NoPlace)
      <4>1. p \in Numbers BY <1>1, <3>2 DEF IsState, Numbers
      <4> QED BY <1>7, <3>2, <4>1 DEF IsPlace, NoPlace, Numbers
    <3>4. IsAddr(r) BY <1>1, <1>14, <3>2, <3>3 DEF IsAddr, IsState, Numbers
    <3>5. OwnOf(r) = {} /\ OwnOf(st.addr[a]) = {} BY <1>14, <2>1 DEF OwnOf, AddrPoolOwned
    <3>6. AddrFits(st, {}, a, r) BY <1>14, <3>2, <3>3, <3>4, <3>5 DEF AddrFits
    <3>7. Sound([st EXCEPT !.addr[a] = r], ({} \cup OwnOf(st.addr[a])) \ OwnOf(r)) BY <1>1, <3>6, AddrPut
    <3>8. t = [st EXCEPT !.addr[a] = r]
      <4>1. [st EXCEPT !.addr[a] = r] = Made(st.socket, [st.addr EXCEPT ![a] = r], st.fd, st.pools)
        BY <1>4, <3>1, AddrPutParts
      <4> QED BY <1>11, <3>1, <3>2, <4>1, Zenon
    <3>9. ({} \cup OwnOf(st.addr[a])) \ OwnOf(r) = {} BY <3>5
    <3> QED BY <3>7, <3>8, <3>9
  <2>2. CASE ~st.addr[a].borrowed
    <3>1. p = FreshPool(clean) /\ pools = clean.pools \cup {p} BY <1>6, <1>9, <2>2
    <3>2. p \in SK_Pools /\ p \notin clean.pools /\ p # 0 BY <1>4, <3>1, PoolLeft, Zero
    <3>3. PICK ad : ad = [clean.addr EXCEPT ![a] = NoAddr] OBVIOUS
    <3>4. d = Made(clean.socket, ad, clean.fd, clean.pools)
      <4>1. d = Made(clean.socket, [clean.addr EXCEPT ![a] = NoAddr], clean.fd, clean.pools)
        BY <1>4, <1>5, AddrPutParts
      <4> QED BY <3>3, <4>1, Zenon
    <3>5. HasParts(d) /\ d.socket = clean.socket /\ d.addr = ad /\ d.fd = clean.fd /\ d.pools = clean.pools
      BY <3>4, Parts
    <3>6. PICK u : u = [d EXCEPT !.pools = @ \cup {p}] OBVIOUS
    <3>7. Sound(u, {p})
      <4>1. p \in SK_Pools \ d.pools BY <3>2, <3>5
      <4>2. Sound([d EXCEPT !.pools = @ \cup {p}], {} \cup {p}) BY <1>4, <4>1, PoolMade
      <4>3. {} \cup {p} = {p} OBVIOUS
      <4> QED BY <3>6, <4>2, <4>3
    <3>8. u = Made(clean.socket, ad, clean.fd, pools)
      <4>1. d = [socket |-> d.socket, addr |-> d.addr, fd |-> d.fd, pools |-> d.pools] BY <3>5 DEF HasParts
      <4>2. u = [d EXCEPT !.pools = d.pools \cup {p}] BY <3>6, <4>1
      <4>3. [d EXCEPT !.pools = d.pools \cup {p}] = Made(d.socket, d.addr, d.fd, d.pools \cup {p})
        BY <3>5, PoolsParts
      <4> QED BY <3>1, <3>5, <4>2, <4>3, Zenon
    <3>9. HasParts(u) /\ u.socket = clean.socket /\ u.addr = ad /\ u.fd = clean.fd /\ u.pools = pools
      BY <3>8, Parts
    <3>10. ad[a] = NoAddr /\ [ad EXCEPT ![a] = r] = [clean.addr EXCEPT ![a] = r] BY <1>4, <3>3
    <3>11. /\ IsPlace(at) /\ at.pool \in {0, p} /\ (at.pool = 0 => at = NoPlace)
      BY <1>7, <3>2 DEF IsPlace, NoPlace, Numbers
    <3>12. IsAddr(r) BY <1>14, <3>2, <3>11 DEF IsAddr, Numbers
    <3>13. OwnOf(r) = {p} /\ OwnOf(u.addr[a]) = {}
      <4>1. ~AddrPoolOwned(NoAddr) BY NoAddrIs
      <4> QED BY <1>14, <2>2, <3>2, <3>9, <3>10, <4>1 DEF OwnOf, AddrPoolOwned
    <3>14. AddrFits(u, {p}, a, r) BY <1>14, <2>2, <3>1, <3>9, <3>11, <3>12, <3>13 DEF AddrFits
    <3>15. Sound([u EXCEPT !.addr[a] = r], ({p} \cup OwnOf(u.addr[a])) \ OwnOf(r)) BY <3>7, <3>14, AddrPut
    <3>16. ({p} \cup OwnOf(u.addr[a])) \ OwnOf(r) = {} BY <3>13
    <3>17. t = [u EXCEPT !.addr[a] = r]
      <4>1. [u EXCEPT !.addr[a] = r] = Made(u.socket, [u.addr EXCEPT ![a] = r], u.fd, u.pools)
        BY <3>9, AddrPutParts
      <4> QED BY <1>11, <3>9, <3>10, <4>1, Zenon
    <3> QED BY <3>15, <3>16, <3>17
  <2> QED BY <2>1, <2>2
<1> QED BY <1>4, <1>10, <1>12, <1>15, FewerFds

LEMMA FitsMore ==
  ASSUME NEW st, NEW E, NEW k \in Nat, Fits(st, E, k)
  PROVE  Fits(st, E, k + 1)
<1>1. DOMAIN st.fd \in SUBSET SK_Pools BY DEF Fits, Sound, IsState
<1>2. IsFiniteSet(SK_Pools) BY SK_Assumption
<1>3. IsFiniteSet(DOMAIN st.fd) BY <1>1, <1>2, FS_Subset
<1>4. Cardinality(DOMAIN st.fd) \in Nat BY <1>3, FS_CardinalityType
<1>5. Cardinality(DOMAIN st.fd) <= k BY DEF Fits
<1> QED BY <1>4, <1>5 DEF Fits

\* A socket whose descriptor and pool stay.
LEMMA SocketAlone ==
  ASSUME NEW st, NEW E, NEW k, Fits(st, E, k), NEW s \in SK_Sockets, NEW e,
         IsSocket(e), e.fd = st.socket[s].fd, e.pool = st.socket[s].pool
  PROVE  Fits([st EXCEPT !.socket[s] = e], E, k)
<1>1. IsState(st) /\ Sound(st, E) BY DEF Fits, Sound
<1>2. FdAs(st, st.fd) /\ SocketAs(st, st.socket) BY <1>1, SameFd
<1>3. PICK g : g = [st.socket EXCEPT ![s] = e] OBVIOUS
<1>4. SocketAs(st, g) BY <1>2, <1>3, OneSocket
<1>5. PICK t : t = [st EXCEPT !.socket[s] = e] OBVIOUS
<1>6. t = Made(g, st.addr, st.fd, st.pools) BY <1>1, <1>3, <1>5, StateParts, SocketPut
<1>7. Fits(t, E, k) BY <1>2, <1>4, <1>6, Like
<1> QED BY <1>5, <1>7

\* Descriptors that stay in their pools.
LEMMA FdsAlone ==
  ASSUME NEW st, NEW E, NEW k, Fits(st, E, k), NEW fd, FdAs(st, fd), NEW t, t = [st EXCEPT !.fd = fd]
  PROVE  Fits(t, E, k) /\ t.socket = st.socket /\ t.addr = st.addr /\ t.fd = fd /\ t.pools = st.pools
<1>1. IsState(st) /\ Sound(st, E) BY DEF Fits, Sound
<1>2. SocketAs(st, st.socket) BY <1>1, SameFd
<1>3. st = [socket |-> st.socket, addr |-> st.addr, fd |-> st.fd, pools |-> st.pools] BY <1>1 DEF IsState
<1>4. t = [socket |-> st.socket, addr |-> st.addr, fd |-> fd, pools |-> st.pools] BY <1>3
<1>5. t = Made(st.socket, st.addr, fd, st.pools) BY <1>4, Zenon DEF Made
<1> QED BY <1>2, <1>5, Like

\* The address of a call that connects has a pool of its own, which the call ends.
LEMMA TempMade ==
  ASSUME NEW st, NEW k \in Nat, Fits(st, {}, k), NEW port, NEW f, f = AddrFilled(st, NewAddr, port)
  PROVE  Fits(f.st, {f.addr.pool}, k) /\ AddrPoolOwned(f.addr)
<1>1. IsState(st) /\ Owned(st, {}) /\ Sound(st, {}) BY DEF Fits, Sound
<1>2. AllUsed(st) BY <1>1, Used
<1>3. ~AddrPoolOwned(NewAddr) /\ NewAddr.borrowed = FALSE
  BY DEF NewAddr, NoAddr, AddrPoolOwned
<1>4. AddrUndone(st, NewAddr) = st BY <1>3 DEF AddrUndone
<1>5. PICK p : p = FreshPool(st) OBVIOUS
<1>6. p \in SK_Pools \ st.pools /\ p # 0 BY <1>2, <1>5, PoolLeft, Zero
<1>7. f.st = [st EXCEPT !.pools = @ \cup {p}] BY <1>3, <1>4, <1>5 DEF AddrFilled
<1>8. f.addr.pool = p /\ f.addr.borrowed = FALSE BY <1>3, <1>4, <1>5 DEF AddrFilled
<1>9. Sound(f.st, {p})
  <2>1. Sound([st EXCEPT !.pools = @ \cup {p}], {} \cup {p}) BY <1>1, <1>6, PoolMade
  <2>2. {} \cup {p} = {p} OBVIOUS
  <2> QED BY <1>7, <2>1, <2>2
<1>10. f.st.fd = st.fd
  <2>1. st = [socket |-> st.socket, addr |-> st.addr, fd |-> st.fd, pools |-> st.pools] BY <1>1 DEF IsState
  <2>2. f.st = [socket |-> st.socket, addr |-> st.addr, fd |-> st.fd, pools |-> st.pools \cup {p}]
    BY <1>7, <2>1
  <2> QED BY <2>2
<1> QED BY <1>6, <1>8, <1>9, <1>10 DEF Fits, AddrPoolOwned

LEMMA TempGone ==
  ASSUME NEW st, NEW k \in Nat, NEW r, Fits(st, {r.pool}, k), AddrPoolOwned(r)
  PROVE  Fits(AddrUndone(st, r), {}, k)
<1>1. PICK p : p = r.pool OBVIOUS
<1>2. AddrUndone(st, r) = PoolDestroyed(st, p) BY <1>1 DEF AddrUndone
<1>3. Sound(st, {p}) /\ p \in {p} /\ IsState(st) BY <1>1 DEF Fits, Sound
<1>4. Sound(PoolDestroyed(st, p), {p} \ {p}) BY <1>3, Destroy
<1>5. {p} \ {p} = {} OBVIOUS
<1>6. DOMAIN PoolDestroyed(st, p).fd \subseteq DOMAIN st.fd
  <2>1. PICK g : g = PoolDestroyed(st, p) OBVIOUS
  <2>2. DestroyedOf(g, st, p) BY <1>3, <2>1, DestroyedFields
  <2>3. DOMAIN g.fd \subseteq DOMAIN st.fd BY <2>2 DEF DestroyedOf
  <2> QED BY <2>1, <2>3
<1> QED BY <1>1, <1>2, <1>4, <1>5, <1>6, FewerFds

\* That of a call that offers a service borrows the socket's pool.
LEMMA Borrows ==
  ASSUME NEW st, HasParts(st), NEW q, NEW port, NEW f, f = AddrFilled(st, Borrowing(q), port)
  PROVE  /\ f.st = st /\ ~AddrPoolOwned(f.addr)
         /\ f.addr.at = IF port = 0 THEN NoPlace ELSE [pool |-> q, port |-> port]
<1>1. Borrowing(q).borrowed = TRUE /\ Borrowing(q).pool = q BY DEF Borrowing, NewAddr, NoAddr
<1>2. AddrUndone(st, Borrowing(q)) = st BY <1>1 DEF AddrUndone, AddrPoolOwned
<1>3. f.st = [st EXCEPT !.pools = @ \cup {}] BY <1>1, <1>2 DEF AddrFilled
<1>4. st = [socket |-> st.socket, addr |-> st.addr, fd |-> st.fd, pools |-> st.pools] BY DEF HasParts
<1>5. f.st = [st EXCEPT !.pools = st.pools]
  <2>1. st.pools \cup {} = st.pools OBVIOUS
  <2> QED BY <1>3, <1>4, <2>1
<1>6. f.st = st
  <2>1. [st EXCEPT !.pools = st.pools] = Made(st.socket, st.addr, st.fd, st.pools) BY PoolsParts
  <2> QED BY <1>4, <1>5, <2>1, Zenon DEF Made
<1>7. f.addr.borrowed = TRUE /\ f.addr.at = IF port = 0 THEN NoPlace ELSE [pool |-> q, port |-> port]
  BY <1>1 DEF AddrFilled
<1> QED BY <1>6, <1>7 DEF AddrPoolOwned

LEMMA Cleans ==
  ASSUME NEW st, NEW k \in Nat, Fits(st, {}, k), NEW s \in SK_Sockets, NEW opened,
         NEW t \in CleanedUp(st, s, opened)
  PROVE  Fits(t, {}, k)
<1>1. CASE opened
  <2>1. PICK flushed \in BOOLEAN : t = SocketClosed(st, s, flushed) BY <1>1 DEF CleanedUp
  <2> QED BY <2>1, Closes
<1>2. CASE ~opened BY <1>2 DEF CleanedUp
<1> QED BY <1>1, <1>2

LEMMA OpensAny ==
  ASSUME NEW st, NEW E, NEW q, E \subseteq {q}, NEW k \in Nat, Fits(st, E, k), k < SK_Calls, NEW s \in SK_Sockets, NEW how
  PROVE  LET t == SocketOpened(st, s, how) IN
         /\ Fits(t, E, k + 1)
         /\ t.socket[s].fd \in DOMAIN t.fd /\ t.socket[s].pool = SocketPooled(st, s).socket[s].pool
<1>1. PICK m : m = SocketPooled(st, s) OBVIOUS
<1>2. Sound(m, E) /\ PooledOf(m, st, s) BY <1>1, Pooled DEF Fits
<1>3. Fits(m, E, k) /\ m.socket[s].pool # 0 BY <1>2 DEF Fits, PooledOf
<1>4. Fits(Opening(m, s, how), E, k + 1) /\ OpenedOf(Opening(m, s, how), m, s) BY <1>3, Opens
<1>5. PICK t : t = Opening(m, s, how) OBVIOUS
<1>6. t = SocketOpened(st, s, how) BY <1>1, <1>5 DEF SocketOpened, Opening
<1>7. t.socket[s].fd \in DOMAIN t.fd /\ t.socket[s].pool = m.socket[s].pool BY <1>4, <1>5 DEF OpenedOf
<1> QED BY <1>1, <1>4, <1>5, <1>6, <1>7

\* The calls. Each makes at most one descriptor.
SK_Inv == sk_count \in Nat /\ Fits(sk, {}, sk_count)

LEMMA CallIs ==
  ASSUME SK_Inv, SK_Call
  PROVE  sk_count \in Nat /\ sk_count < SK_Calls /\ sk_count' = sk_count + 1 /\ Fits(sk, {}, sk_count)
         /\ Fits(sk, {}, sk_count + 1) /\ IsState(sk) /\ Sound(sk, {}) /\ Inside(sk) /\ HasParts(sk)
<1>1. sk_count \in Nat /\ sk_count < SK_Calls /\ sk_count' = sk_count + 1 /\ Fits(sk, {}, sk_count)
  BY DEF SK_Inv, SK_Call
<1>2. Fits(sk, {}, sk_count + 1) BY <1>1, FitsMore
<1>3. IsState(sk) /\ Sound(sk, {}) /\ Inside(sk) BY <1>1 DEF Fits, Sound
<1>4. HasParts(sk) BY <1>3, StateParts
<1> QED BY <1>1, <1>2, <1>3, <1>4

LEMMA CallEnds ==
  ASSUME SK_Inv, SK_Call, Fits(sk', {}, sk_count + 1)
  PROVE  SK_Inv'
<1>1. sk_count + 1 \in Nat /\ sk_count' = sk_count + 1 BY CallIs
<1>2. PICK k : k = sk_count + 1 OBVIOUS
<1>3. Fits(sk', {}, k) BY <1>2
<1>4. sk_count' = k /\ k \in Nat BY <1>1, <1>2
<1> QED BY <1>3, <1>4 DEF SK_Inv

\* A call that leaves the descriptor and the pool of its socket.
LEMMA SocketField ==
  ASSUME SK_Inv, SK_Call, NEW s \in SK_Sockets, NEW e,
         IsSocket(e), e.fd = sk.socket[s].fd, e.pool = sk.socket[s].pool, sk' = [sk EXCEPT !.socket[s] = e]
  PROVE  SK_Inv'
<1>1. Fits(sk, {}, sk_count + 1) BY CallIs
<1>2. Fits([sk EXCEPT !.socket[s] = e], {}, sk_count + 1) BY <1>1, SocketAlone
<1> QED BY <1>2, CallEnds

LEMMA SocketInitKeeps ==
  ASSUME SK_Inv, NEW s \in SK_Sockets, SK_SocketInit(s)
  PROVE  SK_Inv'
<1>1. SK_Call BY DEF SK_SocketInit
<1>2. PICK type \in {"stream", "dgram", "other"} : sk' = [sk EXCEPT !.socket[s].type = type] BY DEF SK_SocketInit
<1>3. PICK e : e = [sk.socket[s] EXCEPT !.type = type] OBVIOUS
<1>4. IsSocket(sk.socket[s]) BY <1>1, CallIs DEF IsState
<1>5. IsSocket(e) /\ e.fd = sk.socket[s].fd /\ e.pool = sk.socket[s].pool BY <1>3, <1>4, SocketFields
<1>6. sk' = [sk EXCEPT !.socket[s] = e] BY <1>2, <1>3
<1> QED BY <1>1, <1>5, <1>6, SocketField

LEMMA BufferKeeps ==
  ASSUME SK_Inv, SK_Call, NEW s \in SK_Sockets, NEW buffer, sk' = [sk EXCEPT !.socket[s].buffer = buffer]
  PROVE  SK_Inv'
<1>1. PICK e : e = [sk.socket[s] EXCEPT !.buffer = buffer] OBVIOUS
<1>2. IsSocket(sk.socket[s]) BY CallIs DEF IsState
<1>3. IsSocket(e) /\ e.fd = sk.socket[s].fd /\ e.pool = sk.socket[s].pool BY <1>1, <1>2, SocketFields
<1>4. sk' = [sk EXCEPT !.socket[s] = e] BY <1>1
<1> QED BY <1>3, <1>4, SocketField

LEMMA SendKeeps ==
  ASSUME SK_Inv, NEW s \in SK_Sockets, SK_Send(s)
  PROVE  SK_Inv'
BY BufferKeeps DEF SK_Send

LEMMA PrintfKeeps ==
  ASSUME SK_Inv, NEW s \in SK_Sockets, SK_Printf(s)
  PROVE  SK_Inv'
<1>1. PICK b : b = IF Stream(s) THEN "text" ELSE IF sk.socket[s].buffer = "none" THEN "empty" ELSE sk.socket[s].buffer
  OBVIOUS
<1>2. SK_Call BY DEF SK_Printf
<1>3. HasParts(sk) BY <1>2, CallIs
<1>4. sk' = [sk EXCEPT !.socket[s].buffer = b] BY <1>1, Zenon DEF SK_Printf
<1> QED BY <1>2, <1>4, BufferKeeps

LEMMA SocketUndoKeeps ==
  ASSUME SK_Inv, NEW s \in SK_Sockets, SK_SocketUndo(s)
  PROVE  SK_Inv'
<1> DEFINE close == sk.socket[s].fd # 0
<1>1. SK_Call BY DEF SK_SocketUndo
<1>2. sk_count + 1 \in Nat /\ Fits(sk, {}, sk_count + 1) /\ Sound(sk, {}) BY <1>1, CallIs
<1>3. sk' = Closing(sk, s, NoSocket, close) BY DEF SK_SocketUndo, Closing
<1>4. IsSocket(NoSocket) /\ NoSocket.fd = 0 /\ NoSocket.pool = 0 BY DEF IsSocket, NoSocket, Numbers
<1>5. close \in BOOLEAN /\ (close => sk.socket[s].fd # 0) OBVIOUS
<1> HIDE DEF close
<1>6. /\ Sound(Closing(sk, s, NoSocket, close), {})
      /\ DOMAIN Closing(sk, s, NoSocket, close).fd \subseteq DOMAIN sk.fd
  BY <1>2, <1>4, <1>5, SocketShut
<1>7. Fits(sk', {}, sk_count + 1) BY <1>2, <1>3, <1>6, FewerFds
<1> QED BY <1>1, <1>7, CallEnds

LEMMA CloseKeeps ==
  ASSUME SK_Inv, NEW s \in SK_Sockets, SK_Close(s)
  PROVE  SK_Inv'
<1>1. SK_Call BY DEF SK_Close
<1>2. PICK flushed \in BOOLEAN : sk' = SocketClosed(sk, s, flushed) BY DEF SK_Close
<1>3. sk_count + 1 \in Nat /\ Fits(sk, {}, sk_count + 1) BY <1>1, CallIs
<1>4. Fits(sk', {}, sk_count + 1) BY <1>2, <1>3, Closes
<1> QED BY <1>1, <1>4, CallEnds

LEMMA OpenKeeps ==
  ASSUME SK_Inv, NEW s \in SK_Sockets, SK_Open(s)
  PROVE  SK_Inv'
<1>1. SK_Call BY DEF SK_Open
<1>2. sk_count \in Nat /\ sk_count < SK_Calls /\ Fits(sk, {}, sk_count) /\ Fits(sk, {}, sk_count + 1) BY <1>1, CallIs
<1>3. {} \subseteq {0} OBVIOUS
<1>4. Fits(sk', {}, sk_count + 1)
  <2>1. CASE sk' = SocketPooled(sk, s)
    <3>1. Sound(SocketPooled(sk, s), {}) /\ PooledOf(SocketPooled(sk, s), sk, s) BY <1>2, <1>3, Pooled DEF Fits
    <3> QED BY <1>2, <2>1, <3>1 DEF Fits, PooledOf
  <2>2. CASE \E how \in {"new", "connected"} : sk' = SocketOpened(sk, s, how) BY <1>2, <1>3, <2>2, OpensAny
  <2> QED BY <2>1, <2>2 DEF SK_Open
<1> QED BY <1>1, <1>4, CallEnds

LEMMA SetNonblockKeeps ==
  ASSUME SK_Inv, NEW s \in SK_Sockets, SK_SetNonblock(s)
  PROVE  SK_Inv'
<1>1. SK_Call BY DEF SK_SetNonblock
<1>2. PICK value, works \in BOOLEAN : sk' = ModeSet(sk, s, value, works) BY DEF SK_SetNonblock
<1>3. Fits(sk, {}, sk_count + 1) BY <1>1, CallIs
<1>4. Fits(sk', {}, sk_count + 1) BY <1>2, <1>3, Mode
<1> QED BY <1>1, <1>4, CallEnds

LEMMA ShutdownKeeps ==
  ASSUME SK_Inv, NEW s \in SK_Sockets, SK_Shutdown(s)
  PROVE  SK_Inv'
<1>1. SK_Call BY DEF SK_Shutdown
<1>2. PICK buffer \in Flushes(s), works \in BOOLEAN :
        sk' = [sk EXCEPT !.socket[s].buffer = buffer,
                         !.fd[sk.socket[s].fd].state = IF works THEN "shut" ELSE @]
  BY DEF SK_Shutdown
<1>3. Fits(sk, {}, sk_count + 1) /\ IsState(sk) /\ Sound(sk, {}) BY <1>1, CallIs
<1>4. PICK n : n = sk.socket[s].fd OBVIOUS
<1>5. PICK v : v = IF works THEN "shut" ELSE sk.fd[n].state OBVIOUS
<1>6. PICK e : e = [sk.socket[s] EXCEPT !.buffer = buffer] OBVIOUS
<1>7. PICK fd : fd = [sk.fd EXCEPT ![n].state = v] OBVIOUS
<1>8. PICK g : g = [sk.socket EXCEPT ![s] = e] OBVIOUS
<1>9. FdAs(sk, sk.fd) /\ SocketAs(sk, sk.socket) BY <1>3, SameFd
<1>10. FdAs(sk, fd) BY <1>7, <1>9, SetState
<1>11. SocketAs(sk, g)
  <2>1. IsSocket(sk.socket[s]) BY <1>3 DEF IsState
  <2>2. IsSocket(e) /\ e.fd = sk.socket[s].fd /\ e.pool = sk.socket[s].pool BY <1>6, <2>1, SocketFields
  <2> QED BY <1>8, <1>9, <2>2, OneSocket
<1>12. sk' = Made(g, sk.addr, fd, sk.pools)
  <2>1. sk = [socket |-> sk.socket, addr |-> sk.addr, fd |-> sk.fd, pools |-> sk.pools] BY <1>3 DEF IsState
  <2>2. sk' = [sk EXCEPT !.socket[s].buffer = buffer, !.fd[n].state = v] BY <1>2, <1>4, <1>5, Zenon
  <2>3. [sk EXCEPT !.socket[s].buffer = buffer, !.fd[n].state = v] = [sk EXCEPT !.socket = g, !.fd = fd]
    BY <1>6, <1>7, <1>8, <2>1
  <2>4. PICK t : t = [sk EXCEPT !.socket = g, !.fd = fd] OBVIOUS
  <2>5. t = [socket |-> g, addr |-> sk.addr, fd |-> fd, pools |-> sk.pools] BY <2>1, <2>4
  <2> QED BY <2>2, <2>3, <2>4, <2>5, Zenon DEF Made
<1>13. Fits(sk', {}, sk_count + 1) BY <1>3, <1>10, <1>11, <1>12, Like
<1> QED BY <1>1, <1>13, CallEnds

\* The calls on addresses.
LEMMA AddrKeeps ==
  ASSUME SK_Inv, SK_Call, NEW a \in SK_Addrs, NEW port, sk' = Anew(sk, a, port)
  PROVE  SK_Inv'
<1>1. sk_count + 1 \in Nat /\ Fits(sk, {}, sk_count + 1) BY CallIs
<1>2. Fits(sk', {}, sk_count + 1) BY <1>1, Renewed
<1> QED BY <1>2, CallEnds

LEMMA LookupKeeps ==
  ASSUME SK_Inv, NEW a \in SK_Addrs, SK_Lookup(a)
  PROVE  SK_Inv'
<1>1. SK_Call BY DEF SK_Lookup
<1>2. PICK port \in SK_Ports \cup {0} : sk' = Anew(sk, a, port) BY DEF SK_Lookup, Anew
<1> QED BY <1>1, <1>2, AddrKeeps

LEMMA RecvFromKeeps ==
  ASSUME SK_Inv, NEW s \in SK_Sockets, NEW a \in SK_Addrs, SK_RecvFrom(s, a)
  PROVE  SK_Inv'
<1>1. SK_Call BY DEF SK_RecvFrom
<1>2. PICK port \in SK_Ports \cup {0} : sk' = Anew(sk, a, port) BY DEF SK_RecvFrom, Anew
<1> QED BY <1>1, <1>2, AddrKeeps

LEMMA DupKeeps ==
  ASSUME SK_Inv, NEW a \in SK_Addrs, NEW b \in SK_Addrs, SK_Dup(a, b)
  PROVE  SK_Inv'
<1>1. SK_Call BY DEF SK_Dup
<1>2. sk' = Anew(sk, b, sk.addr[a].at.port) BY DEF SK_Dup, Anew
<1> QED BY <1>1, <1>2, AddrKeeps

LEMMA PutKeeps ==
  ASSUME SK_Inv, SK_Call, NEW a \in SK_Addrs, NEW r, AddrFits(sk, {}, a, r), OwnOf(sk.addr[a]) = {},
         sk' = [sk EXCEPT !.addr[a] = r]
  PROVE  SK_Inv'
<1>1. sk_count + 1 \in Nat /\ Fits(sk, {}, sk_count + 1) /\ Sound(sk, {}) /\ HasParts(sk) BY CallIs
<1>2. Sound(sk', ({} \cup OwnOf(sk.addr[a])) \ OwnOf(r)) BY <1>1, AddrPut
<1>3. ({} \cup OwnOf(sk.addr[a])) \ OwnOf(r) = {} OBVIOUS
<1>4. sk'.fd = sk.fd
  <2>1. PICK ad : ad = [sk.addr EXCEPT ![a] = r] OBVIOUS
  <2>2. sk' = Made(sk.socket, ad, sk.fd, sk.pools) BY <1>1, <2>1, AddrPutParts
  <2> QED BY <2>2, Parts
<1>5. Fits(sk', {}, sk_count + 1) BY <1>1, <1>2, <1>3, <1>4, FewerFds
<1> QED BY <1>5, CallEnds

LEMMA DeadAddr ==
  ASSUME SK_Inv, SK_Call, NEW a \in SK_Addrs, ~sk.addr[a].live
  PROVE  OwnOf(sk.addr[a]) = {}
<1>1. sk.addr[a] = NoAddr BY CallIs DEF Inside
<1> QED BY <1>1, NoAddrIs DEF OwnOf

LEMMA AddrInitKeeps ==
  ASSUME SK_Inv, NEW a \in SK_Addrs, SK_AddrInit(a)
  PROVE  SK_Inv'
<1>1. SK_Call /\ ~sk.addr[a].live /\ sk' = [sk EXCEPT !.addr[a] = NewAddr] BY DEF SK_AddrInit
<1>2. OwnOf(sk.addr[a]) = {} BY <1>1, DeadAddr
<1>3. PICK r : r = NewAddr OBVIOUS
<1>4. r = [live |-> TRUE, pool |-> 0, borrowed |-> FALSE, at |-> NoPlace] BY <1>3 DEF NewAddr, NoAddr
<1>5. IsAddr(r) /\ OwnOf(r) = {} BY <1>4 DEF IsAddr, OwnOf, AddrPoolOwned, IsPlace, NoPlace, Numbers
<1>6. AddrFits(sk, {}, a, r) BY <1>4, <1>5 DEF AddrFits, NoPlace
<1>7. sk' = [sk EXCEPT !.addr[a] = r] BY <1>1, <1>3, Zenon
<1> QED BY <1>1, <1>2, <1>6, <1>7, PutKeeps

LEMMA InitForeachKeeps ==
  ASSUME SK_Inv, NEW a \in SK_Addrs, NEW b \in SK_Addrs, SK_InitForeach(a, b)
  PROVE  SK_Inv'
<1>1. SK_Call /\ sk.addr[a].at # NoPlace /\ ~sk.addr[b].live BY DEF SK_InitForeach
<1>2. PICK q : q = sk.addr[a].pool OBVIOUS
<1>3. PICK port \in SK_Ports :
        sk' = [sk EXCEPT !.addr[b] = [Borrowing(q) EXCEPT !.at = [pool |-> q, port |-> port]]]
  BY <1>2 DEF SK_InitForeach
<1>4. PICK r : r = [Borrowing(q) EXCEPT !.at = [pool |-> q, port |-> port]] OBVIOUS
<1>5. r = [live |-> TRUE, pool |-> q, borrowed |-> TRUE, at |-> [pool |-> q, port |-> port]]
  BY <1>4 DEF Borrowing, NewAddr, NoAddr
<1>6. OwnOf(sk.addr[b]) = {} BY <1>1, DeadAddr
<1>7. q \in sk.pools /\ q # 0 /\ q \in SK_Pools
  <2>1. Inside(sk) /\ IsState(sk) BY <1>1, CallIs
  <2>2. /\ sk.addr[a].pool \in sk.pools \cup {0}
        /\ sk.addr[a].at.pool \in {0, sk.addr[a].pool}
        /\ sk.addr[a].at.pool = 0 => sk.addr[a].at = NoPlace
    BY <2>1 DEF Inside
  <2>3. sk.pools \subseteq SK_Pools BY <2>1 DEF IsState
  <2> QED BY <1>1, <1>2, <2>2, <2>3
<1>8. IsAddr(r) /\ OwnOf(r) = {} BY <1>5, <1>7 DEF IsAddr, OwnOf, AddrPoolOwned, IsPlace, Numbers
<1>9. AddrFits(sk, {}, b, r) BY <1>5, <1>7, <1>8 DEF AddrFits
<1>10. sk' = [sk EXCEPT !.addr[b] = r] BY <1>3, <1>4, Zenon
<1> QED BY <1>1, <1>6, <1>9, <1>10, PutKeeps

LEMMA AddrUndoKeeps ==
  ASSUME SK_Inv, NEW a \in SK_Addrs, SK_AddrUndo(a)
  PROVE  SK_Inv'
<1>1. SK_Call /\ sk' = Dropped(sk, a) BY DEF SK_AddrUndo, Dropped
<1>2. sk_count + 1 \in Nat /\ Fits(sk, {}, sk_count + 1) /\ Sound(sk, {}) BY <1>1, CallIs
<1>3. PICK clean : clean = AddrUndone(sk, sk.addr[a]) OBVIOUS
<1>4. HasParts(clean) /\ DOMAIN clean.fd \subseteq DOMAIN sk.fd /\ Sound(sk', {}) BY <1>1, <1>2, <1>3, Undone
<1>5. sk'.fd = clean.fd
  <2>1. PICK ad : ad = [clean.addr EXCEPT ![a] = NoAddr] OBVIOUS
  <2>2. sk' = [clean EXCEPT !.addr[a] = NoAddr] BY <1>1, <1>3 DEF Dropped
  <2>3. sk' = Made(clean.socket, ad, clean.fd, clean.pools) BY <1>4, <2>1, <2>2, AddrPutParts
  <2> QED BY <2>3, Parts
<1>6. Fits(sk', {}, sk_count + 1) BY <1>2, <1>4, <1>5, FewerFds
<1> QED BY <1>1, <1>6, CallEnds

\* The calls that make a descriptor.
LEMMA AcceptKeeps ==
  ASSUME SK_Inv, NEW s \in SK_Sockets, NEW c \in SK_Sockets, SK_Accept(s, c)
  PROVE  SK_Inv'
<1>1. SK_Call BY DEF SK_Accept
<1>2. sk_count \in Nat /\ sk_count < SK_Calls /\ Fits(sk, {}, sk_count) /\ Fits(sk, {}, sk_count + 1) BY <1>1, CallIs
<1>3. {} \subseteq {0} OBVIOUS
<1>4. Fits(sk', {}, sk_count + 1)
  <2>1. CASE sk' = SocketPooled(sk, c)
    <3>1. Sound(SocketPooled(sk, c), {}) /\ PooledOf(SocketPooled(sk, c), sk, c) BY <1>2, <1>3, Pooled DEF Fits
    <3> QED BY <1>2, <2>1, <3>1 DEF Fits, PooledOf
  <2>2. CASE sk' = [SocketOpened(sk, c, "connected") EXCEPT !.fd[sk.socket[s].fd].queue = @ - 1]
    <3>1. PICK t : t = SocketOpened(sk, c, "connected") OBVIOUS
    <3>2. Fits(t, {}, sk_count + 1) BY <1>2, <1>3, <3>1, OpensAny
    <3>3. Sound(t, {}) /\ HasParts(t) BY <3>2, StateParts DEF Fits, Sound
    <3>4. PICK n : n = sk.socket[s].fd OBVIOUS
    <3>5. PICK v : v = t.fd[n].queue - 1 OBVIOUS
    <3>6. PICK fd : fd = [t.fd EXCEPT ![n].queue = v] OBVIOUS
    <3>7. FdAs(t, fd)
      <4>1. FdAs(t, t.fd) BY <3>3, SameFd
      <4> QED BY <3>6, <4>1, SetQueue
    <3>8. sk' = [t EXCEPT !.fd = fd]
      <4>1. sk' = [t EXCEPT !.fd[n].queue = v] BY <2>2, <3>1, <3>4, <3>5, Zenon
      <4>2. t = [socket |-> t.socket, addr |-> t.addr, fd |-> t.fd, pools |-> t.pools] BY <3>3 DEF HasParts
      <4> QED BY <3>6, <4>1, <4>2
    <3>9. Fits(sk', {}, sk_count + 1) BY <3>2, <3>7, <3>8, FdsAlone
    <3> QED BY <3>9
  <2> QED BY <2>1, <2>2 DEF SK_Accept
<1> QED BY <1>1, <1>4, CallEnds

LEMMA ConnectKeeps ==
  ASSUME SK_Inv, NEW s \in SK_Sockets, SK_Connect(s)
  PROVE  SK_Inv'
<1>1. SK_Call BY Zenon DEF SK_Connect
<1>2. sk_count \in Nat /\ sk_count + 1 \in Nat /\ sk_count < SK_Calls /\ Fits(sk, {}, sk_count) BY <1>1, CallIs
<1> DEFINE Found(port, step) == AddrFilled(sk, NewAddr, IF step = "lookup" THEN 0 ELSE port)
           Opened(step) == step \in {"connect", "mode", "done"}
           MadeBy(port, step) == CASE step = "lookup" -> Found(port, step).st
                                   [] step = "open" -> SocketPooled(Found(port, step).st, s)
                                   [] OTHER -> SocketOpened(Found(port, step).st, s, "new")
           Queued(made, port, step) ==
             IF step \in {"mode", "done"}
             THEN [made EXCEPT !.fd[made.socket[s].fd].state = "connected",
                     !.fd[CHOOSE l \in Listeners(made, port) : TRUE].queue = @ + 1]
             ELSE made
           Moded(queued, step) == IF Opened(step) /\ step # "connect" /\ sk.socket[s].nonblock
                                  THEN ModeSet(queued, s, TRUE, step = "done") ELSE queued
<1>3. PICK port \in SK_Ports, step \in {"lookup", "open", "connect", "mode", "done"} :
        sk' \in CleanedUp(AddrUndone(Moded(Queued(MadeBy(port, step), port, step), step), Found(port, step).addr),
                          s, Opened(step) /\ step # "done")
  <2>1. PICK port \in SK_Ports, step \in {"lookup", "open", "connect", "mode", "done"} :
         LET found == AddrFilled(sk, NewAddr, IF step = "lookup" THEN 0 ELSE port)
             opened == step \in {"connect", "mode", "done"}
             made == CASE step = "lookup" -> found.st
                       [] step = "open" -> SocketPooled(found.st, s)
                       [] OTHER -> SocketOpened(found.st, s, "new")
             queued == IF step \in {"mode", "done"}
                       THEN [made EXCEPT !.fd[made.socket[s].fd].state = "connected",
                               !.fd[CHOOSE l \in Listeners(made, port) : TRUE].queue = @ + 1]
                       ELSE made
             moded == IF opened /\ step # "connect" /\ sk.socket[s].nonblock
                      THEN ModeSet(queued, s, TRUE, step = "done") ELSE queued IN
         /\ step \in {"mode", "done"} => Listeners(sk, port) # {}
         /\ step = "mode" => sk.socket[s].nonblock
         /\ sk' \in CleanedUp(AddrUndone(moded, found.addr), s, opened /\ step # "done")
    BY Zenon DEF SK_Connect
  <2>2. sk' \in CleanedUp(AddrUndone(Moded(Queued(MadeBy(port, step), port, step), step), Found(port, step).addr),
                          s, Opened(step) /\ step # "done")
    BY <2>1, Zenon
  <2> HIDE DEF Moded, Queued, MadeBy, Found, Opened
  <2> QED BY <2>2
<1>4. PICK found : found = Found(port, step) OBVIOUS
<1>5. PICK q : q = found.addr.pool OBVIOUS
<1>6. Fits(found.st, {q}, sk_count) /\ AddrPoolOwned(found.addr) BY <1>2, <1>4, <1>5, TempMade
<1>7. PICK made : made = MadeBy(port, step) OBVIOUS
<1>8. Fits(made, {q}, sk_count + 1)
  <2>1. CASE step = "lookup"
    <3>1. made = found.st BY <1>4, <1>7, <2>1
    <3> QED BY <1>2, <1>6, <3>1, FitsMore
  <2>2. CASE step = "open"
    <3>1. made = SocketPooled(found.st, s) BY <1>4, <1>7, <2>2
    <3>2. Sound(found.st, {q}) /\ {q} \subseteq {q} BY <1>6 DEF Fits
    <3>3. Sound(made, {q}) /\ PooledOf(made, found.st, s) BY <3>1, <3>2, Pooled
    <3>4. Fits(made, {q}, sk_count) BY <1>6, <3>3 DEF Fits, PooledOf
    <3> QED BY <1>2, <3>4, FitsMore
  <2>3. CASE step \in {"connect", "mode", "done"}
    <3>1. made = SocketOpened(found.st, s, "new")
      <4>1. step # "lookup" /\ step # "open" BY <2>3
      <4> HIDE DEF Found
      <4> QED BY <1>4, <1>7, <4>1
    <3>2. {q} \subseteq {q} OBVIOUS
    <3> QED BY <1>2, <1>6, <3>1, <3>2, OpensAny
  <2> QED BY <2>1, <2>2, <2>3
<1> HIDE DEF MadeBy, Found, Queued, Moded
<1>9. PICK queued : queued = Queued(made, port, step) OBVIOUS
<1>10. Fits(queued, {q}, sk_count + 1)
  <2>1. CASE step \in {"mode", "done"}
    <3>1. PICK n : n = made.socket[s].fd OBVIOUS
    <3>2. PICK m : m = CHOOSE l \in Listeners(made, port) : TRUE OBVIOUS
    <3>3. queued = [made EXCEPT !.fd[n].state = "connected", !.fd[m].queue = @ + 1] BY <1>9, <2>1, <3>1, <3>2 DEF Queued
    <3>4. Sound(made, {q}) BY <1>8 DEF Fits
    <3>5. HasParts(made) BY <3>4, StateParts DEF Sound
    <3>6. PICK f : f = [made.fd EXCEPT ![n].state = "connected"] OBVIOUS
    <3>7. PICK v : queued = [made EXCEPT !.fd[n].state = "connected", !.fd[m].queue = v] BY <3>3
    <3>8. PICK fd : fd = [f EXCEPT ![m].queue = v] OBVIOUS
    <3>9. FdAs(made, fd)
      <4>1. FdAs(made, made.fd) BY <3>4, SameFd
      <4>2. FdAs(made, f) BY <3>6, <4>1, SetState
      <4> QED BY <3>8, <4>2, SetQueue
    <3>10. queued = [made EXCEPT !.fd = fd]
      <4>1. made = [socket |-> made.socket, addr |-> made.addr, fd |-> made.fd, pools |-> made.pools]
        BY <3>5 DEF HasParts
      <4>2. PICK t : t = [made EXCEPT !.fd[n].state = "connected"] OBVIOUS
      <4>3. t = [socket |-> made.socket, addr |-> made.addr, fd |-> f, pools |-> made.pools]
        BY <3>6, <4>1, <4>2
      <4>4. queued = [t EXCEPT !.fd[m].queue = v] BY <3>7, <4>2
      <4>5. queued = [socket |-> made.socket, addr |-> made.addr, fd |-> fd, pools |-> made.pools]
        BY ONLY <3>8, <4>3, <4>4
      <4>6. [made EXCEPT !.fd = fd] = [socket |-> made.socket, addr |-> made.addr, fd |-> fd, pools |-> made.pools]
        BY ONLY <4>1
      <4> QED BY <4>5, <4>6
    <3> QED BY <1>8, <3>9, <3>10, FdsAlone
  <2>2. CASE step \notin {"mode", "done"} BY <1>8, <1>9, <2>2 DEF Queued
  <2> QED BY <2>1, <2>2
<1>11. PICK moded : moded = Moded(queued, step) OBVIOUS
<1>12. Fits(moded, {q}, sk_count + 1)
  <2>1. CASE Opened(step) /\ step # "connect" /\ sk.socket[s].nonblock
    <3>1. moded = ModeSet(queued, s, TRUE, step = "done") BY <1>11, <2>1 DEF Moded
    <3> QED BY <1>10, <3>1, Mode
  <2>2. CASE ~(Opened(step) /\ step # "connect" /\ sk.socket[s].nonblock) BY <1>10, <1>11, <2>2 DEF Moded
  <2> QED BY <2>1, <2>2
<1> HIDE DEF Opened
<1>13. PICK undone : undone = AddrUndone(moded, found.addr) OBVIOUS
<1>14. Fits(undone, {}, sk_count + 1) BY <1>2, <1>5, <1>6, <1>12, <1>13, TempGone
<1>15. sk' \in CleanedUp(undone, s, Opened(step) /\ step # "done")
  BY <1>3, <1>4, <1>7, <1>9, <1>11, <1>13, Zenon
<1>16. Fits(sk', {}, sk_count + 1) BY <1>2, <1>14, <1>15, Cleans
<1> QED BY <1>1, <1>16, CallEnds

LEMMA OfferServiceKeeps ==
  ASSUME SK_Inv, NEW s \in SK_Sockets, SK_OfferService(s)
  PROVE  SK_Inv'
<1>1. SK_Call BY Zenon DEF SK_OfferService
<1>2. /\ sk_count \in Nat /\ sk_count + 1 \in Nat /\ sk_count < SK_Calls /\ Fits(sk, {}, sk_count)
      /\ Sound(sk, {})
  BY <1>1, CallIs
<1> DEFINE Opened(step) == step \in {"bind", "listen", "mode", "done"}
           Found(pooled, port, step) == AddrFilled(pooled, Borrowing(pooled.socket[s].pool),
                                                   IF step = "lookup" THEN 0 ELSE port)
           MadeBy(st, step) == IF Opened(step) THEN SocketOpened(st, s, "new") ELSE st
           Bound(made, n, at, step) ==
             IF Opened(step) /\ step # "bind"
             THEN [made EXCEPT !.fd[n].at = at,
                     !.fd[n].state = IF Stream(s) /\ step # "listen" THEN "listening" ELSE "bound"]
             ELSE made
           Moded(bound, step) == IF step \in {"mode", "done"} /\ sk.socket[s].nonblock
                                 THEN ModeSet(bound, s, TRUE, step = "done") ELSE bound
<1>3. PICK pooled : pooled = SocketPooled(sk, s) OBVIOUS
<1>4. PICK port \in SK_Ports, step \in {"lookup", "open", "bind", "listen", "mode", "done"} :
        LET found == Found(pooled, port, step)
            made == MadeBy(found.st, step)
            bound == Bound(made, made.socket[s].fd, found.addr.at, step) IN
        sk' \in CleanedUp(AddrUndone(Moded(bound, step), found.addr), s, Opened(step) /\ step # "done")
  <2>1. PICK port \in SK_Ports, step \in {"lookup", "open", "bind", "listen", "mode", "done"} :
         LET pooledS == SocketPooled(sk, s)
             found == AddrFilled(pooledS, Borrowing(pooledS.socket[s].pool),
                                 IF step = "lookup" THEN 0 ELSE port)
             opened == step \in {"bind", "listen", "mode", "done"}
             made == IF opened THEN SocketOpened(found.st, s, "new") ELSE found.st
             n == made.socket[s].fd
             bound == IF opened /\ step # "bind"
                      THEN [made EXCEPT !.fd[n].at = found.addr.at,
                              !.fd[n].state = IF Stream(s) /\ step # "listen"
                                              THEN "listening" ELSE "bound"]
                      ELSE made
             moded == IF step \in {"mode", "done"} /\ sk.socket[s].nonblock
                      THEN ModeSet(bound, s, TRUE, step = "done") ELSE bound IN
         /\ opened => sk.socket[s].type # "other"
         /\ opened /\ step # "bind" =>
              \A m \in DOMAIN sk.fd : sk.fd[m].at.port # port
         /\ step = "listen" => Stream(s)
         /\ step = "mode" => sk.socket[s].nonblock
         /\ sk' \in CleanedUp(AddrUndone(moded, found.addr), s, opened /\ step # "done")
    BY Zenon DEF SK_OfferService
  <2>2. LET found == Found(SocketPooled(sk, s), port, step)
            made == MadeBy(found.st, step)
            bound == Bound(made, made.socket[s].fd, found.addr.at, step) IN
        sk' \in CleanedUp(AddrUndone(Moded(bound, step), found.addr), s, Opened(step) /\ step # "done")
    BY <2>1, Zenon
  <2> HIDE DEF Moded, Bound, MadeBy, Found, Opened
  <2> QED BY <1>3, <2>2
<1>5. {} \subseteq {0} OBVIOUS
<1>6. Sound(pooled, {}) /\ PooledOf(pooled, sk, s) BY <1>2, <1>3, <1>5, Pooled
<1>7. Fits(pooled, {}, sk_count) /\ HasParts(pooled) /\ IsState(pooled) /\ pooled.socket[s].pool # 0
  <2>1. IsState(pooled) BY <1>6 DEF Sound
  <2>2. HasParts(pooled) BY <2>1, StateParts
  <2> QED BY <1>2, <1>6, <2>1, <2>2 DEF Fits, PooledOf
<1>8. PICK q : q = pooled.socket[s].pool OBVIOUS
<1>9. PICK found : found = Found(pooled, port, step) OBVIOUS
<1>10. found.st = pooled /\ ~AddrPoolOwned(found.addr) /\ IsPlace(found.addr.at) /\ found.addr.at.pool \in {0, q}
  <2>1. PICK p : p = IF step = "lookup" THEN 0 ELSE port OBVIOUS
  <2>2. found = AddrFilled(pooled, Borrowing(q), p) BY <1>8, <1>9, <2>1, Zenon
  <2>3. /\ found.st = pooled /\ ~AddrPoolOwned(found.addr)
        /\ found.addr.at = IF p = 0 THEN NoPlace ELSE [pool |-> q, port |-> p]
    BY <1>7, <2>2, Borrows
  <2>4. q \in Numbers
    <3>1. IsSocket(pooled.socket[s]) BY <1>7 DEF IsState
    <3> QED BY <1>8, <3>1 DEF IsSocket
  <2>5. IsPlace(found.addr.at) /\ found.addr.at.pool \in {0, q} BY <2>3, <2>4 DEF IsPlace, NoPlace, Numbers
  <2> QED BY <2>3, <2>5
<1> HIDE DEF Found
<1>11. PICK made : made = MadeBy(found.st, step) OBVIOUS
<1>12. PICK n : n = made.socket[s].fd OBVIOUS
<1>13. Fits(made, {}, sk_count + 1) /\ (Opened(step) => n \in DOMAIN made.fd /\ made.fd[n].pool = q)
  <2>1. CASE Opened(step)
    <3>1. made = SocketOpened(pooled, s, "new") BY <1>10, <1>11, <2>1
    <3> HIDE DEF Opened
    <3>2. /\ Fits(made, {}, sk_count + 1)
          /\ made.socket[s].fd \in DOMAIN made.fd /\ made.socket[s].pool = SocketPooled(pooled, s).socket[s].pool
      BY <1>2, <1>5, <1>7, <3>1, OpensAny
    <3>3. SocketPooled(pooled, s) = pooled BY <1>7 DEF SocketPooled
    <3>4. made.socket[s].pool = q BY <1>8, <3>2, <3>3
    <3>5. Inside(made) /\ IsState(made) BY <3>2 DEF Fits, Sound
    <3>6. n # 0 BY <1>12, <3>2, <3>5, Zero DEF IsState
    <3>7. made.fd[n].pool = q BY <1>12, <3>4, <3>5, <3>6 DEF Inside
    <3> QED BY <1>12, <3>2, <3>7
  <2>2. CASE ~Opened(step)
    <3>1. made = pooled BY <1>10, <1>11, <2>2
    <3> QED BY <1>2, <1>7, <2>2, <3>1, FitsMore
  <2> QED BY <2>1, <2>2
<1> HIDE DEF MadeBy
<1>14. PICK bound : bound = Bound(made, n, found.addr.at, step) OBVIOUS
<1>15. Fits(bound, {}, sk_count + 1)
  <2>1. CASE Opened(step) /\ step # "bind"
    <3>1. PICK at : at = found.addr.at OBVIOUS
    <3>2. PICK v : v = IF Stream(s) /\ step # "listen" THEN "listening" ELSE "bound" OBVIOUS
    <3>3. bound = [made EXCEPT !.fd[n].at = at, !.fd[n].state = v] BY <1>14, <2>1, <3>1, <3>2
    <3>4. Sound(made, {}) BY <1>13 DEF Fits
    <3>5. HasParts(made) BY <3>4, StateParts DEF Sound
    <3>6. PICK f : f = [made.fd EXCEPT ![n].at = at] OBVIOUS
    <3>7. PICK fd : fd = [f EXCEPT ![n].state = v] OBVIOUS
    <3>8. FdAs(made, fd)
      <4>1. FdAs(made, made.fd) BY <3>4, SameFd
      <4>2. n \in DOMAIN made.fd => at.pool \in {0, made.fd[n].pool} BY <1>10, <1>13, <2>1, <3>1
      <4>3. IsPlace(at) BY <1>10, <3>1
      <4>4. FdAs(made, f) BY <3>6, <4>1, <4>2, <4>3, SetAt
      <4> QED BY <3>7, <4>4, SetState
    <3>9. bound = [made EXCEPT !.fd = fd]
      <4>1. made = [socket |-> made.socket, addr |-> made.addr, fd |-> made.fd, pools |-> made.pools]
        BY <3>5 DEF HasParts
      <4>2. PICK t : t = [made EXCEPT !.fd[n].at = at] OBVIOUS
      <4>3. t = [socket |-> made.socket, addr |-> made.addr, fd |-> f, pools |-> made.pools]
        BY <3>6, <4>1, <4>2
      <4>4. bound = [t EXCEPT !.fd[n].state = v] BY <3>3, <4>2
      <4>5. bound = [socket |-> made.socket, addr |-> made.addr, fd |-> fd, pools |-> made.pools]
        BY ONLY <3>7, <4>3, <4>4
      <4>6. [made EXCEPT !.fd = fd] = [socket |-> made.socket, addr |-> made.addr, fd |-> fd, pools |-> made.pools]
        BY ONLY <4>1
      <4> QED BY <4>5, <4>6
    <3> QED BY <1>13, <3>8, <3>9, FdsAlone
  <2>2. CASE ~(Opened(step) /\ step # "bind") BY <1>13, <1>14, <2>2
  <2> QED BY <2>1, <2>2
<1>16. PICK moded : moded = Moded(bound, step) OBVIOUS
<1>17. Fits(moded, {}, sk_count + 1)
  <2>1. CASE step \in {"mode", "done"} /\ sk.socket[s].nonblock
    <3>1. moded = ModeSet(bound, s, TRUE, step = "done") BY <1>16, <2>1
    <3> QED BY <1>15, <3>1, Mode
  <2>2. CASE ~(step \in {"mode", "done"} /\ sk.socket[s].nonblock) BY <1>15, <1>16, <2>2
  <2> QED BY <2>1, <2>2
<1> HIDE DEF Bound, Moded, Opened
<1>18. AddrUndone(moded, found.addr) = moded BY <1>10 DEF AddrUndone
<1>19. sk' \in CleanedUp(moded, s, Opened(step) /\ step # "done")
  BY <1>4, <1>9, <1>11, <1>12, <1>14, <1>16, <1>18, Zenon
<1>20. Fits(sk', {}, sk_count + 1) BY <1>2, <1>17, <1>19, Cleans
<1> QED BY <1>1, <1>20, CallEnds

LEMMA SocketInit == SK_Init => SK_Inv
<1> SUFFICES ASSUME SK_Init PROVE SK_Inv OBVIOUS
<1> DEFINE g == [s \in SK_Sockets |-> NoSocket]
           ad == [a \in SK_Addrs |-> NoAddr]
<1>1. PICK f : f = <<>> OBVIOUS
<1>2. sk = [socket |-> g, addr |-> ad, fd |-> f, pools |-> {}] /\ sk_count = 0 BY <1>1 DEF SK_Init
<1>3. sk.socket = g /\ sk.addr = ad /\ sk.fd = f /\ sk.pools = {} BY <1>2
<1>4. DOMAIN f = {} /\ f = [n \in DOMAIN f |-> f[n]] BY <1>1
<1>5. IsSocket(NoSocket) /\ NoSocket.fd = 0 /\ NoSocket.pool = 0 BY DEF IsSocket, NoSocket, Numbers
<1>6. /\ IsAddr(NoAddr) /\ ~AddrPoolOwned(NoAddr) /\ NoAddr.pool = 0 /\ NoAddr.at = NoPlace
      /\ NoAddr.at.pool = 0 /\ ~NoAddr.borrowed /\ ~NoAddr.live
  BY NoAddrIs
<1>7. /\ g = [s \in SK_Sockets |-> g[s]] /\ \A s \in SK_Sockets : g[s] = NoSocket
      /\ ad = [a \in SK_Addrs |-> ad[a]] /\ \A a \in SK_Addrs : ad[a] = NoAddr
  OBVIOUS
<1> HIDE DEF g, ad
<1>8. IsState(sk)
  <2>1. sk = [socket |-> sk.socket, addr |-> sk.addr, fd |-> sk.fd, pools |-> sk.pools] BY <1>2, <1>3, Zenon
  <2>2. \A s \in SK_Sockets : IsSocket(sk.socket[s]) BY <1>3, <1>5, <1>7
  <2>3. \A a \in SK_Addrs : IsAddr(sk.addr[a]) BY <1>3, <1>6, <1>7
  <2>4. /\ DOMAIN sk.fd \subseteq SK_Pools /\ sk.pools \subseteq SK_Pools
        /\ \A n \in DOMAIN sk.fd : IsFd(sk.fd[n])
    BY <1>3, <1>4
  <2> QED BY <1>3, <1>4, <1>7, <2>1, <2>2, <2>3, <2>4, Zenon DEF IsState
<1>9. Owned(sk, {}) BY <1>3, <1>5, <1>6, <1>7 DEF Owned
<1>10. Inside(sk) BY <1>3, <1>4, <1>5, <1>6, <1>7 DEF Inside
<1>11. Cardinality(DOMAIN sk.fd) = 0 BY <1>3, <1>4, FS_EmptySet
<1> QED BY <1>2, <1>8, <1>9, <1>10, <1>11 DEF SK_Inv, Fits, Sound

LEMMA SocketStep == SK_Inv /\ [SK_Next]_sk_vars => SK_Inv'
<1> SUFFICES ASSUME SK_Inv, [SK_Next]_sk_vars PROVE SK_Inv' OBVIOUS
<1>1. CASE UNCHANGED sk_vars BY <1>1 DEF SK_Inv, sk_vars
<1>2. ASSUME NEW s \in SK_Sockets,
             \/ SK_SocketInit(s) \/ SK_SocketUndo(s) \/ SK_Open(s) \/ SK_Close(s)
             \/ SK_Connect(s) \/ SK_OfferService(s) \/ SK_Shutdown(s)
             \/ SK_SetNonblock(s) \/ SK_Send(s) \/ SK_Printf(s)
             \/ \E c \in SK_Sockets : SK_Accept(s, c)
             \/ \E a \in SK_Addrs : SK_RecvFrom(s, a)
      PROVE  SK_Inv'
  <2>1. CASE SK_SocketInit(s) BY <2>1, SocketInitKeeps
  <2>2. CASE SK_SocketUndo(s) BY <2>2, SocketUndoKeeps
  <2>3. CASE SK_Open(s) BY <2>3, OpenKeeps
  <2>4. CASE SK_Close(s) BY <2>4, CloseKeeps
  <2>5. CASE SK_Connect(s) BY <2>5, ConnectKeeps
  <2>6. CASE SK_OfferService(s) BY <2>6, OfferServiceKeeps
  <2>7. CASE SK_Shutdown(s) BY <2>7, ShutdownKeeps
  <2>8. CASE SK_SetNonblock(s) BY <2>8, SetNonblockKeeps
  <2>9. CASE SK_Send(s) BY <2>9, SendKeeps
  <2>10. CASE SK_Printf(s) BY <2>10, PrintfKeeps
  <2>11. CASE \E c \in SK_Sockets : SK_Accept(s, c) BY <2>11, AcceptKeeps
  <2>12. CASE \E a \in SK_Addrs : SK_RecvFrom(s, a) BY <2>12, RecvFromKeeps
  <2> QED BY <1>2, <2>1, <2>2, <2>3, <2>4, <2>5, <2>6, <2>7, <2>8, <2>9, <2>10, <2>11, <2>12
<1>3. ASSUME NEW a \in SK_Addrs,
             \/ SK_AddrInit(a) \/ SK_AddrUndo(a) \/ SK_Lookup(a)
             \/ \E b \in SK_Addrs : SK_InitForeach(a, b) \/ SK_Dup(a, b)
      PROVE  SK_Inv'
  <2>1. CASE SK_AddrInit(a) BY <2>1, AddrInitKeeps
  <2>2. CASE SK_AddrUndo(a) BY <2>2, AddrUndoKeeps
  <2>3. CASE SK_Lookup(a) BY <2>3, LookupKeeps
  <2>4. CASE \E b \in SK_Addrs : SK_InitForeach(a, b) \/ SK_Dup(a, b) BY <2>4, InitForeachKeeps, DupKeeps
  <2> QED BY <1>3, <2>1, <2>2, <2>3, <2>4
<1> QED BY <1>1, <1>2, <1>3 DEF SK_Next

Owners(p) == {s \in SK_Sockets : sk.socket[s].pool = p}
               \cup {a \in SK_Addrs : sk.addr[a].pool = p /\ ~sk.addr[a].borrowed}

LEMMA OneOwner ==
  ASSUME SK_Inv, NEW p \in SK_Pools
  PROVE  IF p \in sk.pools THEN Cardinality(Owners(p)) = 1 ELSE Owners(p) = {}
<1>1. IsState(sk) /\ Owned(sk, {}) BY DEF SK_Inv, Fits, Sound
<1>2. p # 0 BY Zero
<1>3. CASE p \in sk.pools
  <2>1. \/ \E s \in SK_Sockets : sk.socket[s].pool = p
        \/ \E a \in SK_Addrs : AddrPoolOwned(sk.addr[a]) /\ sk.addr[a].pool = p
    BY <1>1, <1>3 DEF Owned
  <2>2. CASE \E s \in SK_Sockets : sk.socket[s].pool = p
    <3>1. PICK s \in SK_Sockets : sk.socket[s].pool = p BY <2>2
    <3>2. \A u \in SK_Sockets : sk.socket[u].pool = p => u = s BY <1>1, <1>2, <3>1 DEF Owned
    <3>3. \A a \in SK_Addrs : ~(sk.addr[a].pool = p /\ ~sk.addr[a].borrowed)
      BY <1>1, <1>2, <3>1 DEF Owned, AddrPoolOwned
    <3>4. Owners(p) = {s} BY <3>1, <3>2, <3>3 DEF Owners
    <3> QED BY <1>3, <3>4, FS_Singleton
  <2>3. CASE \E a \in SK_Addrs : AddrPoolOwned(sk.addr[a]) /\ sk.addr[a].pool = p
    <3>1. PICK a \in SK_Addrs : AddrPoolOwned(sk.addr[a]) /\ sk.addr[a].pool = p BY <2>3
    <3>2. \A b \in SK_Addrs : sk.addr[b].pool = p /\ ~sk.addr[b].borrowed => b = a
      BY <1>1, <1>2, <3>1 DEF Owned, AddrPoolOwned
    <3>3. \A s \in SK_Sockets : sk.socket[s].pool # p BY <1>1, <3>1 DEF Owned
    <3>4. ~sk.addr[a].borrowed BY <3>1 DEF AddrPoolOwned
    <3>5. Owners(p) = {a} BY <3>1, <3>2, <3>3, <3>4 DEF Owners
    <3> QED BY <1>3, <3>5, FS_Singleton
  <2> QED BY <2>1, <2>2, <2>3
<1>4. CASE p \notin sk.pools
  <2>1. \A s \in SK_Sockets : sk.socket[s].pool # p BY <1>1, <1>2, <1>4 DEF Owned
  <2>2. \A a \in SK_Addrs : ~(sk.addr[a].pool = p /\ ~sk.addr[a].borrowed)
    BY <1>1, <1>2, <1>4 DEF Owned, AddrPoolOwned
  <2> QED BY <1>4, <2>1, <2>2 DEF Owners
<1> QED BY <1>3, <1>4

LEMMA DanglesNot == SK_Inv => SK_NothingDangles
<1> SUFFICES ASSUME SK_Inv PROVE SK_NothingDangles OBVIOUS
<1>1. IsState(sk) /\ Inside(sk) BY DEF SK_Inv, Fits, Sound
<1>2. \A s \in SK_Sockets : IsOpen(s) =>
        /\ sk.socket[s].fd \in DOMAIN sk.fd
        /\ sk.fd[sk.socket[s].fd].pool = sk.socket[s].pool
  BY <1>1 DEF Inside, IsOpen
<1>3. \A p \in SK_Pools : IF p \in sk.pools THEN Cardinality(Owners(p)) = 1 ELSE Owners(p) = {}
  BY OneOwner
<1>4. \A n \in DOMAIN sk.fd : {sk.fd[n].pool, sk.fd[n].at.pool} \subseteq sk.pools \cup {0} BY <1>1 DEF Inside
<1>5. \A a \in SK_Addrs : {sk.addr[a].pool, sk.addr[a].at.pool} \subseteq sk.pools \cup {0} BY <1>1 DEF Inside
<1> QED BY <1>2, <1>3, <1>4, <1>5, Zenon DEF SK_NothingDangles, Owners

\* Whatever fails half way, no structure and no bound socket points into a pool that
\* is gone, a socket's descriptor lives in its own pool, and each pool has exactly one
\* structure that destroys it: for any sockets, addresses and ports.
THEOREM NothingDangles == SK_Spec => []SK_NothingDangles
<1>1. SK_Init => SK_Inv BY SocketInit
<1>2. SK_Inv /\ [SK_Next]_sk_vars => SK_Inv' BY SocketStep
<1>3. SK_Inv => SK_NothingDangles BY DanglesNot
<1> QED BY <1>1, <1>2, <1>3, PTL DEF SK_Spec

-----------------------------------------------------------------------------
(* epoll made of select.                                                   *)

EventOf == [fd : EP_Fds, styles : SUBSET Styles, data : EP_Data]

(* The list has one event for each descriptor the client has, with what    *)
(* the client said last.                                                   *)
Lists(list, client) ==
  /\ list \in Seq(EventOf)
  /\ \A i, j \in DOMAIN list : list[i].fd = list[j].fd => i = j
  /\ DOMAIN client = {list[i].fd : i \in DOMAIN list}
  /\ \A i \in DOMAIN list :
       client[list[i].fd] = [styles |-> list[i].styles, data |-> list[i].data]

EP_Inv == Lists(ep_list, ep_client) /\ EP_ReportsEachOnce

(* The members of a finite set of numbers are counted in their order.      *)
LEMMA NthIsMember ==
  ASSUME NEW given \in SUBSET Nat, IsFiniteSet(given)
  PROVE  /\ Cardinality(given) \in Nat
         /\ \A n \in 1 .. Cardinality(given) : Nth(given, n) \in given
         /\ \A m, n \in 1 .. Cardinality(given) : Nth(given, m) = Nth(given, n) => m = n
         /\ \A i \in given : \E n \in 1 .. Cardinality(given) : Nth(given, n) = i
<1> DEFINE Upto(i) == {j \in given : j <= i}
           rank == [i \in given |-> Cardinality(Upto(i))]
           N == Cardinality(given)
           image == {rank[i] : i \in given}
<1>1. N \in Nat
  BY FS_CardinalityType
<1>2. ASSUME NEW i \in given
      PROVE  /\ IsFiniteSet(Upto(i)) /\ rank[i] = Cardinality(Upto(i))
             /\ rank[i] \in 1 .. N
  <2>1. IsFiniteSet(Upto(i)) /\ Cardinality(Upto(i)) <= N
    <3>1. Upto(i) \subseteq given
      OBVIOUS
    <3> QED BY <3>1, FS_Subset
  <2>2. Cardinality(Upto(i)) \in Nat
    BY <2>1, FS_CardinalityType
  <2>3. Cardinality(Upto(i)) # 0
    <3>1. i \in Upto(i)
      OBVIOUS
    <3> HIDE DEF Upto
    <3> QED BY <2>1, <3>1, FS_EmptySet
  <2>4. rank[i] = Cardinality(Upto(i))
    OBVIOUS
  <2> HIDE DEF rank, Upto, N
  <2> QED BY <1>1, <2>1, <2>2, <2>3, <2>4 DEF N
<1>3. ASSUME NEW i \in given, NEW k \in given, i < k
      PROVE  rank[i] < rank[k]
  <2>1. Upto(i) \subseteq Upto(k) /\ Upto(i) # Upto(k)
    <3>1. k \in Upto(k) /\ k \notin Upto(i)
      BY <1>3
    <3>2. Upto(i) \subseteq Upto(k)
      <4> SUFFICES ASSUME NEW j \in given, j <= i PROVE j <= k
        OBVIOUS
      <4> QED BY <1>3
    <3> HIDE DEF Upto
    <3> QED BY <3>1, <3>2
  <2>2. IsFiniteSet(Upto(k)) /\ rank[k] = Cardinality(Upto(k)) /\ rank[i] = Cardinality(Upto(i))
        /\ rank[i] \in 1 .. N /\ rank[k] \in 1 .. N
    BY <1>2
  <2> HIDE DEF Upto, rank, N
  <2>3. Cardinality(Upto(i)) <= Cardinality(Upto(k))
        /\ (Cardinality(Upto(i)) = Cardinality(Upto(k)) => Upto(i) = Upto(k))
    BY <2>1, <2>2, FS_Subset
  <2> QED BY <1>1, <2>1, <2>2, <2>3
<1>4. \A i, k \in given : rank[i] = rank[k] => i = k
  <2> SUFFICES ASSUME NEW i \in given, NEW k \in given, rank[i] = rank[k] PROVE i = k
    OBVIOUS
  <2>1. rank[i] \in 1 .. N /\ rank[k] \in 1 .. N
    BY <1>2
  <2>2. ~(i < k) /\ ~(k < i)
    <3> HIDE DEF rank, N
    <3> QED BY <1>1, <1>3, <2>1
  <2>3. i \in Nat /\ k \in Nat
    OBVIOUS
  <2> QED BY <2>2, <2>3
<1>5. image = 1 .. N
  <2>1. rank \in Bijection(given, image)
    <3>1. rank \in [given -> image]
      OBVIOUS
    <3>2. \A y \in image : \E i \in given : rank[i] = y
      OBVIOUS
    <3> HIDE DEF rank, image
    <3> QED BY <1>4, <3>1, <3>2 DEF Bijection, Injection, Surjection, IsInjective
  <2>2. IsFiniteSet(image) /\ Cardinality(image) = N
    <3> HIDE DEF rank, image
    <3> QED BY <2>1, FS_Bijection DEF ExistsBijection
  <2>3. image \subseteq 1 .. N
    BY <1>2
  <2>4. IsFiniteSet(1 .. N) /\ Cardinality(1 .. N) = N
    <3> HIDE DEF N
    <3> QED BY <1>1, FS_Interval
  <2> HIDE DEF image, N
  <2> QED BY <2>2, <2>3, <2>4, FS_Subset
<1>6. ASSUME NEW n \in 1 .. N
      PROVE  Nth(given, n) \in given /\ rank[Nth(given, n)] = n
  <2>1. n \in image
    BY <1>5
  <2>2. \E i \in given : rank[i] = n
    BY <2>1
  <2>3. \E i \in given : Cardinality({j \in given : j <= i}) = n
    BY <2>2
  <2> QED BY <2>3 DEF Nth
<1>7. ASSUME NEW i \in given
      PROVE  rank[i] \in 1 .. N /\ Nth(given, rank[i]) = i
  <2>1. rank[i] \in 1 .. N
    BY <1>2
  <2>2. Nth(given, rank[i]) \in given /\ rank[Nth(given, rank[i])] = rank[i]
    BY <1>6, <2>1
  <2> HIDE DEF rank, N
  <2> QED BY <1>4, <2>1, <2>2
<1> HIDE DEF rank
<1> QED
  BY <1>1, <1>6, <1>7

(* What select has left is reported once for each of its descriptors.      *)
LEMMA ReportsEach ==
  ASSUME NEW list, NEW client, Lists(list, client),
         NEW ready \in SUBSET Asked(list)
  PROVE  ReportsTrue([asked |-> Asked(list), ready |-> ready, status |-> "done",
                      events |-> Reported(list, ready)], client)
<1> DEFINE fds == {fd \in DOMAIN client : \E s \in Styles : <<fd, s>> \in ready}
           ways(fd) == {s \in Styles : <<fd, s>> \in ready}
           due(fd) == [data |-> client[fd].data, styles |-> ways(fd)]
           given == Given(list, ready)
           N == Cardinality(given)
           at(n) == list[Nth(given, n)].fd
           events == Reported(list, ready)
<1>1. DOMAIN list = 1 .. Len(list) /\ Len(list) \in Nat
  BY DEF Lists
<1>2. given \in SUBSET Nat /\ given \subseteq DOMAIN list /\ IsFiniteSet(given)
  <2>1. given \subseteq 1 .. Len(list)
    BY <1>1 DEF Given
  <2>2. IsFiniteSet(1 .. Len(list))
    BY <1>1, FS_Interval
  <2>3. 1 .. Len(list) \subseteq Nat
    BY <1>1
  <2> HIDE DEF given
  <2> QED BY <1>1, <2>1, <2>2, <2>3, FS_Subset
<1>3. /\ N \in Nat
      /\ \A n \in 1 .. N : Nth(given, n) \in given
      /\ \A m, n \in 1 .. N : Nth(given, m) = Nth(given, n) => m = n
      /\ \A i \in given : \E n \in 1 .. N : Nth(given, n) = i
  <2> HIDE DEF given
  <2> QED BY <1>2, NthIsMember
<1>4. ASSUME NEW i \in DOMAIN list
      PROVE  /\ list[i].fd \in DOMAIN client
             /\ client[list[i].fd].styles = list[i].styles
             /\ client[list[i].fd].data = list[i].data
  <2>1. client[list[i].fd] = [styles |-> list[i].styles, data |-> list[i].data]
    BY DEF Lists
  <2>2. list[i].fd \in DOMAIN client
    BY DEF Lists
  <2> QED BY <2>1, <2>2
<1>5. ASSUME NEW n \in 1 .. N
      PROVE  at(n) \in fds /\ events[n] = due(at(n))
  <2>1. Nth(given, n) \in given /\ Nth(given, n) \in DOMAIN list
    BY <1>2, <1>3
  <2>2. \E s \in Styles : <<at(n), s>> \in ready
    BY <2>1 DEF Given
  <2>3. at(n) \in fds
    BY <1>4, <2>1, <2>2
  <2>4. events[n] = [data |-> list[Nth(given, n)].data, styles |-> ways(at(n))]
    BY <1>3 DEF Reported
  <2> QED BY <1>4, <2>1, <2>3, <2>4
<1>6. \A m, n \in 1 .. N : at(m) = at(n) => m = n
  <2> SUFFICES ASSUME NEW m \in 1 .. N, NEW n \in 1 .. N, at(m) = at(n) PROVE m = n
    OBVIOUS
  <2>1. Nth(given, m) \in DOMAIN list /\ Nth(given, n) \in DOMAIN list
    BY <1>2, <1>3
  <2>2. Nth(given, m) = Nth(given, n)
    BY <2>1 DEF Lists
  <2> QED BY <1>3, <2>2
<1>7. \A fd \in fds : \E n \in 1 .. N : at(n) = fd
  <2> SUFFICES ASSUME NEW fd \in fds PROVE \E n \in 1 .. N : at(n) = fd
    OBVIOUS
  <2>1. PICK i \in DOMAIN list : list[i].fd = fd
    BY DEF Lists
  <2>2. i \in given
    BY <2>1 DEF Given
  <2>3. PICK n \in 1 .. N : Nth(given, n) = i
    BY <1>3, <2>2
  <2> QED BY <2>1, <2>3
<1>8. DOMAIN events = 1 .. N /\ Len(events) = N
  <2>1. events = [n \in 1 .. N |-> events[n]]
    BY DEF Reported
  <2> HIDE DEF events, N
  <2> QED BY <1>3, <2>1
<1> DEFINE F == [n \in 1 .. N |-> at(n)]
<1>9. ASSUME NEW fd \in fds
      PROVE  Cardinality({i \in DOMAIN events : events[i] = due(fd)})
               = Cardinality({f \in fds : due(f) = due(fd)})
  <2> DEFINE A == {i \in DOMAIN events : events[i] = due(fd)}
             B == {f \in fds : due(f) = due(fd)}
             G == [n \in A |-> at(n)]
  <2>1. A \subseteq 1 .. N /\ \A n \in 1 .. N : n \in A <=> at(n) \in B
    <3> HIDE DEF due, events, at, fds, N
    <3> QED BY <1>5, <1>8
  <2>2. IsFiniteSet(A)
    <3>1. IsFiniteSet(1 .. N)
      <4> HIDE DEF N
      <4> QED BY <1>3, FS_Interval
    <3> HIDE DEF A, N
    <3> QED BY <2>1, <3>1, FS_Subset
  <2>3. G \in Bijection(A, B)
    <3> HIDE DEF at, fds, due, events, N
    <3>1. G \in [A -> B]
      <4> HIDE DEF A, B
      <4> QED BY <2>1
    <3>2. \A m, n \in A : G[m] = G[n] => m = n
      <4> HIDE DEF A, B
      <4> QED BY <1>6, <2>1
    <3>3. \A f \in B : \E n \in A : G[n] = f
      <4> SUFFICES ASSUME NEW f \in B PROVE \E n \in A : G[n] = f
        OBVIOUS
      <4>1. PICK n \in 1 .. N : at(n) = f
        BY <1>7
      <4> HIDE DEF A, B
      <4> QED BY <2>1, <4>1
    <3> HIDE DEF G, A, B
    <3> QED BY <3>1, <3>2, <3>3 DEF Bijection, Injection, Surjection, IsInjective
  <2> HIDE DEF G, A, B
  <2> QED BY <2>2, <2>3, FS_Bijection DEF ExistsBijection, A, B
<1>10. N = Cardinality(fds)
  <2> HIDE DEF at, fds
  <2>1. F \in [1 .. N -> fds] /\ \A n \in 1 .. N : F[n] = at(n)
    BY <1>5
  <2>2. F \in Bijection(1 .. N, fds)
    <3> HIDE DEF F, N
    <3> QED BY <1>6, <1>7, <2>1 DEF Bijection, Injection, Surjection, IsInjective
  <2>3. IsFiniteSet(1 .. N) /\ Cardinality(1 .. N) = N
    <3> HIDE DEF N
    <3> QED BY <1>3, FS_Interval
  <2> HIDE DEF F, N
  <2> QED BY <2>2, <2>3, FS_Bijection DEF ExistsBijection
<1>11. Asked(list) = UNION {{fd} \X client[fd].styles : fd \in DOMAIN client}
  <2> DEFINE R == UNION {{fd} \X client[fd].styles : fd \in DOMAIN client}
  <2>1. ASSUME NEW x \in Asked(list) PROVE x \in R
    <3>1. PICK i \in DOMAIN list : \E s \in list[i].styles : x = <<list[i].fd, s>>
      BY DEF Asked
    <3>2. PICK s \in list[i].styles : x = <<list[i].fd, s>>
      BY <3>1
    <3>3. x \in {list[i].fd} \X client[list[i].fd].styles
      BY <1>4, <3>2
    <3> QED BY <1>4, <3>3
  <2>2. ASSUME NEW x \in R PROVE x \in Asked(list)
    <3>1. PICK fd \in DOMAIN client : x \in {fd} \X client[fd].styles
      OBVIOUS
    <3>2. PICK i \in DOMAIN list : list[i].fd = fd
      BY DEF Lists
    <3>3. client[fd].styles = list[i].styles
      BY <1>4, <3>2
    <3>4. PICK s \in list[i].styles : x = <<list[i].fd, s>>
      BY <3>1, <3>2, <3>3
    <3> QED BY <3>4 DEF Asked
  <2> QED BY <2>1, <2>2
<1> DEFINE wait == [asked |-> Asked(list), ready |-> ready, status |-> "done", events |-> events]
<1>12. wait.asked = Asked(list) /\ wait.ready = ready /\ wait.events = events
  BY DEF wait
<1>13. Len(events) = Cardinality(fds)
  BY <1>8, <1>10
<1> HIDE DEF wait
<1>14. ReportsTrue(wait, client)
  <2> DEFINE f == {fd \in DOMAIN client : \E s \in Styles : <<fd, s>> \in wait.ready}
             d(fd) == [data |-> client[fd].data, styles |-> {s \in Styles : <<fd, s>> \in wait.ready}]
  <2>1. f = fds /\ \A fd \in fds : d(fd) = due(fd)
    BY <1>12
  <2>2. ASSUME NEW fd \in f
        PROVE  Cardinality({i \in DOMAIN wait.events : wait.events[i] = d(fd)})
                 = Cardinality({g \in f : d(g) = d(fd)})
    <3> HIDE DEF f, d, fds, due, events
    <3>1. {i \in DOMAIN wait.events : wait.events[i] = d(fd)}
            = {n \in DOMAIN events : events[n] = due(fd)}
      BY <1>12, <2>1
    <3>2. {g \in f : d(g) = d(fd)} = {g \in fds : due(g) = due(fd)}
      BY <2>1
    <3>3. fd \in fds
      BY <2>1
    <3> QED BY <1>9, <3>1, <3>2, <3>3
  <2>3. Len(wait.events) = Cardinality(f)
    BY <1>12, <1>13
  <2>4. wait.asked = UNION {{fd} \X client[fd].styles : fd \in DOMAIN client}
    BY <1>11, <1>12
  <2> HIDE DEF f, d
  <2> QED BY <2>2, <2>3, <2>4 DEF ReportsTrue, f, d
<1> QED
  BY <1>14 DEF wait

LEMMA EP_AddKeeps ==
  ASSUME EP_Inv, EP_Add PROVE EP_Inv'
<1>1. PICK fd \in EP_Fds, styles \in SUBSET Styles, data \in EP_Data :
        /\ ep_list' = WithEvent(ep_list, [fd |-> fd, styles |-> styles, data |-> data])
        /\ ep_client' = [f \in DOMAIN ep_client \cup {fd} |->
                           IF f = fd THEN [styles |-> styles, data |-> data] ELSE ep_client[f]]
  BY DEF EP_Add
<1> DEFINE event == [fd |-> fd, styles |-> styles, data |-> data]
<1>2. event \in EventOf /\ event.fd = fd /\ event.styles = styles /\ event.data = data
  BY DEF EventOf
<1> HIDE DEF event
<1>3. /\ ep_list \in Seq(EventOf)
      /\ \A i, j \in DOMAIN ep_list : ep_list[i].fd = ep_list[j].fd => i = j
      /\ DOMAIN ep_client = {ep_list[i].fd : i \in DOMAIN ep_list}
      /\ \A i \in DOMAIN ep_list :
           ep_client[ep_list[i].fd] = [styles |-> ep_list[i].styles, data |-> ep_list[i].data]
  BY DEF EP_Inv, Lists
<1>4. ep_list' = WithEvent(ep_list, event)
  BY <1>1 DEF event
<1>5. DOMAIN ep_client' = DOMAIN ep_client \cup {fd}
  BY <1>1
<1>6. \A f \in DOMAIN ep_client' :
        ep_client'[f] = IF f = fd THEN [styles |-> styles, data |-> data] ELSE ep_client[f]
  BY <1>1
<1>7. Lists(ep_list, ep_client)'
  <2>1. CASE \E i \in DOMAIN ep_list : ep_list[i].fd = fd
    <3>1. ep_list' = [i \in DOMAIN ep_list |-> IF ep_list[i].fd = fd THEN event ELSE ep_list[i]]
      BY <1>2, <1>4, <2>1 DEF WithEvent
    <3>2. ep_list' \in Seq(EventOf) /\ DOMAIN ep_list' = DOMAIN ep_list
      BY <1>2, <1>3, <3>1
    <3>3. ASSUME NEW i \in DOMAIN ep_list
          PROVE  /\ ep_list'[i].fd = ep_list[i].fd
                 /\ ep_client'[ep_list'[i].fd]
                      = [styles |-> ep_list'[i].styles, data |-> ep_list'[i].data]
      <4>1. CASE ep_list[i].fd = fd
        <5>1. ep_list'[i] = event
          BY <3>1, <4>1
        <5>2. ep_client'[fd] = [styles |-> styles, data |-> data]
          BY <1>5, <1>6
        <5> QED BY <1>2, <4>1, <5>1, <5>2
      <4>2. CASE ep_list[i].fd # fd
        <5>1. ep_list'[i] = ep_list[i]
          BY <3>1, <4>2
        <5>2. ep_list[i].fd \in DOMAIN ep_client
          BY <1>3
        <5>3. ep_client'[ep_list[i].fd] = ep_client[ep_list[i].fd]
          BY <1>5, <1>6, <4>2, <5>2
        <5> QED BY <1>3, <5>1, <5>3
      <4> QED BY <4>1, <4>2
    <3>4. DOMAIN ep_client' = {ep_list'[i].fd : i \in DOMAIN ep_list'}
      <4>1. fd \in DOMAIN ep_client
        BY <1>3, <2>1
      <4>2. DOMAIN ep_client' = DOMAIN ep_client
        BY <1>5, <4>1
      <4>3. {ep_list'[i].fd : i \in DOMAIN ep_list'} = {ep_list[i].fd : i \in DOMAIN ep_list}
        <5>1. \A i \in DOMAIN ep_list : ep_list'[i].fd = ep_list[i].fd
          BY <3>3
        <5> QED BY <3>2, <5>1
      <4> QED BY <1>3, <4>2, <4>3
    <3>5. \A i, j \in DOMAIN ep_list' : ep_list'[i].fd = ep_list'[j].fd => i = j
      BY <1>3, <3>2, <3>3
    <3> QED BY <3>2, <3>3, <3>4, <3>5 DEF Lists
  <2>2. CASE ~\E i \in DOMAIN ep_list : ep_list[i].fd = fd
    <3>1. ep_list' = Append(ep_list, event)
      BY <1>2, <1>4, <2>2 DEF WithEvent
    <3>2. /\ ep_list' \in Seq(EventOf)
          /\ Len(ep_list) \in Nat /\ DOMAIN ep_list = 1 .. Len(ep_list)
          /\ DOMAIN ep_list' = 1 .. Len(ep_list) + 1
          /\ ep_list'[Len(ep_list) + 1] = event
          /\ \A i \in 1 .. Len(ep_list) : ep_list'[i] = ep_list[i]
      BY <1>2, <1>3, <3>1
    <3>3. ASSUME NEW i \in DOMAIN ep_list'
          PROVE  ep_client'[ep_list'[i].fd]
                   = [styles |-> ep_list'[i].styles, data |-> ep_list'[i].data]
      <4>1. CASE i = Len(ep_list) + 1
        <5>1. ep_client'[fd] = [styles |-> styles, data |-> data]
          BY <1>5, <1>6
        <5> QED BY <1>2, <3>2, <4>1, <5>1
      <4>2. CASE i \in 1 .. Len(ep_list)
        <5>1. ep_list'[i] = ep_list[i] /\ ep_list[i].fd # fd /\ ep_list[i].fd \in DOMAIN ep_client
          BY <1>3, <2>2, <3>2, <4>2
        <5>2. ep_client'[ep_list[i].fd] = ep_client[ep_list[i].fd]
          BY <1>5, <1>6, <5>1
        <5> QED BY <1>3, <3>2, <4>2, <5>1, <5>2
      <4> QED BY <3>2, <4>1, <4>2
    <3>4. DOMAIN ep_client' = {ep_list'[i].fd : i \in DOMAIN ep_list'}
      <4>1. ASSUME NEW f \in DOMAIN ep_client' PROVE \E i \in DOMAIN ep_list' : f = ep_list'[i].fd
        <5>1. CASE f = fd
          BY <1>2, <3>2, <5>1
        <5>2. CASE f \in DOMAIN ep_client
          BY <1>3, <3>2, <5>2
        <5> QED BY <1>5, <5>1, <5>2
      <4>2. ASSUME NEW i \in DOMAIN ep_list' PROVE ep_list'[i].fd \in DOMAIN ep_client'
        <5>1. CASE i = Len(ep_list) + 1
          BY <1>2, <1>5, <3>2, <5>1
        <5>2. CASE i \in 1 .. Len(ep_list)
          BY <1>3, <1>5, <3>2, <5>2
        <5> QED BY <3>2, <5>1, <5>2
      <4> QED BY <4>1, <4>2
    <3>5. \A i, j \in DOMAIN ep_list' : ep_list'[i].fd = ep_list'[j].fd => i = j
      <4> SUFFICES ASSUME NEW i \in DOMAIN ep_list', NEW j \in DOMAIN ep_list',
                          ep_list'[i].fd = ep_list'[j].fd
                   PROVE  i = j
        OBVIOUS
      <4>1. CASE i \in 1 .. Len(ep_list) /\ j \in 1 .. Len(ep_list)
        BY <1>3, <3>2, <4>1
      <4>2. CASE i = Len(ep_list) + 1
        BY <1>2, <2>2, <3>2, <4>2
      <4>3. CASE j = Len(ep_list) + 1
        BY <1>2, <2>2, <3>2, <4>3
      <4> QED BY <3>2, <4>1, <4>2, <4>3
    <3> QED BY <3>2, <3>3, <3>4, <3>5 DEF Lists
  <2> QED BY <2>1, <2>2
<1>8. EP_ReportsEachOnce'
  BY DEF EP_Add, EP_ReportsEachOnce, NoWait
<1> QED
  BY <1>7, <1>8 DEF EP_Inv

LEMMA EP_DeleteKeeps ==
  ASSUME EP_Inv, EP_Delete PROVE EP_Inv'
<1>1. PICK fd \in EP_Fds :
        /\ ep_list' =
             LET at == {i \in DOMAIN ep_list : ep_list[i].fd = fd}
                 first == CHOOSE i \in at : \A j \in at : i <= j
             IN IF at = {} THEN ep_list
                ELSE SubSeq(ep_list, 1, first - 1) \o SubSeq(ep_list, first + 1, Len(ep_list))
        /\ ep_client' = [f \in DOMAIN ep_client \ {fd} |-> ep_client[f]]
  BY DEF EP_Delete
<1>2. /\ ep_list \in Seq(EventOf)
      /\ \A i, j \in DOMAIN ep_list : ep_list[i].fd = ep_list[j].fd => i = j
      /\ DOMAIN ep_client = {ep_list[i].fd : i \in DOMAIN ep_list}
      /\ \A i \in DOMAIN ep_list :
           ep_client[ep_list[i].fd] = [styles |-> ep_list[i].styles, data |-> ep_list[i].data]
      /\ Len(ep_list) \in Nat /\ DOMAIN ep_list = 1 .. Len(ep_list)
  BY DEF EP_Inv, Lists
<1>3. /\ DOMAIN ep_client' = DOMAIN ep_client \ {fd}
      /\ \A f \in DOMAIN ep_client' : ep_client'[f] = ep_client[f]
  BY <1>1
<1>4. Lists(ep_list, ep_client)'
  <2>1. CASE {i \in DOMAIN ep_list : ep_list[i].fd = fd} = {}
    <3>1. ep_list' = ep_list
      BY <1>1, <2>1
    <3>2. fd \notin DOMAIN ep_client
      BY <1>2, <2>1
    <3>3. DOMAIN ep_client' = DOMAIN ep_client
      BY <1>3, <3>2
    <3>4. \A i \in DOMAIN ep_list : ep_client'[ep_list[i].fd] = ep_client[ep_list[i].fd]
      BY <1>2, <1>3, <3>3
    <3> QED BY <1>2, <3>1, <3>3, <3>4 DEF Lists
  <2>2. CASE {i \in DOMAIN ep_list : ep_list[i].fd = fd} # {}
    <3> DEFINE at == {i \in DOMAIN ep_list : ep_list[i].fd = fd}
               first == CHOOSE i \in at : \A j \in at : i <= j
               L == Len(ep_list)
    <3>1. PICK k \in DOMAIN ep_list : ep_list[k].fd = fd
      BY <2>2
    <3>2. \A i \in at : i = k
      BY <1>2, <3>1
    <3>3. k \in at /\ \A j \in at : k <= j
      BY <1>2, <3>1, <3>2
    <3>4. first = k
      <4> HIDE DEF at
      <4> QED BY <3>2, <3>3
    <3>5. ep_list' = SubSeq(ep_list, 1, k - 1) \o SubSeq(ep_list, k + 1, L)
      <4>1. ep_list' = SubSeq(ep_list, 1, first - 1) \o SubSeq(ep_list, first + 1, L)
        BY <1>1, <2>2
      <4> HIDE DEF first
      <4> QED BY <3>4, <4>1
    <3>6. k \in 1 .. L /\ L \in Nat
      BY <1>2
    <3> DEFINE back(i) == IF i < k THEN i ELSE i + 1
    <3>7. /\ ep_list' \in Seq(EventOf) /\ DOMAIN ep_list' = 1 .. L - 1
          /\ \A i \in 1 .. L - 1 : back(i) \in 1 .. L /\ back(i) # k /\ ep_list'[i] = ep_list[back(i)]
      <4>1. /\ SubSeq(ep_list, 1, k - 1) \in Seq(EventOf) /\ Len(SubSeq(ep_list, 1, k - 1)) = k - 1
            /\ \A i \in 1 .. k - 1 : SubSeq(ep_list, 1, k - 1)[i] = ep_list[i]
        BY <1>2, <3>6
      <4>2. /\ SubSeq(ep_list, k + 1, L) \in Seq(EventOf) /\ Len(SubSeq(ep_list, k + 1, L)) = L - k
            /\ \A i \in 1 .. L - k : SubSeq(ep_list, k + 1, L)[i] = ep_list[i + k]
        <5>1. k + 1 \in Int /\ L \in Int /\ \A i \in k + 1 .. L : ep_list[i] \in EventOf
          BY <1>2, <3>6
        <5>2. /\ SubSeq(ep_list, k + 1, L) \in Seq(EventOf)
              /\ Len(SubSeq(ep_list, k + 1, L)) = (IF k + 1 <= L THEN L - (k + 1) + 1 ELSE 0)
              /\ \A i \in 1 .. L - (k + 1) + 1 : SubSeq(ep_list, k + 1, L)[i] = ep_list[(k + 1) + i - 1]
          <6> HIDE DEF L
          <6> QED BY <5>1, SubSeqProperties
        <5> HIDE DEF L
        <5> QED BY <3>6, <5>2
      <4>3. /\ ep_list' \in Seq(EventOf) /\ Len(ep_list') = L - 1
            /\ \A i \in 1 .. L - 1 : ep_list'[i] = IF i < k THEN ep_list[i] ELSE ep_list[i + 1]
        <5> DEFINE a == SubSeq(ep_list, 1, k - 1)
                   b == SubSeq(ep_list, k + 1, L)
        <5>1. /\ ep_list' = a \o b /\ a \in Seq(EventOf) /\ b \in Seq(EventOf)
              /\ Len(a) = k - 1 /\ Len(b) = L - k
              /\ \A i \in 1 .. k - 1 : a[i] = ep_list[i]
              /\ \A i \in 1 .. L - k : b[i] = ep_list[i + k]
          BY <3>5, <4>1, <4>2
        <5> HIDE DEF a, b, L
        <5>0. /\ a \o b \in Seq(EventOf) /\ Len(a \o b) = Len(a) + Len(b)
              /\ \A i \in 1 .. Len(a) + Len(b) :
                   (a \o b)[i] = IF i <= Len(a) THEN a[i] ELSE b[i - Len(a)]
          BY <5>1, ConcatProperties
        <5>2. /\ ep_list' \in Seq(EventOf) /\ Len(ep_list') = L - 1
              /\ \A i \in 1 .. L - 1 : ep_list'[i] = IF i <= k - 1 THEN a[i] ELSE b[i - (k - 1)]
          <6>1. (k - 1) + (L - k) = L - 1
            BY <3>6
          <6> QED BY <5>0, <5>1, <6>1
        <5>3. \A i \in 1 .. L - 1 : i > k - 1 => i - (k - 1) \in 1 .. L - k /\ (i - (k - 1)) + k = i + 1
          BY <3>6
        <5>4. \A i \in 1 .. L - 1 : i <= k - 1 => i \in 1 .. k - 1 /\ i < k
          BY <3>6
        <5>5. ASSUME NEW i \in 1 .. L - 1
              PROVE  ep_list'[i] = IF i < k THEN ep_list[i] ELSE ep_list[i + 1]
          <6>1. CASE i <= k - 1
            BY <5>1, <5>2, <5>4, <6>1
          <6>2. CASE i > k - 1
            <7>1. i - (k - 1) \in 1 .. L - k /\ (i - (k - 1)) + k = i + 1
              BY <5>3, <6>2
            <7>2. b[i - (k - 1)] = ep_list[i + 1]
              BY <5>1, <7>1
            <7>3. ~(i <= k - 1) /\ ~(i < k)
              BY <3>6, <6>2
            <7> QED BY <5>2, <7>2, <7>3
          <6> QED BY <3>6, <6>1, <6>2
        <5> QED BY <5>2, <5>5
      <4>4. \A i \in 1 .. L - 1 : back(i) \in 1 .. L /\ back(i) # k
        <5> HIDE DEF L
        <5> QED BY <3>6
      <4> QED BY <4>3, <4>4
    <3>8. ASSUME NEW i \in DOMAIN ep_list, i # k
          PROVE  \E j \in 1 .. L - 1 : ep_list'[j] = ep_list[i]
      <4>1. CASE i < k
        <5>1. i \in 1 .. L - 1 /\ back(i) = i
          BY <1>2, <3>6, <4>1
        <5> HIDE DEF back
        <5> QED BY <3>7, <5>1
      <4>2. CASE i > k
        <5>1. i - 1 \in 1 .. L - 1 /\ back(i - 1) = i
          BY <1>2, <3>6, <4>2
        <5> HIDE DEF back
        <5> QED BY <3>7, <5>1
      <4> QED BY <1>2, <3>6, <3>8, <4>1, <4>2
    <3>9. \A i, j \in 1 .. L - 1 : back(i) = back(j) => i = j
      <4> HIDE DEF L
      <4> QED BY <3>6
    <3> HIDE DEF back
    <3>10. \A i, j \in DOMAIN ep_list' : ep_list'[i].fd = ep_list'[j].fd => i = j
      BY <1>2, <3>7, <3>9
    <3>11. ASSUME NEW i \in DOMAIN ep_list'
           PROVE  /\ ep_list'[i].fd \in DOMAIN ep_client'
                  /\ ep_client'[ep_list'[i].fd]
                       = [styles |-> ep_list'[i].styles, data |-> ep_list'[i].data]
      <4>1. back(i) \in DOMAIN ep_list /\ ep_list'[i] = ep_list[back(i)] /\ back(i) # k
        BY <1>2, <3>7
      <4>2. ep_list[back(i)].fd # fd /\ ep_list[back(i)].fd \in DOMAIN ep_client
        BY <1>2, <3>1, <4>1
      <4>3. ep_list[back(i)].fd \in DOMAIN ep_client'
        BY <1>3, <4>2
      <4> QED BY <1>2, <1>3, <4>1, <4>3
    <3>12. ASSUME NEW f \in DOMAIN ep_client'
           PROVE  \E i \in DOMAIN ep_list' : f = ep_list'[i].fd
      <4>1. PICK i \in DOMAIN ep_list : ep_list[i].fd = f /\ f # fd
        BY <1>2, <1>3
      <4>2. i # k
        BY <3>1, <4>1
      <4>3. PICK j \in 1 .. L - 1 : ep_list'[j] = ep_list[i]
        BY <3>8, <4>2
      <4> QED BY <3>7, <4>1, <4>3
    <3>13. DOMAIN ep_client' = {ep_list'[i].fd : i \in DOMAIN ep_list'}
      BY <3>11, <3>12
    <3> QED BY <3>7, <3>10, <3>11, <3>13 DEF Lists
  <2> QED BY <2>1, <2>2
<1>5. EP_ReportsEachOnce'
  BY DEF EP_Delete, EP_ReportsEachOnce, NoWait
<1> QED
  BY <1>4, <1>5 DEF EP_Inv

(* Whatever select leaves of what was asked, for any descriptors and data, *)
(* each descriptor that is ready is reported once, with the client's data. *)
THEOREM EachReportedOnce == EP_Spec => []EP_ReportsEachOnce
<1>1. EP_Init => EP_Inv
  <2> SUFFICES ASSUME EP_Init PROVE EP_Inv
    OBVIOUS
  <2>1. ep_list = <<>> /\ ep_client = NoClient /\ DOMAIN NoClient = {}
    BY DEF EP_Init, NoClient
  <2>2. Lists(ep_list, ep_client)
    BY <2>1 DEF Lists
  <2> QED BY <2>2 DEF EP_Init, EP_Inv, EP_ReportsEachOnce, NoWait
<1>2. EP_Inv /\ [EP_Next]_ep_vars => EP_Inv'
  <2> SUFFICES ASSUME EP_Inv, [EP_Next]_ep_vars PROVE EP_Inv'
    OBVIOUS
  <2>1. CASE EP_Create \/ EP_Close
    <3>1. ep_list' = <<>> /\ ep_client' = NoClient /\ DOMAIN NoClient = {} /\ ep_wait' = NoWait
      BY <2>1 DEF EP_Create, EP_Close, NoClient
    <3>2. Lists(ep_list, ep_client)'
      BY <3>1 DEF Lists
    <3> QED BY <3>1, <3>2 DEF EP_Inv, EP_ReportsEachOnce, NoWait
  <2>2. CASE EP_Add
    BY <2>2, EP_AddKeeps
  <2>3. CASE EP_Delete
    BY <2>3, EP_DeleteKeeps
  <2>4. CASE EP_Wait
    <3>1. Lists(ep_list, ep_client) /\ Lists(ep_list, ep_client)'
      BY <2>4 DEF EP_Inv, EP_Wait, Lists
    <3>2. CASE ep_wait' = [NoWait EXCEPT !.status = "error"]
      BY <3>1, <3>2 DEF EP_Inv, EP_ReportsEachOnce, NoWait
    <3>3. ASSUME NEW ready \in SUBSET Asked(ep_list),
                 ep_wait' = [asked |-> Asked(ep_list), ready |-> ready, status |-> "done",
                             events |-> Reported(ep_list, ready)]
          PROVE  EP_ReportsEachOnce'
      <4>1. ep_client' = ep_client
        BY <2>4, <3>3 DEF EP_Wait
      <4>2. ReportsTrue(ep_wait', ep_client)
        BY <3>1, <3>3, ReportsEach
      <4> QED BY <4>1, <4>2 DEF EP_ReportsEachOnce
    <3> QED BY <2>4, <3>1, <3>2, <3>3 DEF EP_Wait, EP_Inv
  <2>5. CASE UNCHANGED ep_vars
    BY <2>5 DEF ep_vars, EP_Inv, EP_ReportsEachOnce, Lists
  <2> QED BY <2>1, <2>2, <2>3, <2>4, <2>5 DEF EP_Next
<1>3. EP_Inv => EP_ReportsEachOnce
  BY DEF EP_Inv
<1> QED
  BY <1>1, <1>2, <1>3, PTL DEF EP_Spec

-----------------------------------------------------------------------------
(* Functions called by SIGIO.                                              *)

(* Every pair is in the table once, and SIGIO is the handler's while there *)
(* is one.                                                                 *)
TableInv ==
  /\ ai_table \in Seq(AI_Pairs \cup {Removed})
  /\ \A i, j \in DOMAIN ai_table : ai_table[i] = ai_table[j] => i = j \/ ai_table[i] = Removed
  /\ ai_disposition \in AI_OldActions \cup {"handler"}
  /\ Initialized <=> Entries(ai_table) # {}
  /\ Initialized => ai_old \in AI_OldActions

(* The handler is past the half of entry i that calls the function of p.   *)
Visited(loop, i, p) ==
  i < loop.at \/ (i = loop.at /\ loop.half = "write" /\ p[2] = "read")

CalledOnceVisited(p, table, calls, loop) ==
  \E i \in DOMAIN table :
    table[i] = p /\ calls[p] = IF Visited(loop, i, p) THEN 1 ELSE 0

(* What the handler has called so far; between two signals, nothing.       *)
LoopInv ==
  /\ ai_loop \in [at : Nat, half : {"read", "write"}]
  /\ ai_calls \in [AI_Pairs -> Nat]
  /\ ai_ready \subseteq AI_Pairs /\ ai_due \subseteq ai_ready
  /\ ai_loop.at = 0 => ai_calls = NoCalls /\ ai_due = {}
  /\ ai_loop.at > 0 => \A p \in ai_due : CalledOnceVisited(p, ai_table, ai_calls, ai_loop)

AI_Inv ==
  ai_end = "" =>
    /\ TableInv /\ LoopInv
    /\ ai_main.step \in {"add", "own"} => ai_main.pair \in AI_Pairs

LEMMA PairsAreNotRemoved ==
  ASSUME NEW table, table \in Seq(AI_Pairs \cup {Removed})
  PROVE  /\ Removed \notin AI_Pairs /\ Entries(table) \subseteq AI_Pairs
         /\ Len(table) \in Nat /\ DOMAIN table = 1 .. Len(table)
         /\ \A i \in DOMAIN table : table[i] \in AI_Pairs \cup {Removed}
BY AsyncIOAssumption DEF Entries

(* An addition leaves every entry where it is.                             *)
LEMMA AddKeepsTable ==
  ASSUME TableInv, NEW pair \in AI_Pairs, AddHandler(pair)
  PROVE  /\ TableInv' /\ ai_due' = ai_due
         /\ \A i \in DOMAIN ai_table : ai_table[i] # Removed =>
              i \in DOMAIN ai_table' /\ ai_table'[i] = ai_table[i]
<1>1. /\ ai_table \in Seq(AI_Pairs \cup {Removed})
      /\ \A i, j \in DOMAIN ai_table :
           ai_table[i] = ai_table[j] => i = j \/ ai_table[i] = Removed
      /\ Removed \notin AI_Pairs /\ pair # Removed
      /\ Len(ai_table) \in Nat /\ DOMAIN ai_table = 1 .. Len(ai_table)
  BY PairsAreNotRemoved DEF TableInv
<1>2. ai_disposition' = "handler" /\ ai_old' \in AI_OldActions
  BY DEF AddHandler, TableInv, Initialized
<1>3. CASE pair \in Entries(ai_table)
  <2>1. ai_table' = ai_table /\ ai_due' = ai_due
    BY <1>3 DEF AddHandler
  <2> QED BY <1>1, <1>2, <1>3, <2>1 DEF TableInv, Initialized
<1>4. CASE pair \notin Entries(ai_table)
  <2>1. ai_table' \in TablesWith(ai_table, pair) /\ ai_due' = ai_due
    BY <1>4 DEF AddHandler
  <2>2. \A i \in DOMAIN ai_table : ai_table[i] # pair
    BY <1>1, <1>4 DEF Entries
  <2>3. CASE FreeEntries(ai_table) = {}
    <3>1. ai_table' = Append(ai_table, pair)
      BY <2>1, <2>3 DEF TablesWith
    <3>2. /\ ai_table' \in Seq(AI_Pairs \cup {Removed})
          /\ DOMAIN ai_table' = 1 .. Len(ai_table) + 1
          /\ ai_table'[Len(ai_table) + 1] = pair
          /\ \A i \in 1 .. Len(ai_table) : ai_table'[i] = ai_table[i]
      BY <1>1, <3>1
    <3>3. \A i, j \in DOMAIN ai_table' :
            ai_table'[i] = ai_table'[j] => i = j \/ ai_table'[i] = Removed
      <4> SUFFICES ASSUME NEW i \in DOMAIN ai_table', NEW j \in DOMAIN ai_table',
                          ai_table'[i] = ai_table'[j]
                   PROVE  i = j \/ ai_table'[i] = Removed
        OBVIOUS
      <4>1. CASE i \in 1 .. Len(ai_table) /\ j \in 1 .. Len(ai_table)
        BY <1>1, <3>2, <4>1
      <4>2. CASE i = Len(ai_table) + 1
        BY <1>1, <2>2, <3>2, <4>2
      <4>3. CASE j = Len(ai_table) + 1
        BY <1>1, <2>2, <3>2, <4>3
      <4> QED BY <3>2, <4>1, <4>2, <4>3
    <3>4. pair \in Entries(ai_table')
      BY <1>1, <3>2 DEF Entries
    <3>5. TableInv'
      BY <1>2, <3>2, <3>3, <3>4 DEF TableInv, Initialized
    <3> QED BY <1>1, <2>1, <3>2, <3>5
  <2>4. CASE FreeEntries(ai_table) # {}
    <3>1. PICK k \in FreeEntries(ai_table) : ai_table' = [ai_table EXCEPT ![k] = pair]
      BY <2>1, <2>4 DEF TablesWith
    <3>2. k \in DOMAIN ai_table /\ ai_table[k] = Removed
      BY <3>1 DEF FreeEntries
    <3>3. /\ ai_table' \in Seq(AI_Pairs \cup {Removed})
          /\ DOMAIN ai_table' = DOMAIN ai_table /\ ai_table'[k] = pair
          /\ \A i \in DOMAIN ai_table : i # k => ai_table'[i] = ai_table[i]
      BY <1>1, <3>1, <3>2
    <3>4. \A i, j \in DOMAIN ai_table' :
            ai_table'[i] = ai_table'[j] => i = j \/ ai_table'[i] = Removed
      BY <1>1, <2>2, <3>3
    <3>5. pair \in Entries(ai_table')
      BY <1>1, <3>2, <3>3 DEF Entries
    <3>6. TableInv'
      BY <1>2, <3>3, <3>4, <3>5 DEF TableInv, Initialized
    <3> QED BY <2>1, <3>2, <3>3, <3>6
  <2> QED BY <2>3, <2>4
<1> QED
  BY <1>3, <1>4

(* A removal leaves the entries of all other pairs where they are, unless  *)
(* it was the last.                                                        *)
LEMMA RemoveKeepsTable ==
  ASSUME TableInv, NEW pair, RemoveHandler(pair)
  PROVE  /\ TableInv' /\ ai_due' = ai_due \ {pair}
         /\ Initialized' => \A i \in DOMAIN ai_table : ai_table[i] # pair =>
              i \in DOMAIN ai_table' /\ ai_table'[i] = ai_table[i]
<1> DEFINE table == IF pair \in Entries(ai_table) THEN TableWithout(ai_table, pair) ELSE ai_table
<1>1. /\ ai_table \in Seq(AI_Pairs \cup {Removed})
      /\ \A i, j \in DOMAIN ai_table :
           ai_table[i] = ai_table[j] => i = j \/ ai_table[i] = Removed
      /\ Len(ai_table) \in Nat /\ DOMAIN ai_table = 1 .. Len(ai_table)
  BY PairsAreNotRemoved DEF TableInv
<1>2. /\ table \in Seq(AI_Pairs \cup {Removed})
      /\ DOMAIN table = DOMAIN ai_table
      /\ \A i \in DOMAIN ai_table : table[i] = ai_table[i] \/ table[i] = Removed
      /\ \A i \in DOMAIN ai_table : ai_table[i] # pair => table[i] = ai_table[i]
  <2>1. CASE pair \in Entries(ai_table)
    <3>1. table = [i \in DOMAIN ai_table |->
                     IF ai_table[i] = pair THEN Removed ELSE ai_table[i]]
      BY <2>1 DEF TableWithout
    <3> HIDE DEF table
    <3> QED BY <1>1, <3>1
  <2>2. CASE pair \notin Entries(ai_table)
    BY <1>1, <2>2
  <2> QED BY <2>1, <2>2
<1>3. \A i, j \in DOMAIN table : table[i] = table[j] => i = j \/ table[i] = Removed
  <2> HIDE DEF table
  <2> QED BY <1>1, <1>2
<1>4. /\ ai_due' = ai_due \ {pair}
      /\ IF Initialized /\ Entries(table) = {}
         THEN ai_table' = <<>> /\ ai_disposition' = ai_old /\ UNCHANGED ai_old
         ELSE ai_table' = table /\ UNCHANGED <<ai_disposition, ai_old>>
  BY DEF RemoveHandler
<1>5. Entries(ai_table) = {} => Entries(table) = {}
  OBVIOUS
<1> HIDE DEF table
<1>6. CASE Initialized /\ Entries(table) = {}
  <2>1. ai_table' = <<>> /\ ai_disposition' = ai_old /\ ai_old \in AI_OldActions
    BY <1>4, <1>6 DEF TableInv
  <2>2. ai_disposition' # "handler"
    BY <2>1, AsyncIOAssumption
  <2>3. Entries(ai_table') = {}
    BY <2>1 DEF Entries
  <2>4. TableInv'
    BY <2>1, <2>2, <2>3 DEF TableInv, Initialized
  <2> QED BY <1>4, <2>2, <2>4 DEF Initialized
<1>7. CASE ~(Initialized /\ Entries(table) = {})
  <2>1. ai_table' = table /\ ai_disposition' = ai_disposition /\ ai_old' = ai_old
    BY <1>4, <1>7
  <2>2. Initialized <=> Entries(table) # {}
    BY <1>5, <1>7 DEF TableInv
  <2>3. TableInv'
    BY <1>2, <1>3, <2>1, <2>2 DEF TableInv, Initialized
  <2> QED BY <1>2, <1>4, <2>1, <2>3
<1> QED
  BY <1>6, <1>7

(* The program changes the table while no signal is being handled.         *)
LEMMA QuietLoop ==
  ASSUME LoopInv, ai_loop.at = 0, UNCHANGED <<ai_loop, ai_calls, ai_ready>>,
         ai_due' \subseteq ai_due
  PROVE  LoopInv'
BY DEF LoopInv, NoCalls

(* A half of an entry that calls no function.                              *)
LEMMA VisitWithoutCall ==
  ASSUME TableInv, LoopInv, ai_loop.at \in DOMAIN ai_table,
         UNCHANGED <<ai_table, ai_due, ai_calls, ai_ready>>,
         ~(ai_table[ai_loop.at] \in ai_ready /\ ai_table[ai_loop.at][2] = ai_loop.half),
         ai_loop' = IF ai_loop.half = "read" /\ ai_table[ai_loop.at] = Removed
                    THEN [ai_loop EXCEPT !.at = @ + 1] ELSE AfterHalf
  PROVE  LoopInv' /\ ai_loop'.at > 0
<1> DEFINE at == ai_loop.at
<1>1. /\ ai_loop \in [at : Nat, half : {"read", "write"}]
      /\ at \in Nat /\ at > 0 /\ ai_loop.half \in {"read", "write"}
      /\ DOMAIN ai_table = 1 .. Len(ai_table) /\ Len(ai_table) \in Nat
      /\ ai_due \subseteq AI_Pairs /\ Removed \notin AI_Pairs
  BY PairsAreNotRemoved DEF LoopInv, TableInv
<1>2. /\ ai_loop' \in [at : Nat, half : {"read", "write"}] /\ ai_loop'.at > 0
      /\ ai_loop'.at = (IF ai_loop.half = "read" /\ ai_table[at] # Removed THEN at ELSE at + 1)
      /\ ai_loop'.half = (IF ai_loop.half = "read" /\ ai_table[at] # Removed
                          THEN "write" ELSE "read")
  BY <1>1 DEF AfterHalf
<1>3. ASSUME NEW p \in ai_due
      PROVE  CalledOnceVisited(p, ai_table, ai_calls, ai_loop')
  <2>1. PICK i \in DOMAIN ai_table :
          ai_table[i] = p /\ ai_calls[p] = IF Visited(ai_loop, i, p) THEN 1 ELSE 0
    BY <1>1 DEF LoopInv, CalledOnceVisited
  <2>2. i \in Nat /\ p # Removed /\ p \in ai_ready /\ p[2] \in {"read", "write"}
    BY <1>1, AsyncIOAssumption DEF LoopInv
  <2>3. i = at => ai_table[at] # Removed /\ p[2] # ai_loop.half
    BY <2>1, <2>2
  <2>4. Visited(ai_loop', i, p) <=> Visited(ai_loop, i, p)
    BY <1>1, <1>2, <2>2, <2>3 DEF Visited
  <2> QED BY <2>1, <2>4 DEF CalledOnceVisited
<1> QED
  BY <1>1, <1>2, <1>3 DEF LoopInv

(* A half that calls a function, which leaves the table where it was.      *)
LEMMA VisitWithCall ==
  ASSUME TableInv, LoopInv, ai_loop.at \in DOMAIN ai_table, UNCHANGED ai_ready,
         ai_table[ai_loop.at] \in ai_ready, ai_table[ai_loop.at][2] = ai_loop.half,
         ai_calls' = [ai_calls EXCEPT ![ai_table[ai_loop.at]] = @ + 1],
         ai_due' \subseteq ai_due,
         \A i \in DOMAIN ai_table : ai_table[i] \in ai_due' =>
           i \in DOMAIN ai_table' /\ ai_table'[i] = ai_table[i],
         ai_loop' = AfterHalf
  PROVE  LoopInv' /\ ai_loop'.at > 0
<1> DEFINE at == ai_loop.at
           e == ai_table[at]
<1>1. /\ ai_loop \in [at : Nat, half : {"read", "write"}]
      /\ at \in Nat /\ at > 0 /\ ai_loop.half \in {"read", "write"}
      /\ DOMAIN ai_table = 1 .. Len(ai_table) /\ Len(ai_table) \in Nat
      /\ ai_due \subseteq AI_Pairs /\ ai_ready \subseteq AI_Pairs /\ Removed \notin AI_Pairs
      /\ ai_calls \in [AI_Pairs -> Nat] /\ e \in AI_Pairs
      /\ \A i, j \in DOMAIN ai_table :
           ai_table[i] = ai_table[j] => i = j \/ ai_table[i] = Removed
  BY PairsAreNotRemoved DEF LoopInv, TableInv
<1>2. /\ ai_loop' \in [at : Nat, half : {"read", "write"}] /\ ai_loop'.at > 0
      /\ ai_loop'.at = (IF ai_loop.half = "read" THEN at ELSE at + 1)
      /\ ai_loop'.half = (IF ai_loop.half = "read" THEN "write" ELSE "read")
  BY <1>1 DEF AfterHalf
<1>3. /\ ai_calls' \in [AI_Pairs -> Nat] /\ ai_calls'[e] = ai_calls[e] + 1
      /\ \A p \in AI_Pairs : p # e => ai_calls'[p] = ai_calls[p]
  BY <1>1
<1>4. ASSUME NEW p \in ai_due'
      PROVE  CalledOnceVisited(p, ai_table', ai_calls', ai_loop')
  <2>1. PICK i \in DOMAIN ai_table :
          ai_table[i] = p /\ ai_calls[p] = IF Visited(ai_loop, i, p) THEN 1 ELSE 0
    BY <1>1 DEF LoopInv, CalledOnceVisited
  <2>2. i \in Nat /\ p # Removed /\ p \in AI_Pairs
    BY <1>1
  <2>3. i \in DOMAIN ai_table' /\ ai_table'[i] = p
    BY <2>1
  <2>4. ai_calls'[p] = IF Visited(ai_loop', i, p) THEN 1 ELSE 0
    <3>1. CASE p = e
      <4>1. i = at
        BY <1>1, <2>1, <2>2, <3>1
      <4>2. ~Visited(ai_loop, i, p) /\ Visited(ai_loop', i, p)
        BY <1>1, <1>2, <3>1, <4>1 DEF Visited
      <4> QED BY <1>3, <2>1, <3>1, <4>2
    <3>2. CASE p # e
      <4>1. i # at
        BY <2>1, <3>2
      <4>2. Visited(ai_loop, i, p) <=> Visited(ai_loop', i, p)
        BY <1>1, <1>2, <2>2, <4>1 DEF Visited
      <4> QED BY <1>3, <2>1, <2>2, <3>2, <4>2
    <3> QED BY <3>1, <3>2
  <2> QED BY <2>3, <2>4 DEF CalledOnceVisited
<1>5. ai_due' \subseteq ai_ready' /\ ai_ready' \subseteq AI_Pairs
  BY DEF LoopInv
<1>6. ai_loop'.at # 0
  BY <1>2
<1>7. \A p \in ai_due' : CalledOnceVisited(p, ai_table', ai_calls', ai_loop')
  BY <1>4
<1> HIDE DEF at, e
<1> QED
  BY ONLY <1>2, <1>3, <1>5, <1>6, <1>7 DEF LoopInv

LEMMA AI_VisitKeeps ==
  ASSUME AI_Inv, AI_Visit PROVE AI_Inv'
<1>1. /\ ai_end = "" /\ TableInv /\ LoopInv /\ ai_loop.at \in DOMAIN ai_table
      /\ ai_main' = ai_main /\ ai_ready' = ai_ready
      /\ ai_main.step \in {"add", "own"} => ai_main.pair \in AI_Pairs
      /\ ai_loop' = IF ai_loop.half = "read" /\ ai_table[ai_loop.at] = Removed
                    THEN [ai_loop EXCEPT !.at = @ + 1] ELSE AfterHalf
  BY DEF AI_Visit, AI_Inv
<1>2. CASE ai_table[ai_loop.at] \in ai_ready /\ ai_table[ai_loop.at][2] = ai_loop.half
  <2>1. /\ ai_calls' = [ai_calls EXCEPT ![ai_table[ai_loop.at]] = @ + 1]
        /\ FunctionDoes
        /\ ai_end' = IF FreesTable THEN "undefined" ELSE ""
    BY <1>2 DEF AI_Visit
  <2>2. CASE FreesTable
    BY <2>1, <2>2 DEF AI_Inv
  <2>3. CASE ~FreesTable
    <3>1. Initialized'
      BY <2>3 DEF FreesTable, Initialized
    <3> DEFINE Kept ==
          /\ TableInv' /\ ai_due' \subseteq ai_due
          /\ \A i \in DOMAIN ai_table : ai_table[i] \in ai_due' =>
               i \in DOMAIN ai_table' /\ ai_table'[i] = ai_table[i]
    <3>2. Kept
      <4>1. CASE UNCHANGED <<ai_table, ai_disposition, ai_old, ai_due, ai_fasync, ai_owned>>
        BY <1>1, <4>1 DEF TableInv, Initialized
      <4>2. ASSUME NEW pair \in Entries(ai_table), RemoveHandler(pair)
            PROVE  Kept
        BY <1>1, <3>1, <4>2, RemoveKeepsTable
      <4>3. ASSUME NEW pair \in AI_Pairs, AddHandler(pair)
            PROVE  Kept
        <5>1. Removed \notin ai_due
          BY <1>1, PairsAreNotRemoved DEF LoopInv, TableInv
        <5>2. /\ TableInv' /\ ai_due' = ai_due
              /\ \A i \in DOMAIN ai_table : ai_table[i] # Removed =>
                   i \in DOMAIN ai_table' /\ ai_table'[i] = ai_table[i]
          BY <1>1, <4>3, AddKeepsTable
        <5> QED BY <5>1, <5>2
      <4> QED BY <2>1, <4>1, <4>2, <4>3 DEF FunctionDoes
    <3>3. ai_loop' = AfterHalf
      <4>1. ai_table[ai_loop.at] # Removed
        BY <1>1, <1>2, PairsAreNotRemoved DEF LoopInv, TableInv
      <4> QED BY <1>1, <4>1
    <3>4. LoopInv'
      BY <1>1, <1>2, <2>1, <3>2, <3>3, VisitWithCall
    <3> QED BY <1>1, <3>2, <3>4 DEF AI_Inv
  <2> QED BY <2>2, <2>3
<1>3. CASE ~(ai_table[ai_loop.at] \in ai_ready /\ ai_table[ai_loop.at][2] = ai_loop.half)
  <2>1. UNCHANGED <<ai_table, ai_disposition, ai_old, ai_due, ai_calls, ai_end>>
    BY <1>3 DEF AI_Visit
  <2>2. TableInv'
    BY <1>1, <2>1 DEF TableInv, Initialized
  <2>3. LoopInv'
    BY <1>1, <1>3, <2>1, VisitWithoutCall
  <2> QED BY <1>1, <2>2, <2>3 DEF AI_Inv
<1> QED
  BY <1>2, <1>3

(* Behind the end of the table every entry was visited.                    *)
LEMMA AllVisited ==
  ASSUME TableInv, LoopInv, ai_loop.at > Len(ai_table)
  PROVE  \A p \in ai_due : ai_calls[p] = 1
<1>1. Len(ai_table) \in Nat /\ DOMAIN ai_table = 1 .. Len(ai_table)
  BY PairsAreNotRemoved DEF TableInv
<1>2. ai_loop.at \in Nat /\ ai_loop.at > 0
  BY <1>1 DEF LoopInv
<1>3. \A p \in ai_due : CalledOnceVisited(p, ai_table, ai_calls, ai_loop)
  BY <1>2 DEF LoopInv
<1>4. \A i \in DOMAIN ai_table : i < ai_loop.at
  BY <1>1, <1>2
<1>5. \A i \in DOMAIN ai_table : \A p : Visited(ai_loop, i, p)
  BY <1>4 DEF Visited
<1> QED
  BY <1>3, <1>5 DEF CalledOnceVisited

(* For any pairs, whatever the functions add and remove: when the handler  *)
(* has walked the table, every pair that was ready was called once.        *)
THEOREM ReadyCalledOnce == AI_Spec => []AI_ReadyCalledOnce
<1>1. AI_Init => AI_Inv
  <2> SUFFICES ASSUME AI_Init PROVE AI_Inv
    OBVIOUS
  <2>1. TableInv
    <3>1. ai_table = <<>> /\ ai_disposition \in AI_OldActions
      BY DEF AI_Init
    <3>3. Entries(ai_table) = {}
      <4>1. DOMAIN ai_table = {}
        BY <3>1
      <4> QED BY <4>1 DEF Entries
    <3>2. ~Initialized
      BY <3>1, AsyncIOAssumption DEF Initialized
    <3> QED BY <3>1, <3>2, <3>3 DEF TableInv
  <2>2. LoopInv
    BY DEF AI_Init, LoopInv, NoLoop, NoCalls
  <2> QED BY <2>1, <2>2 DEF AI_Inv, AI_Init, Idle
<1>2. AI_Inv /\ [AI_Next]_ai_vars => AI_Inv'
  <2> SUFFICES ASSUME AI_Inv, [AI_Next]_ai_vars PROVE AI_Inv'
    OBVIOUS
  <2>1. CASE AI_InitFasync
    <3>0. PICK pair \in AI_Pairs : ai_main' = [step |-> "add", pair |-> pair]
      BY <2>1 DEF AI_InitFasync
    <3>1. /\ TableInv /\ LoopInv /\ ai_main'.pair \in AI_Pairs
          /\ UNCHANGED <<ai_table, ai_disposition, ai_old, ai_loop, ai_ready, ai_calls, ai_due>>
      BY <2>1, <3>0 DEF AI_InitFasync, AI_Inv, MainMayRun
    <3>2. TableInv' /\ LoopInv'
      BY <3>1 DEF TableInv, LoopInv, Initialized, NoCalls
    <3> QED BY <3>1, <3>2 DEF AI_Inv
  <2>2. CASE AI_InitAdd
    <3>1. /\ TableInv /\ LoopInv /\ ai_main.pair \in AI_Pairs /\ ai_loop.at = 0
          /\ AddHandler(ai_main.pair)
          /\ UNCHANGED <<ai_loop, ai_ready, ai_calls>>
      BY <2>2 DEF AI_InitAdd, AI_Inv, MainMayRun
    <3>2. TableInv' /\ ai_due' = ai_due
      BY <3>1, AddKeepsTable
    <3>3. LoopInv'
      BY <3>1, <3>2, QuietLoop
    <3>4. ai_main'.step = "own" => ai_main'.pair = ai_main.pair
      BY <2>2 DEF AI_InitAdd, Idle
    <3>5. ai_main'.step # "add"
      BY <2>2 DEF AI_InitAdd, Idle
    <3> QED BY <3>1, <3>2, <3>3, <3>4, <3>5 DEF AI_Inv
  <2>3. CASE AI_InitOwn
    <3>1. /\ TableInv /\ LoopInv /\ ai_loop.at = 0
          /\ UNCHANGED <<ai_loop, ai_ready, ai_calls>>
          /\ ai_main' = Idle
          /\ UNCHANGED <<ai_table, ai_disposition, ai_old, ai_due>> \/ RemoveHandler(ai_main.pair)
      BY <2>3 DEF AI_InitOwn, AI_Inv, MainMayRun
    <3>2. TableInv' /\ ai_due' \subseteq ai_due
      <4>1. CASE UNCHANGED <<ai_table, ai_disposition, ai_old, ai_due>>
        BY <3>1, <4>1 DEF TableInv, Initialized
      <4>2. CASE RemoveHandler(ai_main.pair)
        BY <3>1, <4>2, RemoveKeepsTable
      <4> QED BY <3>1, <4>1, <4>2
    <3>3. LoopInv'
      BY <3>1, <3>2, QuietLoop
    <3> QED BY <3>1, <3>2, <3>3 DEF AI_Inv, Idle
  <2>4. CASE AI_Undo
    <3>1. PICK pair \in AI_Pairs : RemoveHandler(pair) /\ ai_main' = [step |-> "undo", pair |-> pair]
      BY <2>4 DEF AI_Undo
    <3>2. /\ TableInv /\ LoopInv /\ ai_loop.at = 0
          /\ UNCHANGED <<ai_loop, ai_ready, ai_calls>>
      BY <2>4 DEF AI_Undo, AI_Inv, MainMayRun
    <3>3. TableInv' /\ ai_due' \subseteq ai_due
      BY <3>1, <3>2, RemoveKeepsTable
    <3>4. LoopInv'
      BY <3>2, <3>3, QuietLoop
    <3> QED BY <3>1, <3>3, <3>4 DEF AI_Inv
  <2>5. CASE AI_UndoFasync
    <3>1. /\ TableInv /\ LoopInv /\ ai_main' = Idle
          /\ UNCHANGED <<ai_table, ai_disposition, ai_old, ai_loop, ai_ready, ai_calls, ai_due>>
      BY <2>5 DEF AI_UndoFasync, AI_Inv, MainMayRun
    <3>2. TableInv' /\ LoopInv'
      BY <3>1 DEF TableInv, LoopInv, Initialized, NoCalls
    <3> QED BY <3>1, <3>2 DEF AI_Inv, Idle
  <2>6. CASE AI_Send
    BY <2>6 DEF AI_Send, AI_Inv, TableInv, LoopInv, Initialized, NoCalls
  <2>7. CASE AI_Deliver
    <3>1. /\ TableInv /\ LoopInv /\ ai_loop.at = 0 /\ ai_calls = NoCalls
          /\ ai_main.step \in {"add", "own"} => ai_main.pair \in AI_Pairs
          /\ UNCHANGED <<ai_table, ai_calls, ai_disposition, ai_old, ai_main>>
      BY <2>7 DEF AI_Deliver, AI_Inv, MainMayRun, LoopInv
    <3>2. TableInv'
      BY <3>1 DEF TableInv, Initialized
    <3>3. CASE ai_disposition # "handler"
      <4>1. UNCHANGED <<ai_ready, ai_due, ai_loop>>
        BY <2>7, <3>3 DEF AI_Deliver
      <4>2. LoopInv'
        BY <3>1, <4>1, QuietLoop
      <4> QED BY <3>1, <3>2, <4>2 DEF AI_Inv
    <3>4. CASE ai_disposition = "handler"
      <4>1. PICK ready \in SUBSET Entries(ai_table) :
              /\ ai_ready' = ready /\ ai_due' = ready
              /\ ai_loop' = IF ready = {} THEN NoLoop ELSE [at |-> 1, half |-> "read"]
        BY <2>7, <3>4 DEF AI_Deliver
      <4>2. /\ ai_table \in Seq(AI_Pairs \cup {Removed}) /\ Entries(ai_table) \subseteq AI_Pairs
            /\ DOMAIN ai_table = 1 .. Len(ai_table) /\ Len(ai_table) \in Nat
        BY <3>1, PairsAreNotRemoved DEF TableInv
      <4>3. ASSUME NEW p \in ready, ready # {}
            PROVE  CalledOnceVisited(p, ai_table, ai_calls, ai_loop')
        <5>1. PICK i \in DOMAIN ai_table : ai_table[i] = p
          BY DEF Entries
        <5>2. ai_loop'.at = 1 /\ ai_loop'.half = "read"
          BY <4>1, <4>3
        <5>3. ~Visited(ai_loop', i, p)
          BY <4>2, <5>2 DEF Visited
        <5>4. ai_calls[p] = 0
          BY <3>1, <4>2 DEF NoCalls
        <5> QED BY <5>1, <5>3, <5>4 DEF CalledOnceVisited
      <4>4. LoopInv'
        <5>1. CASE ready = {}
          BY <3>1, <4>1, <5>1 DEF LoopInv, NoLoop
        <5>2. CASE ready # {}
          <6>1. ai_loop' = [at |-> 1, half |-> "read"]
            BY <4>1, <5>2
          <6> QED BY <3>1, <4>1, <4>2, <4>3, <5>2, <6>1 DEF LoopInv
        <5> QED BY <5>1, <5>2
      <4> QED BY <3>1, <3>2, <4>4 DEF AI_Inv
    <3> QED BY <3>3, <3>4
  <2>8. CASE AI_Visit
    BY <2>8, AI_VisitKeeps
  <2>9. CASE AI_Finish
    <3>1. /\ TableInv /\ LoopInv
          /\ ai_main.step \in {"add", "own"} => ai_main.pair \in AI_Pairs
          /\ UNCHANGED <<ai_table, ai_disposition, ai_old, ai_main>>
      BY <2>9 DEF AI_Finish, AI_Inv
    <3>2. TableInv'
      BY <3>1 DEF TableInv, Initialized
    <3>3. LoopInv'
      BY <2>9 DEF AI_Finish, LoopInv, NoLoop, NoCalls
    <3> QED BY <3>1, <3>2, <3>3 DEF AI_Inv
  <2>10. CASE UNCHANGED ai_vars
    BY <2>10 DEF ai_vars, AI_Inv, TableInv, LoopInv, Initialized, NoCalls
  <2> QED BY <2>1, <2>2, <2>3, <2>4, <2>5, <2>6, <2>7, <2>8, <2>9, <2>10 DEF AI_Next
<1>3. AI_Inv => AI_ReadyCalledOnce
  <2> SUFFICES ASSUME AI_Inv, ai_end = "" PROVE AI_ReadyCalledOnce
    BY DEF AI_ReadyCalledOnce
  <2>1. TableInv /\ LoopInv
    BY DEF AI_Inv
  <2>2. ai_loop.at > Len(ai_table) => \A p \in ai_due : ai_calls[p] = 1
    BY <2>1, AllVisited
  <2> QED BY <2>1, <2>2 DEF AI_ReadyCalledOnce, TableInv
<1> QED
  BY <1>1, <1>2, <1>3, PTL DEF AI_Spec
=============================================================================
