------------------------------- MODULE Socket --------------------------------
(***************************************************************************)
(* Sockets and their addresses (jr_socket.c). Everything APR makes lives   *)
(* in a pool: a jr_socket_t has one for its socket, a jr_sockaddr_t has    *)
(* one of its own for its address or borrows one. A call that fails half   *)
(* way cleans up what it has made, and nothing it has not.                 *)
(*                                                                         *)
(* A pool is a number; what lives in it names it. Destroying a pool closes *)
(* the descriptors that live in it. The text of the printf buffer is       *)
(* module AprOutput; here it is "none", "empty" or "text".                 *)
(***************************************************************************)
EXTENDS Naturals, FiniteSets

CONSTANTS
  SK_Sockets, SK_Addrs,  \* structures of the client
  SK_Ports,              \* local ports
  SK_Pools,              \* numbers for pools and descriptors, enough of them
  SK_Calls               \* bound on the calls of a behaviour

ASSUME SK_Assumption ==
  /\ SK_Pools \subseteq Nat \ {0} /\ SK_Ports \subseteq Nat \ {0}
  /\ IsFiniteSet(SK_Pools) /\ IsFiniteSet(SK_Sockets) /\ IsFiniteSet(SK_Addrs)
  /\ SK_Calls \in Nat /\ Cardinality(SK_Pools) >= SK_Calls
  /\ Cardinality(SK_Pools) > Cardinality(SK_Sockets) + Cardinality(SK_Addrs)

VARIABLES
  sk,       \* sockets, addresses, descriptors and pools: one state
  sk_count

sk_vars == <<sk, sk_count>>

NoSocket ==
  [type |-> "none", fd |-> 0, pool |-> 0, nonblock |-> FALSE, buffer |-> "none"]
NoPlace == [pool |-> 0, port |-> 0]
NoAddr == [live |-> FALSE, pool |-> 0, borrowed |-> FALSE, at |-> NoPlace]

SK_Init ==
  /\ sk = [socket |-> [s \in SK_Sockets |-> NoSocket],
           addr |-> [a \in SK_Addrs |-> NoAddr],
           fd |-> <<>>, pools |-> {}]
  /\ sk_count = 0
-----------------------------------------------------------------------------
(* What APR does. A number is fresh when nothing has it or points to it.   *)
FreshPool(st) ==
  CHOOSE p \in SK_Pools :
    p \notin st.pools \cup {st.socket[s].pool : s \in SK_Sockets}
                      \cup {st.addr[a].pool : a \in SK_Addrs}
FreshFd(st) ==
  CHOOSE n \in SK_Pools :
    n \notin DOMAIN st.fd \cup {st.socket[s].fd : s \in SK_Sockets}

OnlyFds(st, keep) == [n \in keep |-> st.fd[n]]

(* apr_pool_destroy. Entries of a chain of addresses are memory of the     *)
(* pool they borrow.                                                       *)
PoolDestroyed(st, p) ==
  [st EXCEPT !.pools = @ \ {p},
             !.fd = OnlyFds(st, {n \in DOMAIN st.fd : st.fd[n].pool # p}),
             !.addr = [a \in SK_Addrs |->
                IF @[a].borrowed /\ @[a].pool = p THEN NoAddr ELSE @[a]]]

FdMade(st, p, how) ==
  [st EXCEPT !.fd = [n \in DOMAIN @ \cup {FreshFd(st)} |->
     IF n \in DOMAIN @ THEN @[n]
     ELSE [pool |-> p, at |-> NoPlace, state |-> how, nonblock |-> FALSE,
           queue |-> 0]]]

FdClosed(st, n) == [st EXCEPT !.fd = OnlyFds(st, DOMAIN @ \ {n})]
-----------------------------------------------------------------------------
(* Addresses. AddrPoolOwnedAlways is the mutant that forgets borrowing.    *)
AddrPoolOwnedAlways(addr) == addr.pool # 0
AddrPoolOwned(addr) == addr.pool # 0 /\ ~addr.borrowed

(* jr_sockaddr_undo.                                                       *)
AddrUndone(st, addr) ==
  IF AddrPoolOwned(addr) THEN PoolDestroyed(st, addr.pool) ELSE st

(* jr_sockaddr_reset: a borrowed pool is kept, one's own is made anew; and *)
(* with it jr_sockaddr_lookup, jr_sockaddr_alloc: the address is made in   *)
(* the pool. Pairs of the state and the structure; port 0 is an address    *)
(* that was not found, or not filled in.                                   *)
AddrFilled(st, addr, port) ==
  LET clean == AddrUndone(st, addr)
      p == IF addr.borrowed THEN addr.pool ELSE FreshPool(clean) IN
  [st |-> [clean EXCEPT !.pools = @ \cup (IF addr.borrowed THEN {} ELSE {p})],
   addr |-> [live |-> TRUE, pool |-> p, borrowed |-> addr.borrowed,
             at |-> IF port = 0 THEN NoPlace ELSE [pool |-> p, port |-> port]]]
NewAddr == [NoAddr EXCEPT !.live = TRUE]

(* jr_sockaddr_set_pool, of a structure that has none.                     *)
Borrowing(p) == [NewAddr EXCEPT !.pool = p, !.borrowed = TRUE]
-----------------------------------------------------------------------------
(* jr_socket_init_pool, when the pool can be made.                         *)
SocketPooled(st, s) ==
  IF st.socket[s].pool # 0 THEN st
  ELSE LET p == FreshPool(st) IN
       [st EXCEPT !.pools = @ \cup {p}, !.socket[s].pool = p]

(* jr_socket_open_generic, when all goes well. An open socket is           *)
(* forgotten: it stays open in the pool it shares with the new one.        *)
SocketOpened(st, s, how) ==
  LET made == SocketPooled(st, s) IN
  [FdMade(made, made.socket[s].pool, how) EXCEPT !.socket[s].fd = FreshFd(made)]

(* jr_socket_close, whatever fails in it. When the flush fails, the        *)
(* descriptor is closed by the end of its pool.                            *)
SocketClosed(st, s, flushed) ==
  LET text == st.socket[s].buffer = "text"
      shut == IF (text => flushed) /\ st.socket[s].fd # 0
              THEN FdClosed(st, st.socket[s].fd) ELSE st
      gone == IF st.socket[s].pool # 0
              THEN PoolDestroyed(shut, st.socket[s].pool) ELSE shut IN
  [gone EXCEPT !.socket[s].fd = 0, !.socket[s].pool = 0,
               !.socket[s].buffer = IF text /\ flushed THEN "empty" ELSE @]

(* The mode, of the structure and of the descriptor. The flag is set also  *)
(* when the option cannot be.                                              *)
ModeSet(st, s, value, works) ==
  [st EXCEPT !.socket[s].nonblock = value,
             !.fd = [n \in DOMAIN @ |->
                IF works /\ n = st.socket[s].fd
                THEN [@[n] EXCEPT !.nonblock = value] ELSE @[n]]]
-----------------------------------------------------------------------------
IsOpen(s) == sk.socket[s].fd # 0
Stream(s) == sk.socket[s].type = "stream"
SK_Call == sk_count < SK_Calls /\ sk_count' = sk_count + 1

SK_SocketInit(s) ==
  /\ SK_Call /\ sk.socket[s].type = "none"
  /\ \E type \in {"stream", "dgram", "other"} : sk' = [sk EXCEPT !.socket[s].type = type]

(* The structure is not to be used again before it is initialised.         *)
SK_SocketUndo(s) ==
  /\ SK_Call /\ sk.socket[s].type # "none"
  /\ LET socket == sk.socket[s]
         shut == IF socket.fd # 0 THEN FdClosed(sk, socket.fd) ELSE sk
         gone == IF socket.pool # 0 THEN PoolDestroyed(shut, socket.pool) ELSE shut IN
     sk' = [gone EXCEPT !.socket[s] = NoSocket]

(* A pool is left behind by a type that is bad, and by a socket that       *)
(* cannot be made.                                                         *)
SK_Open(s) ==
  /\ SK_Call /\ sk.socket[s].type # "none"
  /\ \/ sk' = SocketPooled(sk, s)
     \/ /\ sk.socket[s].type # "other"
        /\ \E how \in {"new", "connected"} : sk' = SocketOpened(sk, s, how)

(* Text that a close has left behind would be sent to no descriptor.       *)
SK_Close(s) ==
  /\ SK_Call /\ sk.socket[s].type # "none"
  /\ IsOpen(s) \/ sk.socket[s].buffer # "text"
  /\ \E flushed \in BOOLEAN : sk' = SocketClosed(sk, s, flushed)

(* What follows when a call has opened the socket and does not succeed.    *)
CleanedUp(st, s, opened) ==
  IF opened THEN {SocketClosed(st, s, flushed) : flushed \in BOOLEAN} ELSE {st}

Listeners(st, port) ==
  {n \in DOMAIN st.fd : st.fd[n].state = "listening" /\ st.fd[n].at.port = port}

(* The address has a pool of its own, which ends with the call.            *)
SK_Connect(s) ==
  /\ SK_Call /\ Stream(s)
  /\ \E port \in SK_Ports, step \in {"lookup", "open", "connect", "mode", "done"} :
       LET found == AddrFilled(sk, NewAddr, IF step = "lookup" THEN 0 ELSE port)
           opened == step \in {"connect", "mode", "done"}
           made == CASE step = "lookup" -> found.st
                     [] step = "open" -> SocketPooled(found.st, s)
                     [] OTHER -> SocketOpened(found.st, s, "new")
           queued == IF step \in {"mode", "done"}
                     THEN [made EXCEPT !.fd[made.socket[s].fd].state = "connected",
                             !.fd[CHOOSE l \in Listeners(made, port) : TRUE].queue = @ + 1]
                     ELSE made
           moded == IF opened /\ step # "connect" /\ sk.socket[s].nonblock
                    THEN ModeSet(queued, s, TRUE, step = "done") ELSE queued IN
       /\ step \in {"mode", "done"} => Listeners(sk, port) # {}
       /\ step = "mode" => sk.socket[s].nonblock
       /\ sk' \in CleanedUp(AddrUndone(moded, found.addr), s, opened /\ step # "done")

(* jr_socket_offer_service, jr_socket_open_dgram. The bound socket points  *)
(* to the address, which is made in the socket's pool for that reason.     *)
SK_OfferService(s) ==
  /\ SK_Call /\ sk.socket[s].type # "none"
  /\ \E port \in SK_Ports,
        step \in {"lookup", "open", "bind", "listen", "mode", "done"} :
       LET pooled == SocketPooled(sk, s)
           found == AddrFilled(pooled, Borrowing(pooled.socket[s].pool),
                               IF step = "lookup" THEN 0 ELSE port)
           opened == step \in {"bind", "listen", "mode", "done"}
           made == IF opened THEN SocketOpened(found.st, s, "new") ELSE found.st
           n == made.socket[s].fd
           bound == IF opened /\ step # "bind"
                    THEN [made EXCEPT !.fd[n].at = found.addr.at,
                            !.fd[n].state = IF Stream(s) /\ step # "listen"
                                            THEN "listening" ELSE "bound"]
                    ELSE made
           moded == IF step \in {"mode", "done"} /\ sk.socket[s].nonblock
                    THEN ModeSet(bound, s, TRUE, step = "done") ELSE bound IN
       /\ opened => sk.socket[s].type # "other"
       /\ opened /\ step # "bind" =>
            \A m \in DOMAIN sk.fd : sk.fd[m].at.port # port
       /\ step = "listen" => Stream(s)
       /\ step = "mode" => sk.socket[s].nonblock
       /\ sk' \in CleanedUp(AddrUndone(moded, found.addr), s, opened /\ step # "done")

(* The new descriptor lives in the client's pool and blocks, whatever the  *)
(* client's flag says. A failure leaves the pool.                          *)
SK_Accept(s, c) ==
  /\ SK_Call /\ s # c /\ Stream(s) /\ Stream(c)
  /\ IsOpen(s) /\ sk.fd[sk.socket[s].fd].state = "listening"
  /\ \/ sk' = SocketPooled(sk, c)
     \/ /\ sk.fd[sk.socket[s].fd].queue > 0
        /\ sk' = [SocketOpened(sk, c, "connected")
                    EXCEPT !.fd[sk.socket[s].fd].queue = @ - 1]

(* A flush that fails ends the call; one that does not may be partial.     *)
Flushes(s) ==
  IF sk.socket[s].buffer = "text" THEN {"empty", "text"} ELSE {sk.socket[s].buffer}

SK_Shutdown(s) ==
  /\ SK_Call /\ IsOpen(s)
  /\ \E buffer \in Flushes(s), works \in BOOLEAN :
       sk' = [sk EXCEPT !.socket[s].buffer = buffer,
                        !.fd[sk.socket[s].fd].state = IF works THEN "shut" ELSE @]

SK_SetNonblock(s) ==
  /\ SK_Call /\ sk.socket[s].type # "none"
  /\ \E value, works \in BOOLEAN : sk' = ModeSet(sk, s, value, works)

(* jr_socket_send, jr_socket_sendto_iov and jr_socket_flush, as the buffer *)
(* sees them.                                                              *)
SK_Send(s) ==
  /\ SK_Call /\ IsOpen(s) /\ Stream(s)
  /\ \E buffer \in Flushes(s) : sk' = [sk EXCEPT !.socket[s].buffer = buffer]

(* A datagram socket is refused after the buffer has been made.            *)
SK_Printf(s) ==
  /\ SK_Call /\ IsOpen(s)
  /\ sk' = [sk EXCEPT !.socket[s].buffer =
              IF Stream(s) THEN "text" ELSE IF @ = "none" THEN "empty" ELSE @]
-----------------------------------------------------------------------------
SK_AddrInit(a) ==
  /\ SK_Call /\ ~sk.addr[a].live
  /\ sk' = [sk EXCEPT !.addr[a] = NewAddr]

SK_AddrUndo(a) ==
  /\ SK_Call /\ sk.addr[a].live
  /\ sk' = [AddrUndone(sk, sk.addr[a]) EXCEPT !.addr[a] = NoAddr]

SK_Lookup(a) ==
  /\ SK_Call /\ sk.addr[a].live
  /\ \E port \in SK_Ports \cup {0} :
       LET found == AddrFilled(sk, sk.addr[a], port) IN
       sk' = [found.st EXCEPT !.addr[a] = found.addr]

(* jr_sockaddr_init_foreach: an entry of the chain of addresses that were  *)
(* found with the one of a. It is memory of that pool and borrows it.      *)
SK_InitForeach(a, b) ==
  /\ SK_Call /\ sk.addr[a].at # NoPlace /\ ~sk.addr[b].live
  /\ \E port \in SK_Ports :
       sk' = [sk EXCEPT !.addr[b] =
               [Borrowing(sk.addr[a].pool) EXCEPT !.at = [pool |-> sk.addr[a].pool,
                                                          port |-> port]]]

SK_Dup(a, b) ==
  /\ SK_Call /\ a # b /\ sk.addr[a].at # NoPlace /\ sk.addr[b].live
  /\ LET copy == AddrFilled(sk, sk.addr[b], sk.addr[a].at.port) IN
     /\ copy.st.addr[a].live
     /\ sk' = [copy.st EXCEPT !.addr[b] = copy.addr]

(* The sender's address is made anew before it is known that there is one. *)
SK_RecvFrom(s, a) ==
  /\ SK_Call /\ IsOpen(s) /\ sk.socket[s].type = "dgram" /\ sk.addr[a].live
  /\ \E port \in SK_Ports \cup {0} :
       LET sender == AddrFilled(sk, sk.addr[a], port) IN
       sk' = [sender.st EXCEPT !.addr[a] = sender.addr]

SK_Next ==
  \/ \E s \in SK_Sockets :
       \/ SK_SocketInit(s) \/ SK_SocketUndo(s) \/ SK_Open(s) \/ SK_Close(s)
       \/ SK_Connect(s) \/ SK_OfferService(s) \/ SK_Shutdown(s)
       \/ SK_SetNonblock(s) \/ SK_Send(s) \/ SK_Printf(s)
       \/ \E c \in SK_Sockets : SK_Accept(s, c)
       \/ \E a \in SK_Addrs : SK_RecvFrom(s, a)
  \/ \E a \in SK_Addrs :
       \/ SK_AddrInit(a) \/ SK_AddrUndo(a) \/ SK_Lookup(a)
       \/ \E b \in SK_Addrs : SK_InitForeach(a, b) \/ SK_Dup(a, b)

SK_Spec == SK_Init /\ [][SK_Next]_sk_vars
-----------------------------------------------------------------------------
(* Whatever fails half way, nothing points into a pool that is gone, not   *)
(* even the address that APR keeps of a bound socket, and no pool is       *)
(* without exactly one structure that will destroy it: a socket's          *)
(* descriptor lives in its own pool, and a socket without a pool is        *)
(* closed.                                                                 *)
SK_NothingDangles ==
  LET owners(p) == {s \in SK_Sockets : sk.socket[s].pool = p}
        \cup {a \in SK_Addrs : sk.addr[a].pool = p /\ ~sk.addr[a].borrowed} IN
  /\ \A s \in SK_Sockets : IsOpen(s) =>
       /\ sk.socket[s].fd \in DOMAIN sk.fd
       /\ sk.fd[sk.socket[s].fd].pool = sk.socket[s].pool
  /\ \A p \in SK_Pools :
       IF p \in sk.pools THEN Cardinality(owners(p)) = 1 ELSE owners(p) = {}
  /\ \A n \in DOMAIN sk.fd : {sk.fd[n].pool, sk.fd[n].at.pool} \subseteq sk.pools \cup {0}
  /\ \A a \in SK_Addrs : {sk.addr[a].pool, sk.addr[a].at.pool} \subseteq sk.pools \cup {0}
=============================================================================
