--------------------------- MODULE GraphicsCache ---------------------------
(***************************************************************************)
(* The cache of one kind of image (Lru of graphics/runtime.rs): the images *)
(* that were read, bounded in number and in bytes, and the persons or      *)
(* clubs known to have none, bounded in number.  An image is known by the  *)
(* directory it came from and by its size.                                 *)
(***************************************************************************)
EXTENDS Integers, Sequences, FiniteSetsExt

CONSTANTS Uids,       \* persons or clubs
          CacheLimit, \* images kept, and absences kept
          ByteLimit,  \* bytes of the images kept
          Nothing     \* no image

ASSUME LimitsAssumption == CacheLimit \in Nat /\ ByteLimit \in Nat

EmptyCache == [available |-> [u \in {} |-> Nothing], missing |-> {},
               orderAvailable |-> <<>>, orderMissing |-> <<>>, bytes |-> 0]

(* What is retained, in its order.                                          *)
WithoutUid(order, uid) ==
    LET kept == {i \in DOMAIN order : order[i] # uid}
        Place(i) == Cardinality({k \in kept : k <= i})
    IN  [n \in 1..Cardinality(kept) |-> order[CHOOSE i \in kept : Place(i) = n]]

Elements(order) == {order[i] : i \in DOMAIN order}

Cached(c, uid) == uid \in DOMAIN c.available \/ uid \in c.missing
CachedValue(c, uid) ==
    IF uid \in DOMAIN c.available THEN c.available[uid] ELSE Nothing

(* get: what is served becomes the most recent of its class.                *)
Touch(c, uid) ==
    IF uid \in DOMAIN c.available
    THEN [c EXCEPT !.orderAvailable = Append(WithoutUid(@, uid), uid)]
    ELSE [c EXCEPT !.orderMissing = Append(WithoutUid(@, uid), uid)]

TotalBytes(images, uids) == MapThenSumSet(LAMBDA u : images[u].bytes, uids)

Restricted(images, uids) == [u \in uids |-> images[u]]

(* Mutant: a picture that is replaced keeps its place in the order.         *)
ForgetKeepingPlace(c, uid) ==
    [available |-> Restricted(c.available, DOMAIN c.available \ {uid}),
     missing |-> c.missing \ {uid},
     orderAvailable |-> c.orderAvailable, orderMissing |-> c.orderMissing,
     bytes |-> c.bytes - TotalBytes(c.available, DOMAIN c.available \cap {uid})]

(* The cache without uid, whichever class it was in.                        *)
Forget(c, uid) ==
    [available |-> Restricted(c.available, DOMAIN c.available \ {uid}),
     missing |-> c.missing \ {uid},
     orderAvailable |-> WithoutUid(c.orderAvailable, uid),
     orderMissing |-> WithoutUid(c.orderMissing, uid),
     bytes |-> c.bytes - TotalBytes(c.available, DOMAIN c.available \cap {uid})]

(* The n images used longest ago leave.                                     *)
Evict(c, n) ==
    LET gone == Elements(SubSeq(c.orderAvailable, 1, n)) \cap DOMAIN c.available
    IN  [c EXCEPT !.available = Restricted(@, DOMAIN @ \ gone),
                  !.orderAvailable = SubSeq(@, n + 1, Len(@)),
                  !.bytes = @ - TotalBytes(c.available, gone)]

WithinLimits(c) == Len(c.orderAvailable) <= CacheLimit /\ c.bytes <= ByteLimit

(* The eviction loop: as few leave as it takes.                             *)
EvictUntilItFits(c) ==
    Evict(c, CHOOSE n \in 0..Len(c.orderAvailable) :
                 /\ WithinLimits(Evict(c, n))
                 /\ \A m \in 0..(n - 1) : ~WithinLimits(Evict(c, m)))

PutImage(c, uid, image) ==
    IF image.bytes > ByteLimit THEN c
    ELSE EvictUntilItFits(
           [c EXCEPT !.available = [u \in DOMAIN @ \cup {uid} |->
                                       IF u = uid THEN image ELSE @[u]],
                     !.orderAvailable = Append(@, uid),
                     !.bytes = @ + image.bytes])

PutAbsence(c, uid) ==
    LET order == Append(c.orderMissing, uid)
        excess == IF Len(order) > CacheLimit THEN Len(order) - CacheLimit ELSE 0
    IN  [c EXCEPT !.missing = (@ \cup {uid}) \ Elements(SubSeq(order, 1, excess)),
                  !.orderMissing = SubSeq(order, excess + 1, Len(order))]

Put(c, uid, value) ==
    IF value = Nothing THEN PutAbsence(Forget(c, uid), uid)
    ELSE PutImage(Forget(c, uid), uid, value)
=============================================================================
