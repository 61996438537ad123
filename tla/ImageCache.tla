------------------------------ MODULE ImageCache ------------------------------
(***************************************************************************)
(* The cache of one kind of image over any sequence of lookups and reads   *)
(* (Lru): the protocol's requests ask it first and put what they read,     *)
(* pictures that changed their size in a rescan among them.                *)
(***************************************************************************)
EXTENDS GraphicsCache

CONSTANT ImageSizes \* bytes a picture may have

ASSUME ImageSizesAssumption == ImageSizes \subseteq Nat

VARIABLES images, \* the cache
          used    \* uids by their last use, the most recent last

imageVars == <<images, used>>

ImageInit == images = EmptyCache /\ used = <<>>

Using(uid) == used' = Append(WithoutUid(used, uid), uid)

(* resolve_with_reader finds it.                                            *)
GetImage(uid) ==
    /\ Cached(images, uid)
    /\ images' = Touch(images, uid)
    /\ Using(uid)

(* resolve_with_reader has read it; two requests may have done so.          *)
PutRead(uid) ==
    /\ \E value \in [bytes : ImageSizes] \cup {Nothing} : images' = Put(images, uid, value)
    /\ Using(uid)

(* A root that is chosen, cleared or rescanned.                             *)
ClearImages == images' = EmptyCache /\ UNCHANGED used

ImageNext == ClearImages \/ \E uid \in Uids : GetImage(uid) \/ PutRead(uid)

ImageSpec == ImageInit /\ [][ImageNext]_imageVars

(* Each class lists its members once, the classes are disjoint, the bytes   *)
(* counted are the bytes held, and both limits hold.                        *)
Accounted ==
    /\ Len(images.orderAvailable) = Cardinality(DOMAIN images.available)
    /\ Elements(images.orderAvailable) = DOMAIN images.available
    /\ Len(images.orderMissing) = Cardinality(images.missing)
    /\ Elements(images.orderMissing) = images.missing
    /\ DOMAIN images.available \cap images.missing = {}
    /\ images.bytes = TotalBytes(images.available, DOMAIN images.available)
    /\ WithinLimits(images)
    /\ Cardinality(images.missing) <= CacheLimit

LastUse(uid) == CHOOSE i \in DOMAIN used : used[i] = uid

(* What leaves, but for the picture that is replaced, was used before       *)
(* whatever of its class stays.                                             *)
OldestLeave ==
    LET gone == DOMAIN images.available \ DOMAIN images'.available
        stays == DOMAIN images'.available \cap DOMAIN images.available
    IN  stays # {} =>
            \A u \in gone \ {used'[Len(used')]}, v \in stays : LastUse(u)' < LastUse(v)'

(* The cache keeps its books, on which the eviction loop relies to end, and *)
(* evicts what was used longest ago (Lru).                                  *)
CacheKeepsItsBooks == [][Accounted' /\ OldestLeave]_imageVars
=============================================================================
