---------------------------- MODULE MCDevicePool ----------------------------
(* Instances of DevicePool: one file system per profile. *)
EXTENDS DevicePool

Chunk(log, size, profile, stripes) ==
  [log |-> log, size |-> size, profile |-> profile, stripeLen |-> StripeLen, sub |-> 2,
   stripes |-> stripes]
Stripe(dev, off) == [dev |-> dev, off |-> off]
Leg(dev) == [dev |-> dev, devid |-> dev, good |-> TRUE]

\* A SYSTEM chunk that is mirrored on the first two devices, and a data chunk.
Raid(profile, size, stripes, lists) ==
  [chunks |-> <<Chunk(20, 1, "raid1", <<Stripe(1, 2), Stripe(2, 3)>>),
                Chunk(30, size, profile, stripes)>>,
   boot |-> 1, root |-> 30, units |-> 20, lists |-> lists]

Three == <<Stripe(1, 4), Stripe(2, 5), Stripe(3, 6)>>
Four == Three \o <<Stripe(4, 4)>>

\* All devices, from another primary, one device missing, one alone.
Lists(n) ==
  {[i \in 1 .. n |-> Leg(i)], [i \in 1 .. n |-> Leg(n + 1 - i)],
   [i \in 1 .. n - 1 |-> Leg(i)], <<Leg(2)>>}

RaidImages == {
  Raid("raid0", 18, Three, Lists(3)),
  Raid("raid1", 5, <<Stripe(1, 4), Stripe(2, 6)>>, Lists(2)),
  Raid("raid5", 16, Three, Lists(3)),
  Raid("raid6", 16, Four, Lists(4)),
  Raid("raid10", 12, Four, Lists(4))
}

\* Devices that cannot be pooled: an unreadable one, a second with the same devid,
\* one without a devid.
Odd == {
  Raid("raid1", 3, <<Stripe(1, 4), Stripe(2, 6)>>,
       {<<Leg(1), [Leg(2) EXCEPT !.good = FALSE], Leg(3)>>,
        <<[Leg(1) EXCEPT !.good = FALSE], Leg(2)>>,
        <<Leg(1), Leg(1)>>, <<Leg(1), [Leg(2) EXCEPT !.devid = 0]>>,
        <<Leg(1), Leg(2), Leg(2)>>, <<[Leg(1) EXCEPT !.devid = 0]>>}),
  \* a chunk whose profile is not known, one that does not say its sub_stripes
  Raid("other", 12, Three, {[i \in 1 .. 3 |-> Leg(i)]}),
  [Raid("raid10", 8, Four, {[i \in 1 .. 4 |-> Leg(i)], <<Leg(2), Leg(3)>>})
     EXCEPT !.chunks[2].sub = 0],
  \* a chunk whose stripes have another length
  [Raid("raid0", 12, Three, {[i \in 1 .. 3 |-> Leg(i)]}) EXCEPT !.chunks[2].stripeLen = 1]
}

\* One device with two copies, and the two adjacent chunks of the images of Format,
\* where an address is the offset.
Single == {
  [chunks |-> <<Chunk(20, 1, "dup", <<Stripe(1, 1), Stripe(1, 2)>>),
                Chunk(30, 4, "dup", <<Stripe(1, 4), Stripe(1, 10)>>)>>,
   boot |-> 1, root |-> 30, units |-> 15, lists |-> {<<Leg(1)>>}],
  [chunks |-> <<Chunk(1, 2, "single", <<Stripe(1, 1)>>),
                Chunk(3, 3, "single", <<Stripe(1, 3)>>)>>,
   boot |-> 1, root |-> 3, units |-> 6, lists |-> {<<Leg(1)>>, <<[Leg(1) EXCEPT !.devid = 0]>>}]
}

MCImages == RaidImages \cup Odd \cup Single

\* What the proofs assume of the file systems that are written.
ASSUME ImagesFormatted == \A m \in MCImages : Formatted(m)

\* One device, and addresses that are not offsets.
Translated == {
  [chunks |-> <<Chunk(4, 3, "single", <<Stripe(1, 1)>>)>>,
   boot |-> 1, root |-> 4, units |-> 8, lists |-> {<<Leg(1)>>}]
}
=============================================================================
