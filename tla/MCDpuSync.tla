----------------------------- MODULE MCDpuSync -----------------------------
(* Four tasklets and six programs: two barriers and the semaphore in       *)
(* turn, contention on a semaphore, semaphores that start below 0 and at   *)
(* the limit of the byte, a handshake two tasklets wait for, and virtual   *)
(* mutexes that share a byte or a hardware mutex, next to a barrier of     *)
(* one.                                                                    *)
EXTENDS DpuSync, TLC

CONSTANTS t1, t2, t3, t4, b1, b2, b3, s1, s2, s3

C(kind, on) == [kind |-> kind, on |-> on]

MCBarrierSize == b1 :> 4 @@ b2 :> 2 @@ b3 :> 1
MCSemCount == s1 :> 0 @@ s2 :> -1 @@ s3 :> 127
MCPrograms ==
  { t1 :> <<C("barrier", b1), C("take", s1), C("barrier", b1)>>
      @@ t2 :> <<C("barrier", b1), C("give", s1), C("barrier", b1)>>
      @@ t3 :> <<C("barrier", b1), C("barrier", b1)>>
      @@ t4 :> <<C("barrier", b1), C("barrier", b1)>>,
    t1 :> <<C("barrier", b1), C("barrier", b2)>>
      @@ t2 :> <<C("barrier", b1), C("barrier", b2)>>
      @@ t3 :> <<C("barrier", b1), C("barrier", b2)>>
      @@ t4 :> <<C("barrier", b1), C("barrier", b2)>>,
    t1 :> <<C("take", s1), C("give", s1)>>
      @@ t2 :> <<C("take", s1), C("give", s1)>>
      @@ t3 :> <<C("take", s1)>>
      @@ t4 :> <<C("give", s1), C("give", s1)>>,
    t1 :> <<C("take", s2)>>
      @@ t2 :> <<C("give", s2), C("give", s3)>>
      @@ t3 :> <<C("give", s2)>>
      @@ t4 :> <<C("take", s3)>>,
    t1 :> <<C("notify", t1), C("wait_for", t2)>>
      @@ t2 :> <<C("wait_for", t1), C("notify", t2)>>
      @@ t3 :> <<C("wait_for", t1), C("notify", t3)>>
      @@ t4 :> <<C("wait_for", t3)>>,
    t1 :> <<C("vlock", 0), C("vlock", 8), C("vunlock", 0), C("vunlock", 8)>>
      @@ t2 :> <<C("vlock", 0), C("vunlock", 0), C("vlock", 16), C("vunlock", 16)>>
      @@ t3 :> <<C("vlock", 1), C("vunlock", 1)>>
      @@ t4 :> <<C("barrier", b3), C("barrier", b3)>> }
=============================================================================
