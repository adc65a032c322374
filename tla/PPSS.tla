-------------------------------- MODULE PPSS --------------------------------
(***************************************************************************)
(* The password-protected secret sharing that YaoEvaluator::run wraps      *)
(* around the garbled circuits, in its two variants                        *)
(* YaoEvaluator.init.cpp and YaoEvaluator.reconstruct.cpp, with the server *)
(* of YaoGarbler.init.cpp and YaoGarbler.reconstruct.cpp.  The circuits    *)
(* themselves (YaoSession) end before the password is used.                *)
(*                                                                         *)
(* A value is an __m128i, which is two lanes of 64 bits to the operators + *)
(* and *; here a lane has the values 0 .. M - 1.  An int that meets a      *)
(* vector goes to both lanes.                                              *)
(***************************************************************************)
EXTENDS Integers, Sequences

CONSTANTS t, n,      \* (t,n) parameters in PPSS
          M,         \* values of a lane, a power of two
          Variants,  \* subset of {"init", "reconstruct"}
          H(_, _),   \* SHA-256 of two values, cut to one
          Draws,     \* the values of passwords and circuits' outputs
          R(_)       \* the first half of the SHA-256 of a value

B == INSTANCE Bitwise

Lane == 0 .. M - 1
Lanes == 0 .. 1
Value == [Lanes -> Lane]

VARIABLES
    variant,
    pc,
    coef,      \* coef[0] is the secret
    shares,    \* shares[0] is the secret
    pw, GCout,
    oprf_128,  \* rou_i
    e,
    res,       \* l_i(target)
    comin,     \* the blocks that are committed to; comout is their hash
    msg,       \* Initfinalize: the messages on the channel
    garbler,   \* "circuits" or "done"
    stored     \* what the server has received

vars == <<variant, pc, coef, shares, pw, GCout, oprf_128, e, res, comin, msg, garbler, stored>>

Zero == [l \in Lanes |-> 0]
Blank == [l \in Lanes |-> -1]   \* not written yet
Xor(u, v) == [l \in Lanes |-> B!^^(u[l], v[l])]
Plus(u, v) == [l \in Lanes |-> (u[l] + v[l]) % M]
Times(u, v) == [l \in Lanes |-> (u[l] * v[l]) % M]
Broadcast(k) == [l \in Lanes |-> k % M]

Servers == 1 .. n
points(j) == j

Init ==
    /\ variant \in Variants
    /\ pc = "start"
    /\ coef = [i \in 0 .. t |-> Blank]
    /\ shares = [j \in 0 .. n |-> Blank]
    /\ pw = Blank /\ GCout = [j \in Servers |-> Blank]
    /\ oprf_128 = [j \in Servers |-> Blank]
    /\ e = [j \in Servers |-> Blank]
    /\ res = [i \in 1 .. t + 1 |-> [target \in 0 .. n |-> Blank]]
    /\ comin = [k \in 0 .. 2 * n + 1 |-> Blank]
    /\ msg = <<>> /\ garbler = "circuits" /\ stored = <<>>
-----------------------------------------------------------------------------
(* The sum over i of coef[i] * (points[j]^i); ^ is bitwise.                *)
Dealt(c, j) ==
    LET sum[i \in -1 .. t] == IF i = -1 THEN Zero
                              ELSE Plus(sum[i - 1], Times(c[i], Broadcast(B!^^(points(j), i))))
    IN  sum[t]

Share ==
    /\ pc = "start"
    /\ coef' \in [0 .. t -> Value]
    /\ shares' = [j \in 0 .. n |-> IF j = 0 THEN coef'[0] ELSE Dealt(coef', j)]
    /\ pc' = "shared"
    /\ UNCHANGED <<variant, pw, GCout, oprf_128, e, res, comin, msg, garbler, stored>>

(* The loop that runs the circuits; what it leaves in GCout and pw is      *)
(* drawn at random.                                                        *)
RunCircuits ==
    /\ pc = "shared"
    /\ pw' \in Draws /\ GCout' \in [Servers -> Draws]
    /\ pc' = "evaluated"
    /\ UNCHANGED <<variant, coef, shares, oprf_128, e, res, comin, msg, garbler, stored>>

rou(j) == H(pw, GCout[j])

(* e_i = s_i XOR rou_i, and back in the reconstruction.                    *)
Mask ==
    /\ pc = "evaluated"
    /\ oprf_128' = [j \in Servers |-> rou(j)]
    /\ e' = [j \in Servers |-> Xor(shares[j], oprf_128'[j])]
    /\ IF variant = "init"
         THEN pc' = "commit" /\ UNCHANGED shares
         ELSE /\ shares' = [j \in 0 .. n |-> IF j = 0 THEN shares[0] ELSE Xor(e'[j], oprf_128'[j])]
              /\ pc' = "receive"
    /\ UNCHANGED <<variant, coef, pw, GCout, res, comin, msg, garbler, stored>>
-----------------------------------------------------------------------------
(* YaoGarbler.reconstruct.cpp: a stand-in for what the server stored.      *)
SendStored ==
    /\ variant = "reconstruct" /\ garbler = "circuits" /\ pc # "start"
    /\ msg' = <<"stand-in">> /\ garbler' = "done"
    /\ UNCHANGED <<variant, pc, coef, shares, pw, GCout, oprf_128, e, res, comin, stored>>

ReceiveStored ==
    /\ pc = "receive" /\ msg # <<>>
    /\ msg' = <<>>
    /\ pc' = "basis"
    /\ UNCHANGED <<variant, coef, shares, pw, GCout, oprf_128, e, res, comin, garbler, stored>>

(* The targets whose shares are to be interpolated.                        *)
Missing == {0} \union (t + 2 .. n)

(* Division of ints, towards zero.                                         *)
Abs(a) == IF a < 0 THEN -a ELSE a
Quotient(a, b) ==
    LET q == Abs(a) \div Abs(b) IN IF (a < 0) = (b < 0) THEN q ELSE -q

(* _mm_setr_epi32(1, 0, 0, 0) is 1 in the lower lane only.                 *)
One == [l \in Lanes |-> IF l = 0 THEN 1 ELSE 0]

Basis(i, target) ==
    LET factor(j) == IF j = i THEN 1
                     ELSE Quotient(points(j) - target, points(j) - points(i))
        prod[j \in 0 .. t + 1] == IF j = 0 THEN One ELSE Times(prod[j - 1], Broadcast(factor(j)))
    IN  prod[t + 1]

Interpolate ==
    /\ pc = "basis"
    /\ res' = [i \in 1 .. t + 1 |-> [target \in 0 .. n |->
                IF target \in Missing THEN Basis(i, target) ELSE One]]
    /\ LET sum(target) ==
             LET s[i \in 0 .. t + 1] == IF i = 0 THEN Zero
                                        ELSE Plus(s[i - 1], Times(shares[i], res'[i][target]))
             IN  s[t + 1]
       IN  shares' = [j \in 0 .. n |-> IF j \in Missing THEN sum(j) ELSE shares[j]]
    /\ pc' = "commit"
    /\ UNCHANGED <<variant, coef, pw, GCout, oprf_128, e, comin, msg, garbler, stored>>
-----------------------------------------------------------------------------
(* The copies to comin: pw, e_1 .. e_n, s_1 .. s_n, r.                     *)
Comin(r) ==
    [k \in 0 .. 2 * n + 1 |->
        CASE k = 0 -> pw
          [] k \in 1 .. n -> e[k]
          [] k \in n + 1 .. 2 * n -> shares[k - n]
          [] k = 2 * n + 1 -> r]

(* C := COM((pw, e, s); r).  In Init (e, C) is sent to the server, the     *)
(* hash being as good as what is hashed.                                   *)
Commit ==
    /\ pc = "commit"
    /\ comin' = Comin(R(shares[0]))
    /\ msg' = IF variant = "init" THEN <<[e |-> e, C |-> comin']>> ELSE msg
    /\ pc' = "done"
    /\ UNCHANGED <<variant, coef, shares, pw, GCout, oprf_128, e, res, garbler, stored>>

(* YaoGarbler.init.cpp.                                                    *)
ServerReceives ==
    /\ variant = "init" /\ msg # <<>>
    /\ stored' = msg /\ msg' = <<>> /\ garbler' = "done"
    /\ UNCHANGED <<variant, pc, coef, shares, pw, GCout, oprf_128, e, res, comin>>

Evaluator == Share \/ RunCircuits \/ Mask \/ ReceiveStored \/ Interpolate \/ Commit
Garbler == SendStored \/ ServerReceives
Next == Evaluator \/ Garbler

(* Both parties are running processes.                                     *)
Fairness == WF_vars(Evaluator) /\ WF_vars(Garbler)
Spec == Init /\ [][Next]_vars /\ Fairness
-----------------------------------------------------------------------------
(* What is stored opens: whoever knows the password and has the circuits'  *)
(* outputs gets from the server's e_i the shares that were dealt, and the  *)
(* commitment is to exactly the password, the e_i, the shares and the r of *)
(* the secret, with no block left out or written twice                     *)
(* (YaoEvaluator.init.cpp:178-256).                                        *)
StoredOpens ==
    \A k \in DOMAIN stored :
        LET c == stored[k].C
            s == [j \in Servers |-> Xor(stored[k].e[j], H(pw, GCout[j]))] IN
        /\ \A j \in Servers : s[j] = Dealt(coef, j)
        /\ [i \in 1 .. 2 * n + 2 |-> c[i - 1]] = <<pw>> \o stored[k].e \o s \o <<R(coef[0])>>

(* Unmasking gives the shares back, and the interpolation leaves those     *)
(* alone that it starts from (YaoEvaluator.reconstruct.cpp:198-201,        *)
(* 301-313).                                                               *)
SharesKept ==
    pc \in {"receive", "basis", "commit", "done"} =>
        \A j \in 1 .. t + 1 : shares[j] = Dealt(coef, j)

(* A session ends, and in Init the server has what it is to store.         *)
Ends == <>(pc = "done" /\ (variant = "init" => stored # <<>>))

(* "reconstruct s, s_{t+2},...,s_n" (YaoEvaluator.reconstruct.cpp:315):    *)
(* the secret and the missing shares come out as they were dealt.          *)
Reconstructs ==
    variant = "reconstruct" /\ pc = "done" =>
        /\ shares[0] = coef[0]
        /\ \A j \in Servers : shares[j] = Dealt(coef, j)

(* t + 1 shares, and even all n, belong to one secret only: "n shares" of  *)
(* a polynomial of "Degree t" (YaoEvaluator.init.cpp:77, 132).             *)
OneSecret ==
    pc = "shared" =>
        \A c \in [0 .. t -> Value] :
            (\A j \in Servers : Dealt(c, j) = shares[j]) => c[0] = coef[0]
=============================================================================
