-------------------------------- MODULE Filter --------------------------------
(***************************************************************************)
(* The filter that estimates the orientation of P2 and its covariance      *)
(* (application/p2/imu/kalmanFilter.c, with math/quaternion.c), and the    *)
(* calibration of the way P2 is mounted (imu/offsetCalibration.c).  The    *)
(* main loop runs one after the other; numbers are those of Matrix.        *)
(***************************************************************************)
EXTENDS Matrix, Sequences

CONSTANTS
  Angles,     \* the cosines and sines of half the angles turned around the three axes
  Passed,     \* the time since the last samples
  Measured,   \* unit vectors of the accelerometer and the magnetometer
  Noise,      \* the parameters Q and R, with which it starts,
  Parameters, \* and those that are sent
  Sqrt2,      \* bounds: 0.70711, and how many steps there are
  MaxSteps,
  NULL

VARIABLES
  state,      \* as a 4x1 matrix
  P, Q,
  Raccel, Rmag,
  update,     \* history: H, R and K of the last step if that was an update whose
              \* matrix S could be inverted, or NULL
  turn,       \* history: the state before, and w, if it was a prediction, or NULL
  offset,     \* offsetRotation
  ct,         \* g_offsetCt while a calibration runs, or NULL
  fixed,      \* history: the state, scaled, when the last calibration started, or
              \* NULL if P2 has turned before its end
  steps

vars == <<state, P, Q, Raccel, Rmag, update, turn, offset, ct, fixed, steps>>

Vector(v) == New(Len(v), 1, LAMBDA i, j : v[i + 1])
Quaternion(q) == Valid(q, 4, 1)
Unit == Vector(<<1, 0, 0, 0>>)

TypeOK ==
  /\ Quaternion(state) /\ Quaternion(offset)
  /\ Valid(P, 4, 4) /\ Valid(Q, 4, 4) /\ Valid(Raccel, 3, 3) /\ Valid(Rmag, 3, 3)
  /\ ct = NULL \/ ct \in 0 .. MaxSteps
  /\ fixed = NULL \/ Quaternion(fixed)
  /\ steps \in 0 .. MaxSteps

\* kf_init and kf_set_parameter, as imu_init calls them
Init ==
  /\ state = Unit /\ offset = Unit
  /\ P = Eye(4) /\ Q = Scale(Eye(4), Noise.Q)
  /\ Raccel = Scale(Eye(3), Noise.R) /\ Rmag = Scale(Eye(3), Noise.mag)
  /\ update = NULL /\ turn = NULL /\ ct = NULL /\ fixed = NULL
  /\ steps = 0

-------------------------------------------------------------------------------
\* vec_mul_dot of the first three numbers from n on, and vec_mul_cross
Dot(q1, q2) == Sum(3, LAMBDA k : Times(q1.data[k + 1, 0], q2.data[k + 1, 0]))
Cross(q1, q2, i) ==
  LET a == (i % 3) + 1
      b == ((i + 1) % 3) + 1
  IN Minus(Times(q1.data[a, 0], q2.data[b, 0]), Times(q1.data[b, 0], q2.data[a, 0]))

\* quat_mul
Turned(q1, q2) ==
  New(4, 1, LAMBDA i, j :
        IF i = 0 THEN Minus(Times(q1.data[0, 0], q2.data[0, 0]), Dot(q1, q2))
        ELSE Plus(Cross(q1, q2, i), Plus(Times(q1.data[0, 0], q2.data[i, 0]),
                                         Times(q2.data[0, 0], q1.data[i, 0]))))

LengthSqr(v) == Sum(v.rows, LAMBDA k : Times(v.data[k, 0], v.data[k, 0]))

\* vec_normalize. A number that is not a square has no root here.
Roots(v) == {x \in 1 .. Prime \div 2 : Times(x, x) = LengthSqr(v)}
Normalized(v) == IF LengthSqr(v) = 0 THEN v ELSE Scale(v, Reciprocal(CHOOSE x \in Roots(v) : TRUE))
HasLength(v) == LengthSqr(v) = 0 \/ Roots(v) # {}

-------------------------------------------------------------------------------
Step == steps < MaxSteps /\ steps' = steps + 1

\* kf_set_parameter
SetParameter(q, r) ==
  /\ Step
  /\ Q' = Scale(Eye(4), q)
  /\ Raccel' = Scale(Eye(3), r)
  /\ update' = NULL /\ turn' = NULL
  /\ UNCHANGED <<state, P, Rmag, offset, ct, fixed>>

\* kf_predict: the rotation w around three axes, and the matrix that is its
\* product from the left (the comment says from the right)
Rotation(a) ==
  LET c(i) == a[i].cos
      s(i) == a[i].sin
      T(x, y, z) == Times(x, Times(y, z))
  IN Vector(<<Minus(T(c(1), c(2), c(3)), T(s(1), s(2), s(3))),
              Plus(T(s(1), c(2), c(3)), T(c(1), s(2), s(3))),
              Minus(T(c(1), s(2), c(3)), T(s(1), c(2), s(3))),
              Plus(T(c(1), c(2), s(3)), T(s(1), s(2), c(3)))>>)

F(w) ==
  LET x == [i \in 0 .. 3 |-> w.data[i, 0]]
      n == [i \in 0 .. 3 |-> Negative(w.data[i, 0])]
      f == <<<<x[0], n[1], n[2], n[3]>>,
             <<x[1], x[0], n[3], x[2]>>,
             <<x[2], x[3], x[0], n[1]>>,
             <<x[3], n[2], x[1], x[0]>>>>
  IN New(4, 4, LAMBDA i, j : f[i + 1][j + 1])

Predict(angles, time) ==
  LET w == Rotation(angles)
      f == F(w)
  IN /\ Step
     /\ Valid(w, 4, 1) /\ Valid(f, 4, 4)
     /\ state' = Mul(f, state)
     /\ P' = Add(Mul(Mul(f, P), Transpose(f)), Scale(Q, time))
     /\ turn' = [from |-> state, w |-> w] /\ update' = NULL
     /\ fixed' = IF ct = NULL THEN fixed ELSE NULL
     /\ UNCHANGED <<Q, Raccel, Rmag, offset, ct>>

\* The matrices H of kf_update_accel and kf_update_mag
Doubled(rows) == New(3, 4, LAMBDA i, j : Times(2, rows[i + 1][j + 1]))
HAccel ==
  LET x(i) == state.data[i, 0]
      n(i) == Negative(x(i))
  IN Doubled(<<<<x(2), x(3), x(0), x(1)>>,
               <<n(1), n(0), x(3), x(2)>>,
               <<x(0), n(1), n(2), x(3)>>>>)
HMag ==
  LET x(i) == state.data[i, 0]
      n(i) == Negative(x(i))
  IN Doubled(<<<<n(0), n(1), x(2), x(3)>>,
               <<n(3), n(2), n(1), n(0)>>,
               <<x(2), n(3), x(0), n(1)>>>>)

\* S is inverted exactly if none of its pivots is 0 and none of those of its
\* minors is unless the minor is a product with it. Otherwise mat_inv fails, or
\* takes a minor for 0 that is not.
TrueDet(m) == Minus(Times(m.data[0, 0], m.data[1, 1]), Times(m.data[0, 1], m.data[1, 0]))
HasPivots(m) ==
  /\ ~LUFails(LU(m), m.rows)
  /\ \A i, j \in 0 .. 2 : Minor(m, i, j).data[0, 0] # 0 \/ TrueDet(Minor(m, i, j)) = 0

Update(H, R, z) ==
  LET PHt == Mul(P, Transpose(H))
      S == Add(Mul(H, PHt), R)
      Sinv == Inverse(S, Zero(3, 3))
      K == Mul(PHt, Sinv)
      y == Sub(z, Mul(H, state))
  IN /\ Step
     /\ Valid(H, 3, 4) /\ Valid(PHt, 4, 3) /\ Valid(S, 3, 3) /\ Valid(Sinv, 3, 3) /\ Valid(K, 4, 3)
     /\ state' = Add(state, Mul(K, y))
     /\ P' = Mul(Sub(Eye(4), Mul(K, H)), P)
     /\ update' = IF HasPivots(S) /\ ~InverseFails(S) THEN [H |-> H, R |-> R, K |-> K] ELSE NULL
     /\ turn' = NULL
     /\ fixed' = IF ct = NULL THEN fixed ELSE NULL
     /\ UNCHANGED <<Q, Raccel, Rmag, offset, ct>>

UpdateAccel(z) == Update(HAccel, Raccel, z)
UpdateMag(z) == Update(HMag, Rmag, z)

-------------------------------------------------------------------------------
\* What the calibration takes from the filter's state, normalized
Opposite(q) == New(4, 1, LAMBDA i, j : IF i = 0 THEN Negative(q.data[0, 0]) ELSE q.data[i, 0])

\* app_imu_send_msgPumpCallback, which calls runOffsetCalibration. kf_getState
\* normalizes the state.
Send ==
  LET new == Normalized(state)
      Mean(x, y) == Times(Plus(Times(x, ct), y), Reciprocal((ct + 1) % Prime))
      run == New(4, 1, LAMBDA i, j : Mean(offset.data[i, 0], Opposite(new).data[i, 0]))
  IN /\ Step
     /\ HasLength(state)
     /\ state' = new
     /\ IF ct = NULL
          THEN UNCHANGED <<offset, ct>>
          ELSE HasLength(run) /\ offset' = Normalized(run) /\ ct' = ct + 1
     /\ update' = NULL /\ turn' = NULL
     /\ UNCHANGED <<P, Q, Raccel, Rmag, fixed>>

StartOffsetCalibration ==
  /\ Step
  /\ ct = NULL
  /\ HasLength(state)
  /\ ct' = 0
  /\ state' = Normalized(state)
  /\ offset' = Opposite(Normalized(state))
  /\ fixed' = Normalized(state)
  /\ update' = NULL /\ turn' = NULL
  /\ UNCHANGED <<P, Q, Raccel, Rmag>>

\* P2 lies on its front while it is calibrated.
OnFront == Vector(<<Sqrt2, Negative(Sqrt2), 0, 0>>)

StopOffsetCalibration ==
  /\ Step
  /\ ct # NULL
  /\ ct' = NULL
  /\ offset' = Turned(offset, OnFront)
  /\ update' = NULL /\ turn' = NULL
  /\ UNCHANGED <<state, P, Q, Raccel, Rmag, fixed>>

\* (Behind the bound nothing is modelled.)
StepsAreDone == steps = MaxSteps /\ UNCHANGED vars

Next ==
  \/ \E p \in Parameters : SetParameter(p.Q, p.R)
  \/ \E a \in Angles, t \in Passed : Predict(a, t)
  \/ \E z \in Measured : UpdateAccel(z) \/ UpdateMag(z)
  \/ Send \/ StartOffsetCalibration \/ StopOffsetCalibration
  \/ StepsAreDone

Spec == Init /\ [][Next]_vars

-------------------------------------------------------------------------------
\* The numbers mean what the filter takes them for, after any sequence of steps.
\* The covariance stays symmetric; after an update it is the one the optimal gain
\* leaves, K R = P H', so the inverse from the minors was one; a prediction turns
\* the state by a quaternion and keeps its length; and P2, calibrated while it does
\* not move, sends that it lies on its front, however often the average was taken.
\* (An update is left out if mat_inv, which does not pivot, met a 0.)
FilterIsExact ==
  /\ P = Transpose(P)
  /\ update # NULL => Mul(update.K, update.R) = Mul(P, Transpose(update.H))
  /\ turn # NULL => /\ state = Turned(turn.w, turn.from)
                    /\ LengthSqr(state) = LengthSqr(turn.from)
  /\ (ct = NULL /\ fixed # NULL) /\ LengthSqr(fixed) = 1 =>
       Turned(fixed, offset) = Scale(OnFront, Negative(1))
===============================================================================
