-------------------------------- MODULE Matrix --------------------------------
(***************************************************************************)
(* The matrices of math/matrix.c, as far as the filter of P2 uses them.    *)
(* The numbers are those of a field of Prime elements: they are exact,     *)
(* where those of the code are rounded, and every identity between them is *)
(* one the code would compute without rounding.  Rows and columns count    *)
(* from 0, as in the code.                                                 *)
(***************************************************************************)
EXTENDS Naturals

CONSTANT Prime

Field == 0 .. Prime - 1

Plus(x, y) == (x + y) % Prime
Minus(x, y) == (x + Prime - y) % Prime
Times(x, y) == (x * y) % Prime
Negative(x) == Minus(0, x)

\* The number that is not a divisor of 1, 0, divides to 0.
Reciprocal(x) == IF x = 0 THEN 0 ELSE CHOOSE y \in Field : Times(x, y) = 1

\* The sum of f(0), ..., f(n - 1), and the product
Sum(n, f(_)) == LET s[k \in 0 .. n] == IF k = 0 THEN 0 ELSE Plus(s[k - 1], f(k - 1)) IN s[n]
Product(n, f(_)) == LET p[k \in 0 .. n] == IF k = 0 THEN 1 ELSE Times(p[k - 1], f(k - 1)) IN p[n]

-------------------------------------------------------------------------------
\* matrix_t
New(rows, cols, Entry(_, _)) ==
  [rows |-> rows, cols |-> cols,
   data |-> [i \in 0 .. rows - 1, j \in 0 .. cols - 1 |-> Entry(i, j)]]

\* mat_valid, with the size
Valid(m, rows, cols) ==
  /\ m.rows = rows /\ m.cols = cols
  /\ m.data \in [(0 .. rows - 1) \X (0 .. cols - 1) -> Field]

Eye(n) == New(n, n, LAMBDA i, j : IF i = j THEN 1 ELSE 0)
Zero(rows, cols) == New(rows, cols, LAMBDA i, j : 0)

Add(m1, m2) == New(m1.rows, m1.cols, LAMBDA i, j : Plus(m1.data[i, j], m2.data[i, j]))
Sub(m1, m2) == New(m1.rows, m1.cols, LAMBDA i, j : Minus(m1.data[i, j], m2.data[i, j]))
Scale(m, x) == New(m.rows, m.cols, LAMBDA i, j : Times(m.data[i, j], x))
Transpose(m) == New(m.cols, m.rows, LAMBDA i, j : m.data[j, i])
Mul(m1, m2) ==
  New(m1.rows, m2.cols,
      LAMBDA i, j : Sum(m1.cols, LAMBDA k : Times(m1.data[i, k], m2.data[k, j])))

\* mat_minor, without a row and a column
Minor(m, row, col) ==
  New(m.rows - 1, m.cols - 1,
      LAMBDA i, j : m.data[IF i < row THEN i ELSE i + 1, IF j < col THEN j ELSE j + 1])

\* mat_luDecomposition, both factors in one matrix: nothing is pivoted.
LU(m) ==
  LET lu[c \in (0 .. m.rows - 1) \X (0 .. m.rows - 1)] ==
        LET i == c[1]
            j == c[2]
            rest == Minus(m.data[i, j], Sum(IF i < j THEN i ELSE j,
                                            LAMBDA k : Times(lu[<<i, k>>], lu[<<k, j>>])))
        IN IF i <= j THEN rest ELSE Times(rest, Reciprocal(lu[<<j, j>>]))
  IN lu
LUFails(lu, n) == \E i \in 0 .. n - 2 : lu[<<i, i>>] = 0

Det(m) == LET lu == LU(m)
          IN IF LUFails(lu, m.rows) THEN 0 ELSE Product(m.rows, LAMBDA i : lu[<<i, i>>])

MutantAdjugate(m) == New(m.rows, m.cols, LAMBDA i, j : Det(Minor(m, i, j)))

Adjugate(m) ==
  New(m.rows, m.cols, LAMBDA i, j :
        LET x == Det(Minor(m, i, j)) IN IF (i + j) % 2 = 0 THEN x ELSE Negative(x))

\* mat_inv, of a matrix with more than one row; dest is not written if it fails
InverseFails(m) == Det(m) = 0
Inverse(m, dest) ==
  LET det == Det(m)
      scale == Reciprocal(det)
  IN IF det = 0 THEN dest ELSE Scale(Transpose(Adjugate(m)), scale)
===============================================================================
