----------------------------- MODULE MCKernels -----------------------------
\* The layouts that tell the kernels' loops apart, and the calls made of them.
EXTENDS Kernels

L(size, stride) == [size |-> size, stride |-> stride]
T(buffer, l)    == [at |-> buffer, size |-> l.size, stride |-> l.stride]
C(name, ins, out) == [name |-> name, ins |-> ins, out |-> out]

\* Not a vector, a part of one, several; a transposed layout; one with gaps.
Plain == {L(<<n>>, <<1>>) : n \in {0, 1, 4, 5, 9}} \cup {L(<<2, 3>>, <<1, 2>>), L(<<2, 2>>, <<3, 1>>)}

FlatCalls ==
  {C(n, <<T("a", l)>>, T(o, l)) :
     n \in {"add_scalar_out", "tanh_out", "silu_out"}, l \in Plain, o \in {"a", "o"}} \cup
  {C(n, <<T("a", l), T("b", l)>>, T(o, l)) :
     n \in {"add_out", "mul_out", "tanh_backward_out", "silu_backward_out"},
     l \in Plain, o \in {"b", "o"}}

FillCalls == {C("random_uniform", <<>>, T("o", L(<<n>>, <<1>>))) : n \in {0, 1, 4, 6, 9, 12}}

\* Row-major, transposed, expanded, sliced, of one element, of none.
Operands ==
  {L(<<>>, <<>>), L(<<3>>, <<1>>), L(<<3>>, <<2>>), L(<<1>>, <<5>>), L(<<2, 0>>, <<1, 1>>),
   L(<<2, 3>>, <<3, 1>>), L(<<2, 3>>, <<1, 2>>), L(<<2, 1>>, <<1, 1>>), L(<<1, 3>>, <<7, 1>>),
   L(<<2, 3>>, <<0, 1>>), L(<<3, 1, 3>>, <<3, 3, 1>>), L(<<3, 2, 1>>, <<1, 3, 0>>)}

\* No dimension of size 0 meets one of size 1.
Fit(a, b) ==
  LET shape == BroadcastShape(a, b)
  IN  /\ \A d \in DOMAIN shape : shape[d] >= 0
      /\ 0 \in (Range(a.size) \cup Range(b.size)) => a = b

AddCalls ==
  {SveAdd(T("a", p[1]), T("b", p[2])) : p \in {q \in Operands \X Operands : Fit(q[1], q[2])}} \cup
  {SveAddScalar(T("a", l)) : l \in Operands}

\* Batch, head, sequence, complex pairs; heads before or after the sequence.
Heads == {L(<<2, 2, 1, 2>>, <<4, 2, 2, 1>>), L(<<2, 2, 2, 6>>, <<24, 6, 12, 1>>),
          L(<<1, 3, 2, 2>>, <<12, 2, 6, 1>>)}
Freqs(x) == {L(<<x.size[3], x.size[4]>>, <<x.size[4], 1>>),
             L(<<x.size[1], x.size[3], x.size[4]>>, <<x.size[3] * x.size[4], x.size[4], 1>>)}

RopeCalls ==
  UNION {{C(n, <<T("a", x), T("f", f)>>, T(o, x)) :
            n \in Rope, f \in Freqs(x), o \in {"a", "o"}} : x \in Heads}

PackCalls ==
  {C("act_scale_pack",
     <<T("a", L(<<h, w>>, <<w, 1>>)), T("b", L(<<h, 1>>, <<1, 1>>))>>,
     T("o", L(<<h, w + 4>>, <<w + 4, 1>>))) : h \in 0..4, w \in {0, 3}}

\* Rows in row-major order, sliced, with the outer dimensions exchanged, and with
\* two outer dimensions of the same stride.
RmsLayouts == {L(<<2, 2, 3>>, <<6, 3, 1>>), L(<<2, 2, 3>>, <<3, 6, 1>>)}
OtherLayouts == {L(<<3>>, <<1>>), L(<<2, 1, 5>>, <<10, 5, 1>>), L(<<0, 2>>, <<2, 1>>),
                 L(<<1, 2, 2, 2>>, <<8, 2, 4, 1>>), L(<<1, 2, 3>>, <<3, 3, 1>>)}
Weight(l) == T("w", L(<<l.size[Len(l.size)]>>, <<1>>))
Outputs(l) == {m \in RmsLayouts \cup {l} : m.size = l.size}

ForwardCalls ==
  UNION {{C("rmsnorm_forward", <<T("a", l), Weight(l)>>, T("o", m)) : m \in Outputs(l)} :
           l \in RmsLayouts \cup OtherLayouts}
  \cup {C("rmsnorm_forward", <<T("a", l)>>, T("a", l)) : l \in RmsLayouts}

BackwardCalls ==
  UNION {{C("rmsnorm_backward", <<T("a", l), T("b", m), Weight(l)>>, T(o, n)) :
            m \in Outputs(l), n \in Outputs(l), o \in {"o"}} : l \in RmsLayouts \cup OtherLayouts}
  \cup {C("rmsnorm_backward", <<T("a", l), T("b", l), Weight(l)>>, T("b", l)) : l \in RmsLayouts}

RmsCalls == ForwardCalls \cup BackwardCalls
MCCalls  == FlatCalls \cup FillCalls \cup AddCalls \cup RopeCalls \cup PackCalls \cup RmsCalls
MCKeys   == {KeyOf(c) : c \in RmsCalls}

\* Only rms_norm keeps anything from one call to another.
OtherCallsFirst == op.name \notin Rms => calls <= 1
=============================================================================
