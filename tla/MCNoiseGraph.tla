----------------------------- MODULE MCNoiseGraph -----------------------------
(* Small graphs of each kind of node and of each way to go wrong.          *)
EXTENDS NoiseGraph

Noise(seed) ==
  [field \in {NoiseWritten[i] : i \in DOMAIN NoiseWritten} |->
     IF field = "seed" THEN seed
     ELSE IF field \in DOMAIN Variants THEN Variants[field][2] ELSE field]

Position(id, kind, source) == [id |-> id, kind |-> kind, source |-> source, noise |-> Noise(1)]
Combine(id, op, inputs, params) == [id |-> id, kind |-> "combine", op |-> op, inputs |-> inputs, params |-> params]

Warp == Position("a", "warp2", Base)
Warp3 == Position("a", "warp3", Base)
SampleA == Position("b", "sample2", "a")
Sample3A == Position("b", "sample3", "a")

(* A warp sampled, clamped and added up; the same in space, which takes    *)
(* slots up to the last one; a node that another one follows first.        *)
Plane == [dimension |-> 2, final |-> "c",
          nodes |-> <<Combine("c", "Sub", <<"b", "d">>, <<>>), SampleA, Position("d", "sample2", Base), Warp>>]
Space == [dimension |-> 3, final |-> "c",
          nodes |-> <<Combine("c", "YGradient", <<"b">>, <<1, 2, 3, 4>>), Sample3A, Warp3>>]
Twice == [dimension |-> 2, final |-> "b",
          nodes |-> <<SampleA, Position("a", "sample2", Base), Warp>>]
MCSpecs == {Plane, Space, Twice}

MCNodes == {Warp, Warp3, SampleA, Sample3A,
            Position("a", "warp2", "a"), Position("b", "sample2", Base), Position("b", "sample3", Base),
            Position("c", "warp3", "a"),
            Combine("b", "Clamp", <<"d">>, <<1, 2>>), Combine("b", "Clamp", <<"d">>, <<2, 1>>),
            Combine("c", "Add", <<"b", "b">>, <<>>), Combine("c", "Mul", <<"b">>, <<>>),
            Combine("c", "Remap", <<"b", "d">>, <<1, 2, 3, 4>>), Combine("c", "YGradient", <<"b">>, <<1, 2>>),
            Combine("d", "Min", <<"b", "c">>, <<>>)}
           \cup UNION {{spec.nodes[i] : i \in DOMAIN spec.nodes} : spec \in MCSpecs}

Query(sides) == [dimension |-> Len(sides), sides |-> sides,
                 origin |-> SubSeq(<<"ox", "oy", "oz">>, 1, Len(sides)),
                 step |-> SubSeq(<<"sx", "sy", "sz">>, 1, Len(sides))]

MCBatches == {<<Query(<<2, 2>>)>>, <<Query(<<1, 2>>), Query(<<0, 1>>), Query(<<2, 1>>)>>,
              <<Query(<<1, 1, 2>>), Query(<<2, 1, 1>>)>>,
              <<Query(<<3, 3>>)>>, <<Query(<<9, 2>>)>>, <<Query(<<8, 1>>)>>,
              <<Query(<<8, 8>>)>>, <<Query(<<8, 8, 0>>)>>, <<Query(<<8, 7>>), Query(<<9, 1>>)>>,
              <<Query(<<2, 1>>), Query(<<3, 2>>)>>}
=============================================================================
