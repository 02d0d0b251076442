------------------------------ MODULE HyVision ------------------------------
(***************************************************************************)
(* The attention over time in the memory layers of HY-VLA's vision tower   *)
(* (build_hy_vision_block_mem): the frames of one camera, each of the same *)
(* patches.  A tensor is known by the names of its axes, fastest first:    *)
(* number within a head, head, patch and time, each counted from 0.        *)
(***************************************************************************)
EXTENDS Integers, Sequences

CONSTANTS
  HeadDim, Heads, FramePatches, (* sizes of the first three axes            *)
  Stray                         (* whether what lies behind a mask lets pass *)

ASSUME VisionAssumption ==
  {HeadDim, Heads, FramePatches} \subseteq Nat \ {0} /\ Stray \in BOOLEAN

Tokens == <<"number", "head", "patch", "time">>

Size(axis, frames) ==
  CASE axis = "number" -> HeadDim [] axis = "head" -> Heads [] axis = "patch" -> FramePatches [] axis = "time" -> frames

Places(frames) ==
  [number : 0..HeadDim-1, head : 0..Heads-1, patch : 0..FramePatches-1, time : 0..frames-1]

\* ggml_permute: axis i of the argument is axis to[i] of the result.
Permute(axes, to) == [i \in 1..4 |-> axes[CHOOSE j \in 1..4 : to[j] = i - 1]]

\* Where an element lies, and which one lies there.
Offset(at, axes, frames) ==
  at[axes[1]] + Size(axes[1], frames) * (at[axes[2]] + Size(axes[2], frames)
    * (at[axes[3]] + Size(axes[3], frames) * at[axes[4]]))

ElementAt(offset, axes, frames) == CHOOSE at \in Places(frames) : Offset(at, axes, frames) = offset

\* hy_mem_causal_mask, a square over the frames, as the attention indexes it.
Mask(query, key, frames) ==
  LET flat == query * frames + key
  IN IF flat < frames * frames THEN flat % frames <= flat \div frames ELSE Stray

\* ggml_flash_attn_ext: attention along the second axis, which changes places with the third.
Attended(axes) == <<axes[1], axes[3], axes[2], axes[4]>>
Reads(at, axes, frames) ==
  {[at EXCEPT ![axes[2]] = key] : key \in {k \in 0..Size(axes[2], frames)-1 : Mask(at[axes[2]], k, frames)}}

-----------------------------------------------------------------------------
\* Both ways from the tokens to the attention and back.
Before(batched) == IF batched THEN Permute(Tokens, <<0, 3, 1, 2>>)
                   ELSE Permute(Tokens, <<0, 2, 3, 1>>)   (* one attention per patch *)

After(batched) == IF batched THEN Permute(Attended(Before(TRUE)), <<0, 2, 3, 1>>)
                  ELSE Permute(Attended(Before(FALSE)), <<0, 1, 3, 2>>)   (* put together by frame *)

\* The values that enter what the layer takes for the element at this place.
Mixed(at, batched, frames) ==
  Reads(ElementAt(Offset(at, Tokens, frames), After(batched), frames), Before(batched), frames)

\* Each number of a head and patch is mixed with that of the same head and patch in its
\* own and the earlier frames, and with nothing else.
CausalInTime(batched, frames) ==
  \A at \in Places(frames) : Mixed(at, batched, frames) = {[at EXCEPT !.time = t] : t \in 0..at.time}
=============================================================================
