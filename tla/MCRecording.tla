---------------------------- MODULE MCRecording ----------------------------
(* Sources for the runs: a frame is a letter, k a keyframe, v another video frame,
   a an audio frame; the gaps between the timestamps are given beside them. *)
EXTENDS StreamReader

FrameOf(letter, t) == [pts |-> t, video |-> letter # "a", key |-> letter = "k"]
Timed(letters, times) == [i \in DOMAIN letters |-> FrameOf(letters[i], times[i])]

MixedSources ==
  {Timed(<<"k", "v", "k", "v", "k">>, <<1, 2, 4, 5, 7>>), Timed(<<"v", "k", "a", "k", "v">>, <<1, 2, 3, 6, 7>>)}
=============================================================================
