------------------------------ MODULE Channels ------------------------------
(***************************************************************************)
(* The timing model of a simulated link (src/net/simulation/channel.rs):   *)
(* how long a message of a given size travels on a link of a given         *)
(* bandwidth, round-trip time, segment size, loss and window.              *)
(*                                                                         *)
(* Time is counted in ticks and rates in bits per tick.  The code computes *)
(* bits / min(rates) in floating point and rounds the result to a          *)
(* nanosecond; here the time is rounded up to a tick.  A rate 8w / rtt is  *)
(* never divided out, so an rtt of 0 (an infinite rate) costs no time.     *)
(* The loss p of a channel is given by loss_term = sqrt(3 / 2p), the only  *)
(* form in which the code uses it; 0 stands for a lossless channel.        *)
(***************************************************************************)
EXTENDS Integers, FiniteSetsExt

NetworkType == {"Tcp", "Instant"}

TCP_IP_HEADER_SIZE == 40

DivideUp(a, b) == (a + b - 1) \div b

\* ChannelConfigBuilder::is_valid.  A loss of at most 1 is a loss term above 1.
IsValidConfig(config) ==
  /\ config.net_type \in NetworkType
  /\ config.bandwidth > 0
  /\ config.rtt >= 0
  /\ config.mss > 0
  /\ config.loss_term = 0 \/ config.loss_term > 1
  /\ config.window_size > 0

\* A message is cut into segments, each with a header.
SizeWithHeaderBits(config, n) ==
  8 * (n + DivideUp(n, config.mss) * TCP_IP_HEADER_SIZE)

\* The time to emit the bits at the rate the bandwidth or the window allows.
LosslessTime(config, bits) ==
  Max({DivideUp(bits, config.bandwidth),
       DivideUp(bits * config.rtt, 8 * config.window_size)})

\* The time to emit the bits at the rate the losses allow.
LossyTime(config, bits) ==
  DivideUp(bits * config.rtt, config.loss_term * 8 * config.mss)

\* The slowest of the limits, and one way of the round trip.
RecvTimeTcp(config, n) ==
  LET bits == SizeWithHeaderBits(config, n)
      lossless == LosslessTime(config, bits)
  IN  (IF config.loss_term = 0 THEN lossless
                               ELSE Max({lossless, LossyTime(config, bits)}))
        + DivideUp(config.rtt, 2)

MessageDelay(config, n) ==
  IF config.net_type = "Tcp" THEN RecvTimeTcp(config, n) ELSE 0

\* SimpleNetworkConfig::channel_config: every link is alike, except that the link
\* of a party to itself is instant.
ChannelConfig(config, link) ==
  IF link[1] = link[2] THEN [config EXCEPT !.net_type = "Instant"] ELSE config

=============================================================================
