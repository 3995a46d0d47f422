------------------------------ MODULE MCCodec ------------------------------
\* Instances of Codec for TLC.  Protobuf's tags are not 0.
EXTENDS Codec

ThreeNames == {<<65>>, <<65, 66>>, <<67>>}
KnownNames == {<<65>>, <<65, 66>>}
ThreeBodies == {<<>>, <<8>>, <<8, 1, 9>>}
=============================================================================
