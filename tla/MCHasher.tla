------------------------------ MODULE MCHasher -------------------------------
(***************************************************************************)
(* Hasher with some of the vectors of src/digestpp/test/testvectors: one   *)
(* or two of each provider, messages that end at the edges of a block.     *)
(***************************************************************************)
EXTENDS Hasher, Providers

MCVectors == <<
    \* sha1.txt
    [alg |-> [name |-> "sha1", w |-> 32, hs |-> 160],
     parameters |-> [n \in {} |-> <<>>],
     msg |-> Hex("45927e32ddf801caf35e18e7b5078b7f5435278212ec6bb99df884f49b327c6486feae46ba187dc1cc91" \o
                     "45121e1492e6b06e9007394dc33b7748f86ac3207cfe"),
     md  |-> Hex("a70cfbfe7563dd0e665c7c6715a96a8d756950c0")],
    \* sha256.txt
    [alg |-> [name |-> "sha2", w |-> 32, hs |-> 256],
     parameters |-> [n \in {} |-> <<>>],
     msg |-> Hex("5a86b737eaea8ee976a0a24da63e7ed7eefad18a101c1211e2b3650c5187c2a8a650547208251f6d4237" \o
                     "e661c7bf4c77f335390394c37fa1a9f9be836ac28509"),
     md  |-> Hex("42e61e174fbb3897d6dd6cef3dd2802fe67b331953b06114a65c772859dfc1aa")],
    \* sha384.txt
    [alg |-> [name |-> "sha2", w |-> 64, hs |-> 384],
     parameters |-> [n \in {} |-> <<>>],
     msg |-> Hex("a04f390a9cc2effad05db80d9076a8d4b6cc8bba97b27b423670b290b8e69c2b187230011c1481ac88d0" \o
                     "90f39154659494db5e410851c6e8b2b8a93717cae76037e0881978124fe7e1a0929d8891491f4e99646c" \o
                     "c94062dc82411fa66130eda46560e75b98048236439465125e737b"),
     md  |-> Hex("e7089d72945cef851e689b4409cfb63d135f0b5cdfb0dac6c3a292dd70371ab4b79da1997d7992906ac7" \o
                     "213502662920")],
    \* sha512_256.txt
    [alg |-> [name |-> "sha2", w |-> 64, hs |-> 256],
     parameters |-> [n \in {} |-> <<>>],
     msg |-> Hex("92b23c0bc4d8d07d22e28812710dff06cb9bbecea2c960ac0200f480164fa2e1ee19926c7f0b095cec51" \o
                     "d55c040aec990bf9501abd7d355490c366f93a3ae5127347d14dfc3b8d98e0821feefa1cd671b75230ba" \o
                     "1da1fa6d0cfbb910c42f491da8a5c455424ea65886db2e735b2d07b9"),
     md  |-> Hex("55a0597f11ff71c426201715beb585f254bb31c1dbade533f04e499c3391ff79")],
    \* sm3.txt
    [alg |-> [name |-> "sm3", w |-> 32, hs |-> 256],
     parameters |-> [n \in {} |-> <<>>],
     msg |-> Hex("616263646162636461626364616263646162636461626364616263646162636461626364616263646162" \o
                     "63646162636461626364616263646162636461626364"),
     md  |-> Hex("debe9ff92275b8a138604889c18e5a4d6fdb70e5387e5765293dcba39c0c5732")],
    \* md5.txt
    [alg |-> [name |-> "md5", w |-> 32, hs |-> 128],
     parameters |-> [n \in {} |-> <<>>],
     msg |-> Hex("4142434445464748494a4b4c4d4e4f505152535455565758595a6162636465666768696a6b6c6d6e6f70" \o
                     "7172737475767778797a30313233343536373839"),
     md  |-> Hex("d174ab98d277d9f5a5611c2c9f419d9f")],
    \* sha3_256.txt
    [alg |-> [name |-> "sha3", rate |-> 1088, hs |-> 256, xof |-> FALSE],
     parameters |-> [n \in {} |-> <<>>],
     msg |-> Hex("b32d95b0b9aad2a8816de6d06d1f86008505bd8c14124f6e9a163b5a2ade55f835d0ec3880ef50700d3b" \o
                     "25e42cc0af050ccd1be5e555b23087e04d7bf9813622780c7313a1954f8740b6ee2d3f71f768dd417f52" \o
                     "0482bd3a08d4f222b4ee9dbd015447b33507dd50f3ab4247c5de9a8abd62a8decea01e3b87c8b927f5b0" \o
                     "8beb37674c6f8e380c04"),
     md  |-> Hex("df673f4105379ff6b755eeab20ceb0dc77b5286364fe16c59cc8a907aff07732")],
    \* shake128.txt
    [alg |-> [name |-> "shake", rate |-> 1344, hs |-> 0, xof |-> TRUE],
     parameters |-> [n \in {} |-> <<>>],
     msg |-> Hex("a8ded9816defca8327c194a48a88ae4e"),
     md  |-> Hex("ed7397b2215c6c412bf444b1b96fc55c531aef025c6dd13fb4ab53fcc20c91917d82c8d6710a8d7b4c24" \o
                     "d18b54150490e98ee01b4a4b9790d1878810a8392d3fa203b066327c0c67cace3a08c57d0d30b62ba431" \o
                     "21d8d715637884f055c55ad6689692249885dce01c96979f1a2b309943e14abb0ba8e227bceb38166757" \o
                     "9e10694bd442b99064aa88501431")],
    \* cshake256.txt
    [alg |-> [name |-> "shake", rate |-> 1088, hs |-> 0, xof |-> TRUE],
     parameters |-> [customization |-> Hex("456d61696c205369676e6174757265")],
     msg |-> Hex("000102030405060708090a0b0c0d0e0f101112131415161718191a1b1c1d1e1f20212223242526272829" \o
                     "2a2b2c2d2e2f303132333435363738393a3b3c3d3e3f404142434445464748494a4b4c4d4e4f50515253" \o
                     "5455565758595a5b5c5d5e5f606162636465666768696a6b6c6d6e6f707172737475767778797a7b7c7d" \o
                     "7e7f808182838485868788898a8b8c8d8e8f909192939495969798999a9b9c9d9e9fa0a1a2a3a4a5a6a7" \o
                     "a8a9aaabacadaeafb0b1b2b3b4b5b6b7b8b9babbbcbdbebfc0c1c2c3c4c5c6c7"),
     md  |-> Hex("07dc27b11e51fbac75bc7b3c1d983e8b4b85fb1defaf218912ac86430273091727f42b17ed1df63e8ec1" \o
                     "18f04b23633c1dfb1574c8fb55cb45da8e25afb092bb")],
    \* kmac128.txt
    [alg |-> [name |-> "kmac", rate |-> 1344, hs |-> 256, xof |-> FALSE],
     parameters |-> [key |-> Hex("404142434445464748494a4b4c4d4e4f505152535455565758595a5b5c5d5e5f")],
     msg |-> Hex("00010203"),
     md  |-> Hex("e5780b0d3ea6f7d3a429c5706aa43a00fadbd7d49628839e3187243f456ee14e")],
    \* blake256salt.txt
    [alg |-> [name |-> "blake", w |-> 32, hs |-> 256, type |-> "hash"],
     parameters |-> [salt |-> Hex("000102030405060708090a0b0c0d0e0f")],
     msg |-> Hex("de286ba4206e8b005714f80fb1cdfaebde91d29f84603e4a3ebc04686f99a46c9e880b96c574825582e8" \o
                     "812a26e5a857ffc6579f63742f"),
     md  |-> Hex("76073d00e7dada01ebe0217dceb032b10ffb08f8c99c6e8110d12a750900dae4")],
    \* blake384salt.txt
    [alg |-> [name |-> "blake", w |-> 64, hs |-> 384, type |-> "hash"],
     parameters |-> [salt |-> Hex("000102030405060708090a0b0c0d0e0f101112131415161718191a1b1c1d1e1f")],
     msg |-> Hex("58d6a99bc6458824b256916770a8417040721cccfd4b79eacd8b65a3767ce5ba7e74104c985ac56b8cc9" \o
                     "aebd16febd4cda5adb130b0ff2329cc8d611eb14dac268a2f9e633c99de33997fea41c52a7c5e1317d5b" \o
                     "5daed35eba7d5a60e45d1fa7eaabc35f5c2b0a0f2379231953322c4e"),
     md  |-> Hex("ef348afa17f12996a93eb50f30101e2bb14913d136ae8443bec67bb13a21fda1e27b78f0276d14ffb96f" \o
                     "a76fbc70e87a")],
    \* blake2b_512.txt
    [alg |-> [name |-> "blake2", w |-> 64, hs |-> 512, type |-> "hash"],
     parameters |-> [n \in {} |-> <<>>],
     msg |-> Hex("000102030405060708090a0b0c0d0e0f101112131415161718191a1b1c1d1e1f20212223242526272829" \o
                     "2a2b2c2d2e2f303132333435363738393a3b3c3d3e3f404142434445464748494a4b4c4d4e4f50515253" \o
                     "5455565758595a5b5c5d5e5f606162636465666768696a6b6c6d6e6f707172737475767778797a7b7c7d" \o
                     "7e7f80"),
     md  |-> Hex("f59711d44a031d5f97a9413c065d1e614c417ede998590325f49bad2fd444d3e4418be19aec4e11449ac" \o
                     "1a57207898bc57d76a1bcf3566292c20c683a5c4648f")],
    \* blake2xs_2056param.txt
    [alg |-> [name |-> "blake2", w |-> 32, hs |-> 2056, type |-> "x_hash"],
     parameters |-> [salt |-> Hex("0001020304050607"), personalization |-> Hex("0a0b0c0d0e0f1011")],
     msg |-> Hex("000102030405060708090a0b0c0d0e0f101112131415161718191a1b1c1d1e1f20212223242526272829" \o
                     "2a2b2c2d2e2f303132333435363738393a3b3c3d3e3f40"),
     md  |-> Hex("672b4951c5d471f68affac6079ac898216c96a1fd153d07bf1d623ccd9044880eca99b3f87a763dfc4a6" \o
                     "c3a0125fb28ac07d3d98e0667ae6725b90166b9d6eb0a73170816c7fe6dae027aef17fbe2676ff08e37d" \o
                     "2974bb07391096bd94d58fc226222095e2c6e3fac3f8c3e8ff76bedfd5541dc91995e4a084cf3192f356" \o
                     "20dcf4084cb070021fbdc5d3ec99c0716c8ff9eb0df44dd7316d315b269a1424bf439a595cc6fbbba1b6" \o
                     "5933209e10c53ed9d858d66c8f7c13ccde588542cc83d684e83fd15aa026dcf546fc34a2d7e80bd65f2a" \o
                     "206118244a5fe36dccfdae323ee132dad586c611787c5cea7b900b10f3dc7f78bb96c20600316d9a32e3" \o
                     "3ef56b8025")],
    \* blake2xb_xof.txt
    [alg |-> [name |-> "blake2", w |-> 64, hs |-> 0, type |-> "xof"],
     parameters |-> [n \in {} |-> <<>>],
     msg |-> Hex("000102030405060708090a0b0c0d0e0f101112131415161718191a1b1c1d1e1f20212223242526272829" \o
                     "2a2b2c2d2e2f303132333435363738393a3b3c3d3e3f404142434445464748494a4b4c4d4e4f50515253" \o
                     "5455565758595a5b5c5d5e5f606162636465666768696a6b6c6d6e6f707172737475767778797a7b7c7d" \o
                     "7e7f"),
     md  |-> Hex("2d3d914455aac1665d27d6601705db08c144e9d1469ebd59651319c3f226890862c1a3370f62c37409b0" \o
                     "b7fe7998161e85c5aa7ef2f7974c4439b2a79ae1dd81c2c295be7a35098fa5e6ecb59efbf76937facc44" \o
                     "779847a56283")],
    \* skein256_256.txt
    [alg |-> [name |-> "skein", state |-> 256, hs |-> 256, xof |-> FALSE],
     parameters |-> [n \in {} |-> <<>>],
     msg |-> Hex("000000000000000000000000000000000000000000000000000000000000000000000000000000000000" \o
                     "00000000000000000000000000000000000000000000"),
     md  |-> Hex("3e0ca29e4863e8be4d9f28777a7fdc676032c4d9f6904b1cb6aabb029f33741a")],
    \* skein512_xof.txt
    [alg |-> [name |-> "skein", state |-> 512, hs |-> 0, xof |-> TRUE],
     parameters |-> [n \in {} |-> <<>>],
     msg |-> Hex("95d1474a5aab5d2422aca6e481187833a6212bd2d0f91451a67dd786dfc91dfed51b35f47e1deb8a8ab4" \o
                     "b9cb67b70179cc26f553ae7b569969ce151b8d"),
     md  |-> Hex("9de3325bc8896c7c5929a0332ccc7cfd4c623288fb9b28dce5837758f19fd98e")]
>>

=============================================================================
